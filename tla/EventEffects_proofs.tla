------------------------- MODULE EventEffects_proofs -------------------------
(***************************************************************************)
(* Proofs about the effect ledger: no blind replay, a ledger that tells    *)
(* the truth, reconciliation before every run and settlement before every  *)
(* success, for any operations, callers, targets and number of claims.     *)
(***************************************************************************)
EXTENDS EventEffects, TLAPS

Busy(c) == callers[c].pc # "idle"
Current(c) == Busy(c) /\ callers[c].token = delivery.token
Awaited(pcs) == ~target.floating /\ holder.pc \in pcs
UnknownDispatch(op) == op \notin Idempotent /\ effects[op].status = "dispatched"
Pending(op) == op \in holder.todo \/ holder.parking

(* Callers belong to claims that were issued, and know no version that the *)
(* ledger has not reached.                                                 *)
Trailing ==
  \A c \in Callers : Busy(c) =>
    /\ callers[c].token <= delivery.token
    /\ callers[c].version <= effects[callers[c].op].version
    /\ effects[callers[c].op].status # "none"

(* What went out, or may go out at any moment, is on record as dispatched  *)
(* or as what became of the dispatch.                                      *)
SentRecorded ==
  \A op \in Operations :
    performed[op] > 0 \/ InFlight(op) => effects[op].status \notin {"none", "intent"}

(* Nobody runs under the current claim before its program starts nor, when *)
(* the program awaits its calls, while the ledger is swept behind it.      *)
Opening == {"reconcile", "resume"}
NoneCurrent ==
  \/ holder.pc \in {"claimed", "ready"} \union Opening
  \/ Awaited({"sinkRetry", "completion", "sinks", "saving"})
  => \A c \in Callers : ~Current(c)

(* Nobody writes the ledger behind the back of these sweeps, ...           *)
ListedFresh ==
  holder.pc \in Opening \/ Awaited({"sinkRetry", "completion", "sinks"})
  => \A op \in holder.todo : holder.listed[op] = effects[op]

(* ... so that what they have passed has no dispatch of unknown outcome,   *)
(* nothing parked, or nothing unsettled left.                              *)
UnknownPending ==
  holder.pc \in Opening \/ Awaited({"sinkRetry", "completion"})
  => \A op \in Operations : UnknownDispatch(op) => op \in holder.todo
ParkedPending ==
  holder.pc = "reconcile"
  => \A op \in Operations : effects[op].status = "parked" => Pending(op)
UnsettledPending ==
  Awaited({"sinks"})
  => \A op \in Operations : effects[op].status \in Nonterminal => Pending(op)
SavesSettled == Awaited({"saving"}) => AllSettled

(* A program is the only one that dispatched what is dispatched and        *)
(* unknown while it runs.                                                  *)
OwnDeclared ==
  holder.pc = "running" \/ Awaited({"finalizing"})
  => /\ \A c \in Callers : Current(c) => callers[c].op \in holder.declared
     /\ \A op \in Operations : UnknownDispatch(op) => op \in holder.declared

(* At most one caller is between dispatch and operation, and none once the *)
(* operation went out; a caller that declared before the dispatch of       *)
(* another one can no longer dispatch.                                     *)
OneSender ==
  ~target.floating =>
    \A op \in Operations \ Idempotent :
      /\ performed[op] <= 1
      /\ \A c \in Callers : callers[c].pc = "dispatched" /\ callers[c].op = op =>
           /\ performed[op] = 0
           /\ \A d \in Callers :
                callers[d].pc = "dispatched" /\ callers[d].op = op => d = c
Overtaken ==
  ~target.floating =>
    \A c \in Callers :
      /\ Current(c) /\ callers[c].pc = "declared"
      /\ UnknownDispatch(callers[c].op)
      => callers[c].version < effects[callers[c].op].version

(* The worker and the delivery agree on whether it is being processed.     *)
Vacancy ==
  /\ delivery.status # "active" => holder.pc = "idle"
  /\ delivery.status = "active" /\ ~target.crashes => holder.pc # "idle"

(* How the worker came to where it is.                                     *)
Provenance ==
  /\ holder.pc \in {"running", "completion", "finalizing", "sinks", "sinkRetry", "saving"}
     => holder.invoked \/ holder.resumed
  /\ holder.pc = "resume" => holder.resumed
  /\ holder.pc \in {"claimed", "reconcile", "ready", "running"} => ~holder.resumed
  /\ holder.pc = "saving" => holder.todo = {}
  /\ holder.pc = "completion" /\ holder.resumed => delivery.run = "succeeded"

(* Once its output is persisted a delivery is processed to its end without *)
(* another pass through the target.                                        *)
Completing ==
  /\ ~target.crashes /\ ~target.sinkRedrive
  /\ ~target.floating \/ target.retrySafety = "unknown"
  /\ completed
CompletesOnce ==
  Completing =>
     /\ delivery.status # "queued"
     /\ delivery.status = "active" =>
          /\ delivery.run \in {"finalizing", "succeeded"}
          /\ holder.pc \notin {"reconcile", "ready", "running", "retry"}
          /\ holder.pc = "claimed" => delivery.recovered
          /\ holder.pc = "completion" => holder.resumed

IInv ==
  /\ TypeOK /\ Trailing /\ SameRequest /\ SentRecorded
  /\ NoneCurrent /\ ListedFresh
  /\ UnknownPending /\ ParkedPending /\ UnsettledPending /\ SavesSettled
  /\ OwnDeclared /\ RunsReconciled /\ OneSender /\ Overtaken
  /\ CompletionSettled /\ Vacancy /\ Provenance /\ CompletesOnce
-----------------------------------------------------------------------------
(* Types                                                                   *)

LEMMA VacantIs ==
  ASSUME NEW pc \in {"idle", "claimed"}, NEW started \in BOOLEAN
  PROVE  /\ Vacant(pc, started) \in Holder
         /\ Vacant(pc, started).pc = pc
         /\ Vacant(pc, started).started = started
         /\ Vacant(pc, started).todo = {}
         /\ ~Vacant(pc, started).resumed
<1>1. NothingListed \in [Operations -> Effect]
  BY DEF NothingListed, Effect
<1>2. MaxSinkTries \in Nat
  BY EffectsAssumption DEF EffectsAssumption
<1> QED BY <1>1, <1>2 DEF Vacant, Holder

LEMMA SweepingIs ==
  ASSUME TypeOK, NEW kind \in Sweeps
  PROVE  /\ Sweeping(kind) \in Holder
         /\ Sweeping(kind).pc = kind /\ ~Sweeping(kind).parking
         /\ Sweeping(kind).listed = effects
         /\ Sweeping(kind).todo = {op \in Operations : effects[op].status # "none"}
         /\ Sweeping(kind).started = holder.started
         /\ Sweeping(kind).invoked = holder.invoked
         /\ Sweeping(kind).resumed = holder.resumed
         /\ Sweeping(kind).aborted = holder.aborted
         /\ Sweeping(kind).tries = holder.tries
         /\ Sweeping(kind).declared = holder.declared
<1>1. holder \in Holder /\ effects \in [Operations -> Effect]
  BY DEF TypeOK
<1> QED BY <1>1 DEF Sweeping, Holder, Sweeps, Reconciling

LEMMA MovedEffect ==
  ASSUME NEW e \in [status : Nonterminal \union Settled, version : Nat \ {0},
                    digest : Descriptors],
         NEW to \in Nonterminal \union Settled
  PROVE  LET new == [e EXCEPT !.status = to, !.version = e.version + 1]
         IN  /\ new \in Effect /\ new.status = to
             /\ new.version = e.version + 1 /\ new.version \in Nat
             /\ new.digest = e.digest
<1>1. e.version \in Nat /\ e.version + 1 \in Nat \ {0}
  OBVIOUS
<1> QED BY <1>1 DEF Effect

LEMMA AdvanceIs ==
  ASSUME TypeOK, NEW op \in Operations, NEW to \in Nonterminal \union Settled, Advance(op, to)
  PROVE  /\ effects' \in [Operations -> Effect]
         /\ effects'[op].status = to
         /\ effects[op].version \in Nat
         /\ effects'[op].version = effects[op].version + 1
         /\ effects'[op].digest = effects[op].digest
         /\ \A other \in Operations : other # op => effects'[other] = effects[other]
         /\ effects[op].status \in Nonterminal
<1> DEFINE old == effects[op]
           new == [old EXCEPT !.status = to, !.version = old.version + 1]
<1>1. effects \in [Operations -> Effect]
  BY DEF TypeOK
<1>2. old.status \in Nonterminal
  BY <1>1 DEF Advance, Legal, Nonterminal
<1>3. old \in [status : Nonterminal \union Settled, version : Nat \ {0}, digest : Descriptors]
  BY <1>1, <1>2 DEF Effect, NoEffect, Nonterminal
<1>4. effects' = [effects EXCEPT ![op] = new]
  BY <1>1 DEF Advance
<1>5. /\ new \in Effect /\ new.status = to /\ new.version = old.version + 1
      /\ new.digest = old.digest
  BY <1>3, MovedEffect
<1> HIDE DEF new
<1> QED BY <1>1, <1>2, <1>3, <1>4, <1>5

LEMMA TransitionIs ==
  ASSUME TypeOK, NEW op \in Operations, NEW to \in Nonterminal \union Settled,
         NEW token, NEW version, TransitionEffect(op, token, version, to)
  PROVE  /\ Fenced(token)
         /\ effects' \in [Operations -> Effect]
         /\ effects'[op].status = to
         /\ effects'[op].digest = effects[op].digest
         /\ \A other \in Operations : other # op => effects'[other] = effects[other]
         /\ \/ to \in {"parked"} \union Settled /\ UNCHANGED effects
            \/ /\ effects[op].status \in Nonterminal
               /\ Legal(effects[op].status, to)
               /\ effects[op].version = version
               /\ effects[op].version \in Nat
               /\ effects'[op].version = version + 1
<1>1. effects \in [Operations -> Effect]
  BY DEF TypeOK
<1>2. CASE effects[op].version = version /\ Advance(op, to)
  <2>1. Legal(effects[op].status, to)
    BY <1>2 DEF Advance
  <2> QED BY <1>2, <2>1, AdvanceIs, Zenon DEF TransitionEffect
<1>3. CASE effects[op].status = to /\ to \in {"parked"} \union Settled /\ UNCHANGED effects
  BY <1>1, <1>3 DEF TransitionEffect
<1> QED BY <1>2, <1>3 DEF TransitionEffect

LEMMA DeclareIs ==
  ASSUME TypeOK, NEW op \in Operations, NEW digest \in Descriptors, Declare(op, digest)
  PROVE  /\ effects' \in [Operations -> Effect]
         /\ effects'[op].status # "none"
         /\ effects'[op].digest = digest
         /\ effects'[op].version \in Nat
         /\ \A other \in Operations : other # op => effects'[other] = effects[other]
         /\ \/ effects[op].status # "none" /\ UNCHANGED effects
            \/ effects[op].status = "none" /\ effects'[op].status = "intent"
<1>1. effects \in [Operations -> Effect]
  BY DEF TypeOK
<1> DEFINE new == [status |-> "intent", version |-> 1, digest |-> digest]
<1>2. new \in Effect /\ new.version \in Nat
  BY DEF Effect, Nonterminal
<1>3. CASE effects[op].status = "none"
  <2>1. effects' = [effects EXCEPT ![op] = new]
    BY <1>3 DEF Declare, Intent
  <2> QED BY <1>1, <1>2, <1>3, <2>1
<1>4. CASE effects[op].status # "none"
  <2>1. effects[op].digest = digest /\ UNCHANGED effects
    BY <1>4 DEF Declare
  <2>2. effects[op].version \in Nat
    BY <1>1 DEF Effect, NoEffect
  <2> QED BY <1>1, <1>4, <2>1, <2>2
<1> QED BY <1>3, <1>4
-----------------------------------------------------------------------------
(* Steps of the worker that leave the ledger and its callers alone         *)

LedgerPart == Trailing /\ SameRequest /\ SentRecorded /\ OneSender /\ Overtaken
SweepPart ==
  /\ NoneCurrent /\ ListedFresh
  /\ UnknownPending /\ ParkedPending /\ UnsettledPending /\ SavesSettled
  /\ OwnDeclared /\ RunsReconciled
RecordPart == CompletionSettled /\ Vacancy /\ Provenance /\ CompletesOnce

LEMMA Parts == IInv <=> TypeOK /\ LedgerPart /\ SweepPart /\ RecordPart
BY DEF IInv, LedgerPart, SweepPart, RecordPart

LEMMA PartsNext == IInv' <=> TypeOK' /\ LedgerPart' /\ SweepPart' /\ RecordPart'
BY DEF IInv, LedgerPart, SweepPart, RecordPart

(* Tokens only grow, so nobody comes under the current claim by a step of  *)
(* the worker.                                                             *)
LEMMA LedgerKept ==
  ASSUME IInv, UNCHANGED <<target, effects, callers, performed>>,
         delivery'.token \in Nat, delivery'.token >= delivery.token
  PROVE  /\ LedgerPart'
         /\ \A c \in Callers : Current(c)' => Current(c) /\ delivery'.token = delivery.token
<1>1. delivery.token \in Nat
  BY DEF IInv, TypeOK, Delivery
<1>2. \A c \in Callers : Busy(c) => callers[c].token \in Nat
  BY DEF IInv, TypeOK, Caller, Busy, Idle
<1>3. Trailing'
  BY <1>1, <1>2 DEF IInv, Trailing, Busy
<1>4. \A c \in Callers : Current(c)' => Current(c) /\ delivery'.token = delivery.token
  BY <1>1, <1>2 DEF IInv, Trailing, Current, Busy
<1>5. SameRequest' /\ SentRecorded' /\ OneSender'
  BY DEF IInv, SameRequest, SentRecorded, OneSender, InFlight
<1>6. Overtaken'
  BY <1>4 DEF IInv, Overtaken, UnknownDispatch
<1> QED BY <1>3, <1>4, <1>5, <1>6 DEF LedgerPart

LEMMA EndIs ==
  ASSUME TypeOK, NEW status \in {"queued"} \union Ended, NEW run \in RunStatus,
         End(status, run)
  PROVE  /\ delivery' \in Delivery /\ delivery'.token = delivery.token
         /\ holder' = Vacant("idle", FALSE)
         /\ delivery.status = "active"
         /\ \/ delivery'.status = status
            \/ target.crashes /\ delivery'.status = delivery.status
<1>1. delivery \in Delivery /\ holder.started \in BOOLEAN
  BY DEF TypeOK, Holder
<1>2. CASE delivery' = [delivery EXCEPT
             !.status = status, !.run = run, !.leased = FALSE, !.started = holder.started,
             !.deadLetters = IF status \in {"parked", "outcome_unknown", "dead_lettered"}
                             THEN @ \union {"delivery"} ELSE @]
  BY <1>1, <1>2 DEF End, Fenced, Delivery
<1>3. CASE target.crashes /\ delivery' = [delivery EXCEPT !.run = run]
  BY <1>1, <1>3 DEF End, Fenced, Delivery
<1> QED BY <1>2, <1>3 DEF End

(* What ends the work on a claim keeps everything, if it records success   *)
(* only over a settled ledger and starts over only what was not complete.  *)
LEMMA KeepEnd ==
  ASSUME IInv, NEW status \in {"queued"} \union Ended, NEW run \in RunStatus,
         End(status, run), UNCHANGED target,
         status = "succeeded" => AllSettled,
         status = "queued" => holder.pc = "retry"
  PROVE  IInv'
<1> USE DEF IInv
<1>1. /\ delivery' \in Delivery /\ delivery'.token = delivery.token
      /\ delivery.status = "active"
      /\ \/ delivery'.status = status
         \/ target.crashes /\ delivery'.status = delivery.status
  BY EndIs
<1>2. holder' \in Holder /\ holder'.pc = "idle"
  BY EndIs, VacantIs
<1>3. UNCHANGED <<effects, callers, performed, completed>>
  BY DEF End
<1>4. delivery.token \in Nat
  BY DEF TypeOK, Delivery
<1>5. TypeOK'
  BY <1>1, <1>2, <1>3 DEF TypeOK
<1>6. LedgerPart'
  BY <1>1, <1>3, <1>4, LedgerKept
<1>7. SweepPart'
  BY <1>2 DEF SweepPart, NoneCurrent, ListedFresh, UnknownPending, ParkedPending,
              UnsettledPending, SavesSettled, OwnDeclared, RunsReconciled, Awaited, Opening
<1>8. CompletionSettled'
  BY <1>1, <1>3 DEF CompletionSettled, AllSettled, TypeOK, Effect, NoEffect
<1>9. Vacancy' /\ Provenance'
  BY <1>1, <1>2 DEF Vacancy, Provenance, Ended
<1>10. CompletesOnce'
  BY <1>1, <1>2, <1>3 DEF CompletesOnce, Completing, Ended
<1> QED BY <1>5, <1>6, <1>7, <1>8, <1>9, <1>10, PartsNext DEF RecordPart

(* A pass that begins: it lists the ledger as it is.                       *)
LEMMA KeepBegun ==
  ASSUME IInv, NEW kind \in Sweeps, holder.pc # "idle",
         UNCHANGED <<target, effects, delivery, callers, performed, completed>>,
         holder' \in Holder, holder'.pc = kind,
         holder'.listed = effects,
         holder'.todo = {op \in Operations : effects[op].status # "none"},
         kind \in Opening \/ (~target.floating /\ kind \in {"sinkRetry", "completion", "sinks"})
           => \A c \in Callers : ~Current(c),
         kind \in {"completion", "sinks", "sinkRetry"} => holder'.invoked \/ holder'.resumed,
         kind = "resume" => holder'.resumed,
         kind = "reconcile" => ~holder'.resumed,
         kind = "completion" /\ holder'.resumed => delivery.run = "succeeded",
         CompletesOnce'
  PROVE  IInv'
<1> USE DEF IInv
<1>1. effects \in [Operations -> Effect] /\ delivery \in Delivery /\ delivery.token \in Nat
  BY DEF TypeOK, Delivery
<1>2. TypeOK'
  BY DEF TypeOK
<1>3. /\ LedgerPart'
      /\ \A c \in Callers : Current(c)' => Current(c)
  BY <1>1, LedgerKept
<1>4. kind \notin {"idle", "claimed", "ready", "saving", "running", "finalizing"}
  BY DEF Sweeps, Reconciling
<1>5. NoneCurrent'
  BY <1>3, <1>4 DEF NoneCurrent, Awaited
<1>6. ListedFresh'
  BY DEF ListedFresh
<1>7. UnknownPending' /\ ParkedPending' /\ UnsettledPending'
  BY DEF UnknownPending, ParkedPending, UnsettledPending, Pending, UnknownDispatch, Nonterminal
<1>8. SavesSettled' /\ OwnDeclared' /\ RunsReconciled'
  BY <1>4 DEF SavesSettled, OwnDeclared, RunsReconciled, Awaited
<1>9. CompletionSettled' /\ Vacancy'
  BY <1>4 DEF CompletionSettled, Vacancy
<1>10. Provenance'
  BY <1>4 DEF Provenance
<1> QED BY <1>2, <1>3, <1>5, <1>6, <1>7, <1>8, <1>9, <1>10, PartsNext DEF RecordPart, SweepPart

LEMMA KeepStartProcessing == ASSUME IInv, StartProcessing, UNCHANGED target PROVE IInv'
<1> USE DEF IInv
<1>1. /\ holder.pc = "claimed"
      /\ UNCHANGED <<target, effects, delivery, callers, performed, completed>>
  BY DEF StartProcessing
<1>2. \A c \in Callers : ~Current(c)
  BY <1>1 DEF NoneCurrent
<1>3. "unknown" \in Sweeps /\ "resume" \in Sweeps /\ "reconcile" \in Sweeps
  BY DEF Sweeps, Reconciling
<1>4. CASE OutcomeUnknown
  <2>1. holder' = Sweeping("unknown")
    BY <1>4 DEF StartProcessing
  <2>2. CompletesOnce'
    BY <1>1, <1>3, <2>1, SweepingIs DEF CompletesOnce, Completing
  <2> QED BY <1>1, <1>2, <1>3, <2>1, <2>2, SweepingIs, KeepBegun DEF Opening
<1>5. CASE ~OutcomeUnknown /\ Resumable
  <2> DEFINE base == Sweeping("resume")
  <2>1. holder' = [base EXCEPT !.resumed = TRUE]
    BY <1>5 DEF StartProcessing
  <2>2. /\ base \in Holder /\ base.pc = "resume" /\ base.listed = effects
        /\ base.todo = {op \in Operations : effects[op].status # "none"}
    BY <1>3, SweepingIs
  <2> HIDE DEF base
  <2>3. /\ holder' \in Holder /\ holder'.pc = "resume" /\ holder'.listed = effects
        /\ holder'.todo = base.todo /\ holder'.resumed
    BY <2>1, <2>2 DEF Holder
  <2>4. CompletesOnce'
    BY <1>1, <1>3, <2>3 DEF CompletesOnce, Completing
  <2> QED BY <1>1, <1>2, <1>3, <2>2, <2>3, <2>4, KeepBegun
<1>6. CASE ~OutcomeUnknown /\ ~Resumable
  <2>1. holder' = Sweeping("reconcile")
    BY <1>6 DEF StartProcessing
  <2>2. CompletesOnce'
    BY <1>1, <1>3, <1>6, <2>1, SweepingIs DEF CompletesOnce, Completing, Resumable, Vacancy
  <2>3. ~holder.resumed
    BY <1>1 DEF Provenance
  <2> QED BY <1>1, <1>2, <1>3, <2>1, <2>2, <2>3, SweepingIs, KeepBegun
<1> QED BY <1>4, <1>5, <1>6

(* The inner catch: it starts over only what was not complete.             *)
LEMMA KeepCaught ==
  ASSUME IInv, Caught, UNCHANGED target, holder.pc # "idle",
         Completing => Unsafe
  PROVE  IInv'
<1> USE DEF IInv
<1>1. CASE Unsafe /\ Begin("unknown")
  <2>1. "unknown" \in Sweeps
    BY DEF Sweeps
  <2>2. holder' = Sweeping("unknown") /\ UNCHANGED <<effects, delivery, callers, performed, completed>>
    BY <1>1 DEF Begin
  <2>3. CompletesOnce'
    BY <2>1, <2>2, SweepingIs DEF CompletesOnce, Completing
  <2> QED BY <2>1, <2>2, <2>3, SweepingIs, KeepBegun DEF Opening
<1>2. CASE ~Unsafe /\ Begin("retry")
  <2>1. "retry" \in Sweeps
    BY DEF Sweeps, Reconciling
  <2>2. holder' = Sweeping("retry") /\ UNCHANGED <<effects, delivery, callers, performed, completed>>
    BY <1>2 DEF Begin
  <2>3. CompletesOnce'
    BY <1>2, <2>2 DEF CompletesOnce, Completing
  <2> QED BY <2>1, <2>2, <2>3, SweepingIs, KeepBegun DEF Opening
<1>3. CASE ~Unsafe /\ End("dead_lettered", "failed")
  BY <1>3, KeepEnd DEF Ended, RunStatus
<1> QED BY <1>1, <1>2, <1>3 DEF Caught

(* What is thrown behind a completed target meets nothing to retry: either *)
(* nobody could write, or the program is not safe to retry.                *)
LEMMA KeepThrown ==
  ASSUME IInv, Thrown, UNCHANGED target,
         holder.pc \in {"sinks", "sinkRetry", "saving"} => target.floating
  PROVE  IInv'
<1>1. CASE holder.pc \in {"completion", "sinks", "sinkRetry", "saving"} /\ ~holder.resumed
  <2>1. Caught
    BY <1>1 DEF Thrown
  <2>2. Completing => Unsafe
    BY <1>1 DEF IInv, CompletesOnce, Completing, Provenance, Vacancy, Unsafe
  <2> QED BY <1>1, <2>1, <2>2, KeepCaught
<1>2. CASE ~(holder.pc \in {"completion", "sinks", "sinkRetry", "saving"} /\ ~holder.resumed)
  <2>1. End("dead_lettered", delivery.run) /\ delivery.run \in RunStatus
    BY <1>2 DEF Thrown, IInv, TypeOK, Delivery
  <2> QED BY <2>1, KeepEnd DEF Ended
<1> QED BY <1>1, <1>2

LEMMA KeepSweepStale ==
  ASSUME IInv, NEW op \in Operations, SweepStale(op), UNCHANGED target PROVE IInv'
<1>1. Thrown /\ op \in holder.todo /\ holder.listed[op] # effects[op]
  BY DEF SweepStale
<1>2. holder.pc \in {"sinks", "sinkRetry", "saving"} => target.floating
  BY <1>1 DEF IInv, ListedFresh, Awaited, Provenance
<1> QED BY <1>1, <1>2, KeepThrown

LEMMA KeepSucceedRefused == ASSUME IInv, SucceedRefused, UNCHANGED target PROVE IInv'
<1>1. holder.pc = "saving" => target.floating
  BY DEF SucceedRefused, IInv, SavesSettled, Awaited
<1> QED BY <1>1, KeepThrown DEF SucceedRefused

LEMMA KeepSucceed == ASSUME IInv, Succeed, UNCHANGED target PROVE IInv'
BY KeepEnd DEF Succeed, Ended, RunStatus

LEMMA KeepTargetFails == ASSUME IInv, TargetFails, UNCHANGED target PROVE IInv'
<1>1. Completing => Unsafe
  BY DEF TargetFails, UserCode, IInv, CompletesOnce, Vacancy
<1> QED BY <1>1, KeepCaught DEF TargetFails

LEMMA KeepTargetReturns == ASSUME IInv, TargetReturns, UNCHANGED target PROVE IInv'
<1> USE DEF IInv
<1>1. /\ holder.pc = "running" /\ holder' = Sweeping("completion")
      /\ UNCHANGED <<target, effects, delivery, callers, performed, completed>>
  BY DEF TargetReturns, Begin
<1>2. "completion" \in Sweeps
  BY DEF Sweeps
<1>3. ~target.floating => \A c \in Callers : ~Current(c)
  BY DEF TargetReturns, Quiet, Current, Busy
<1>4. ~Completing
  BY <1>1 DEF CompletesOnce, Vacancy
<1>5. CompletesOnce'
  BY <1>1, <1>4 DEF CompletesOnce, Completing
<1>6. holder.invoked /\ ~holder.resumed
  BY <1>1 DEF Provenance
<1>7. /\ holder' \in Holder /\ holder'.pc = "completion" /\ holder'.listed = effects
      /\ holder'.todo = {op \in Operations : effects[op].status # "none"}
      /\ holder'.invoked = holder.invoked /\ holder'.resumed = holder.resumed
  BY <1>1, <1>2, SweepingIs
<1> QED BY <1>1, <1>2, <1>3, <1>5, <1>6, <1>7, KeepBegun DEF Opening

LEMMA KeepSinksEnd == ASSUME IInv, SinksEnd, UNCHANGED target PROVE IInv'
<1> USE DEF IInv
<1>1. /\ holder.pc = "finalizing" /\ holder' = Sweeping("sinks")
      /\ UNCHANGED <<target, effects, delivery, callers, performed, completed>>
  BY DEF SinksEnd, Begin
<1>2. "sinks" \in Sweeps
  BY DEF Sweeps
<1>3. ~target.floating => \A c \in Callers : ~Current(c)
  BY DEF SinksEnd, Quiet, Current, Busy
<1>4. CompletesOnce'
  BY <1>1, <1>2, SweepingIs DEF CompletesOnce, Completing
<1>5. holder.invoked \/ holder.resumed
  BY <1>1 DEF Provenance
<1> QED BY <1>1, <1>2, <1>3, <1>4, <1>5, SweepingIs, KeepBegun DEF Opening

LEMMA KeepSinkFails == ASSUME IInv, SinkFails, UNCHANGED target PROVE IInv'
<1> USE DEF IInv
<1> DEFINE base == Sweeping("sinkRetry")
<1>1. /\ holder.pc = "finalizing"
      /\ holder' = [base EXCEPT !.tries = base.tries + 1]
      /\ base.tries = holder.tries /\ holder.tries < MaxSinkTries
      /\ UNCHANGED <<target, effects, delivery, callers, performed, completed>>
  <2>1. "sinkRetry" \in Sweeps
    BY DEF Sweeps, Reconciling
  <2> QED BY <2>1, SweepingIs DEF SinkFails
<1>2. /\ base \in Holder /\ base.pc = "sinkRetry" /\ base.listed = effects
      /\ base.todo = {op \in Operations : effects[op].status # "none"}
      /\ base.invoked = holder.invoked /\ base.resumed = holder.resumed
      /\ "sinkRetry" \in Sweeps
  BY SweepingIs DEF Sweeps, Reconciling
<1> HIDE DEF base
<1>3. base.tries + 1 \in 0 .. MaxSinkTries
  BY <1>1, <1>2, EffectsAssumption DEF EffectsAssumption, Holder
<1>4. /\ holder' \in Holder /\ holder'.pc = "sinkRetry" /\ holder'.listed = effects
      /\ holder'.todo = {op \in Operations : effects[op].status # "none"}
      /\ holder'.invoked = holder.invoked /\ holder'.resumed = holder.resumed
  BY <1>1, <1>2, <1>3 DEF Holder
<1>5. ~target.floating => \A c \in Callers : ~Current(c)
  BY DEF SinkFails, Quiet, Current, Busy
<1>6. CompletesOnce'
  BY <1>1, <1>4 DEF CompletesOnce, Completing
<1>7. holder.invoked \/ holder.resumed
  BY <1>1 DEF Provenance
<1> QED BY <1>1, <1>2, <1>4, <1>5, <1>6, <1>7, KeepBegun DEF Opening

LEMMA KeepCancel == ASSUME IInv, Cancel, UNCHANGED target PROVE IInv'
<1> USE DEF IInv
<1>1. CASE End("dead_lettered", delivery.run)
  <2>1. delivery.run \in RunStatus
    BY DEF TypeOK, Delivery
  <2> QED BY <1>1, <2>1, KeepEnd DEF Ended
<1>2. CASE /\ ~holder.resumed /\ holder.pc \notin Unhandled
           /\ holder' = [Sweeping("cancel") EXCEPT !.aborted = TRUE]
           /\ UNCHANGED <<effects, delivery, callers, performed, completed>>
  <2> DEFINE base == Sweeping("cancel")
  <2>1. /\ holder.pc # "idle"
        /\ holder' = [base EXCEPT !.aborted = TRUE]
        /\ UNCHANGED <<target, effects, delivery, callers, performed, completed>>
    BY <1>2 DEF Cancel, UserCode, Reconciling
  <2>2. /\ base \in Holder /\ base.pc = "cancel" /\ base.listed = effects
        /\ base.todo = {op \in Operations : effects[op].status # "none"}
        /\ "cancel" \in Sweeps
    BY SweepingIs DEF Sweeps
  <2> HIDE DEF base
  <2>3. /\ holder' \in Holder /\ holder'.pc = "cancel" /\ holder'.listed = effects
        /\ holder'.todo = {op \in Operations : effects[op].status # "none"}
    BY <2>1, <2>2 DEF Holder
  <2>4. CompletesOnce'
    BY <2>1, <2>3 DEF CompletesOnce, Completing
  <2> QED BY <2>1, <2>2, <2>3, <2>4, KeepBegun DEF Opening
<1> QED BY <1>1, <1>2 DEF Cancel

(* A step to another phase under the same claim.                           *)
LEMMA KeepPhase ==
  ASSUME IInv, UNCHANGED <<target, effects, callers, performed>>,
         delivery' \in Delivery, holder' \in Holder, completed' \in BOOLEAN,
         delivery.status = "active", delivery'.status = "active",
         delivery'.token = delivery.token,
         holder'.pc \in {"ready", "running", "finalizing", "saving"},
         holder'.pc = "saving" => holder'.todo = {},
         holder'.pc \in {"running", "finalizing", "saving"} => holder'.invoked \/ holder'.resumed,
         holder'.pc \in {"ready", "running"} => ~holder'.resumed,
         NoneCurrent', SavesSettled', OwnDeclared', RunsReconciled', CompletesOnce'
  PROVE  IInv'
<1> USE DEF IInv
<1>1. delivery.token \in Nat
  BY DEF TypeOK, Delivery
<1>2. TypeOK'
  BY DEF TypeOK
<1>3. LedgerPart'
  BY <1>1, LedgerKept
<1>4. ListedFresh' /\ UnknownPending' /\ ParkedPending' /\ UnsettledPending'
  BY DEF ListedFresh, UnknownPending, ParkedPending, UnsettledPending, Awaited, Opening
<1>5. CompletionSettled' /\ Vacancy' /\ Provenance'
  BY DEF CompletionSettled, Vacancy, Provenance
<1> QED BY <1>2, <1>3, <1>4, <1>5, PartsNext DEF RecordPart, SweepPart

(* A pass that ends hands over to the next phase, with the holder's other  *)
(* fields as they are.                                                     *)
LEMMA KeepSweepEnds == ASSUME IInv, SweepEnds, UNCHANGED target PROVE IInv'
<1> USE DEF IInv
<1> DEFINE run == delivery.run
<1>1. /\ holder.pc \in Sweeps /\ holder.todo = {} /\ delivery.status = "active"
      /\ holder \in Holder /\ delivery \in Delivery /\ run \in RunStatus
  BY DEF SweepEnds, TypeOK, Vacancy, Sweeps, Reconciling, Delivery
<1>2. CASE holder.parking /\ holder.pc \notin {"unknown", "sinkRetry"}
  <2>1. End("parked", IF run = "none" THEN "none" ELSE "parked")
    BY <1>2 DEF SweepEnds
  <2>2. (IF run = "none" THEN "none" ELSE "parked") \in RunStatus
    BY DEF RunStatus, Ended
  <2> QED BY <2>1, <2>2, KeepEnd DEF Ended
<1>3. CASE holder.pc = "retry" /\ ~holder.parking
  <2>1. End("queued", "failed")
    BY <1>3 DEF SweepEnds
  <2> QED BY <1>3, <2>1, KeepEnd DEF RunStatus
<1>4. CASE holder.pc = "cancel" /\ ~holder.parking
  <2>1. End("cancelled", "cancelled")
    BY <1>4 DEF SweepEnds
  <2> QED BY <1>4, <2>1, KeepEnd DEF RunStatus, Ended
<1>5. CASE holder.pc = "unknown"
  <2>1. End("outcome_unknown", IF holder.invoked THEN "outcome_unknown" ELSE run)
    BY <1>5 DEF SweepEnds
  <2>2. (IF holder.invoked THEN "outcome_unknown" ELSE run) \in RunStatus
    BY <1>1 DEF RunStatus, Ended
  <2> QED BY <2>1, <2>2, KeepEnd DEF Ended
<1>6. CASE holder.pc = "reconcile" /\ ~holder.parking
  <2>1. /\ delivery' = [delivery EXCEPT !.run = "running"]
        /\ holder' = [holder EXCEPT !.pc = "ready"]
        /\ UNCHANGED <<target, effects, callers, performed, completed>>
    BY <1>6 DEF SweepEnds
  <2>2. /\ delivery' \in Delivery /\ delivery'.run = "running"
        /\ delivery'.token = delivery.token /\ delivery'.status = delivery.status
        /\ holder' \in Holder /\ holder'.pc = "ready" /\ holder'.resumed = holder.resumed
    BY <1>1, <2>1 DEF Delivery, Holder, RunStatus
  <2>3. ~holder.resumed /\ \A c \in Callers : ~Current(c)
    BY <1>6 DEF Provenance, NoneCurrent, Opening
  <2>4. NoneCurrent'
    BY <2>1, <2>2, <2>3 DEF NoneCurrent, Current, Busy
  <2>5. \A op \in Operations : effects[op].status # "parked" /\ ~UnknownDispatch(op)
    BY <1>1, <1>6 DEF ParkedPending, UnknownPending, Pending, Opening
  <2>6. RunsReconciled'
    BY <2>1, <2>5 DEF RunsReconciled, UnknownDispatch
  <2>7. SavesSettled' /\ OwnDeclared'
    BY <2>2 DEF SavesSettled, OwnDeclared, Awaited
  <2>8. CompletesOnce'
    BY <1>1, <1>6, <2>1 DEF CompletesOnce, Completing
  <2> QED BY <1>1, <2>1, <2>2, <2>3, <2>4, <2>6, <2>7, <2>8, KeepPhase DEF TypeOK
<1>7. CASE holder.pc = "resume" /\ ~holder.parking
  <2>1. /\ holder' = IF run = "succeeded" THEN Sweeping("completion")
                     ELSE [holder EXCEPT !.pc = "finalizing"]
        /\ UNCHANGED <<target, effects, delivery, callers, performed, completed>>
    BY <1>7 DEF SweepEnds
  <2>2. holder.resumed /\ \A c \in Callers : ~Current(c)
    BY <1>7 DEF Provenance, NoneCurrent, Opening
  <2>3. CASE run = "succeeded"
    <3>1. "completion" \in Sweeps /\ holder' = Sweeping("completion")
      BY <2>1, <2>3 DEF Sweeps
    <3>2. /\ holder' \in Holder /\ holder'.pc = "completion" /\ holder'.listed = effects
          /\ holder'.todo = {op \in Operations : effects[op].status # "none"}
          /\ holder'.resumed
      BY <2>2, <3>1, SweepingIs
    <3>3. CompletesOnce'
      BY <1>1, <2>1, <3>2 DEF CompletesOnce, Completing
    <3> QED BY <1>1, <1>7, <2>1, <2>2, <2>3, <3>1, <3>2, <3>3, KeepBegun
  <2>4. CASE run # "succeeded"
    <3>1. holder' = [holder EXCEPT !.pc = "finalizing"]
      BY <2>1, <2>4
    <3>2. holder' \in Holder /\ holder'.pc = "finalizing" /\ holder'.resumed
      BY <1>1, <2>2, <3>1 DEF Holder, UserCode
    <3>3. NoneCurrent' /\ SavesSettled' /\ RunsReconciled'
      BY <3>2 DEF NoneCurrent, SavesSettled, RunsReconciled, Awaited, Opening
    <3>4. \A op \in Operations : ~UnknownDispatch(op)
      BY <1>1, <1>7 DEF UnknownPending, Pending, Opening
    <3>5. OwnDeclared'
      BY <2>1, <2>2, <3>2, <3>4 DEF OwnDeclared, UnknownDispatch, Current, Busy
    <3>6. CompletesOnce'
      BY <1>1, <2>1, <3>2 DEF CompletesOnce, Completing
    <3> QED BY <1>1, <2>1, <3>2, <3>3, <3>5, <3>6, KeepPhase DEF TypeOK
  <2> QED BY <2>3, <2>4
<1>8. CASE holder.pc = "completion" /\ ~holder.parking
  <2>1. /\ delivery' = [delivery EXCEPT !.run = IF holder.resumed THEN @ ELSE "finalizing"]
        /\ holder' = [holder EXCEPT !.pc = "finalizing"]
        /\ completed' = TRUE
        /\ UNCHANGED <<target, effects, callers, performed>>
    BY <1>8 DEF SweepEnds
  <2>2. /\ delivery' \in Delivery
        /\ delivery'.run = IF holder.resumed THEN run ELSE "finalizing"
        /\ delivery'.token = delivery.token /\ delivery'.status = delivery.status
        /\ holder' \in Holder /\ holder'.pc = "finalizing"
        /\ holder'.invoked = holder.invoked /\ holder'.resumed = holder.resumed
    BY <1>1, <2>1 DEF Delivery, Holder, RunStatus, UserCode
  <2>3. /\ holder.invoked \/ holder.resumed
        /\ holder.resumed => run = "succeeded"
        /\ ~target.floating => \A c \in Callers : ~Current(c)
        /\ ~target.floating => \A op \in Operations : ~UnknownDispatch(op)
    BY <1>1, <1>8 DEF Provenance, NoneCurrent, UnknownPending, Pending, Awaited
  <2>4. NoneCurrent' /\ SavesSettled' /\ RunsReconciled'
    BY <2>2 DEF NoneCurrent, SavesSettled, RunsReconciled, Awaited, Opening
  <2>5. OwnDeclared'
    BY <2>1, <2>2, <2>3 DEF OwnDeclared, UnknownDispatch, Current, Busy, Awaited
  <2>6. CompletesOnce'
    BY <1>1, <2>1, <2>2, <2>3 DEF CompletesOnce, Completing
  <2> QED BY <1>1, <2>1, <2>2, <2>3, <2>4, <2>5, <2>6, KeepPhase
<1>9. CASE holder.pc = "sinkRetry"
  <2>1. /\ holder' = [holder EXCEPT !.pc = "finalizing", !.declared = {}]
        /\ \/ delivery' = [delivery EXCEPT !.deadLetters = @ \union {"sink"}]
           \/ UNCHANGED delivery
        /\ UNCHANGED <<target, effects, callers, performed, completed>>
    BY <1>9 DEF SweepEnds
  <2>2. /\ delivery' \in Delivery /\ delivery'.run = run
        /\ delivery'.token = delivery.token /\ delivery'.status = delivery.status
        /\ delivery'.recovered = delivery.recovered
        /\ holder' \in Holder /\ holder'.pc = "finalizing"
        /\ holder'.invoked = holder.invoked /\ holder'.resumed = holder.resumed
    BY <1>1, <2>1 DEF Delivery, Holder, UserCode
  <2>3. /\ holder.invoked \/ holder.resumed
        /\ ~target.floating => \A c \in Callers : ~Current(c)
        /\ ~target.floating => \A op \in Operations : ~UnknownDispatch(op)
    BY <1>1, <1>9 DEF Provenance, NoneCurrent, UnknownPending, Pending, Awaited
  <2>4. NoneCurrent' /\ SavesSettled' /\ RunsReconciled'
    BY <2>2 DEF NoneCurrent, SavesSettled, RunsReconciled, Awaited, Opening
  <2>5. OwnDeclared'
    BY <2>1, <2>2, <2>3 DEF OwnDeclared, UnknownDispatch, Current, Busy, Awaited
  <2>6. CompletesOnce'
    BY <1>1, <1>9, <2>1, <2>2 DEF CompletesOnce, Completing
  <2> QED BY <1>1, <2>1, <2>2, <2>3, <2>4, <2>5, <2>6, KeepPhase DEF TypeOK
<1>10. CASE holder.pc = "sinks" /\ ~holder.parking
  <2>1. /\ delivery' = [delivery EXCEPT !.run = "succeeded"]
        /\ holder' = [holder EXCEPT !.pc = "saving"]
        /\ UNCHANGED <<target, effects, callers, performed, completed>>
    BY <1>10 DEF SweepEnds
  <2>2. /\ delivery' \in Delivery /\ delivery'.run = "succeeded"
        /\ delivery'.token = delivery.token /\ delivery'.status = delivery.status
        /\ holder' \in Holder /\ holder'.pc = "saving" /\ holder'.todo = {}
        /\ holder'.invoked = holder.invoked /\ holder'.resumed = holder.resumed
    BY <1>1, <2>1 DEF Delivery, Holder, RunStatus, Ended
  <2>3. /\ holder.invoked \/ holder.resumed
        /\ ~target.floating => \A c \in Callers : ~Current(c)
        /\ ~target.floating => AllSettled
    BY <1>1, <1>10 DEF Provenance, NoneCurrent, UnsettledPending, Pending, Awaited, AllSettled
  <2>4. NoneCurrent'
    BY <2>1, <2>2, <2>3 DEF NoneCurrent, Current, Busy, Awaited, Opening
  <2>5. SavesSettled' /\ RunsReconciled' /\ OwnDeclared'
    BY <2>1, <2>2, <2>3 DEF SavesSettled, AllSettled, RunsReconciled, OwnDeclared, Awaited
  <2>6. CompletesOnce'
    BY <1>1, <2>1, <2>2 DEF CompletesOnce, Completing
  <2> QED BY <1>1, <2>1, <2>2, <2>3, <2>4, <2>5, <2>6, KeepPhase DEF TypeOK
<1> QED BY <1>1, <1>2, <1>3, <1>4, <1>5, <1>6, <1>7, <1>8, <1>9, <1>10
    DEF Sweeps, Reconciling

LEMMA KeepInvoke == ASSUME IInv, Invoke, UNCHANGED target PROVE IInv'
<1> USE DEF IInv
<1>1. /\ holder.pc = "ready" /\ delivery.status = "active"
      /\ delivery' = [delivery EXCEPT !.started = TRUE]
      /\ holder' = [holder EXCEPT !.pc = "running", !.invoked = TRUE]
      /\ UNCHANGED <<target, effects, callers, performed, completed>>
  BY DEF Invoke, Fenced
<1>2. holder \in Holder /\ delivery \in Delivery
  BY DEF TypeOK
<1>3. /\ delivery' \in Delivery /\ delivery'.run = delivery.run
      /\ delivery'.token = delivery.token /\ delivery'.status = delivery.status
      /\ holder' \in Holder /\ holder'.pc = "running"
      /\ holder'.invoked /\ holder'.resumed = holder.resumed
      /\ holder'.declared = holder.declared
  BY <1>1, <1>2 DEF Delivery, Holder, UserCode
<1>4. ~holder.resumed /\ \A c \in Callers : ~Current(c)
  BY <1>1 DEF Provenance, NoneCurrent
<1>5. \A op \in Operations : effects[op].status # "parked" /\ (UnknownDispatch(op) => op \in holder.declared)
  BY <1>1 DEF RunsReconciled, UnknownDispatch
<1>6. NoneCurrent' /\ SavesSettled'
  BY <1>3 DEF NoneCurrent, SavesSettled, Awaited, Opening
<1>7. OwnDeclared'
  BY <1>1, <1>3, <1>4, <1>5 DEF OwnDeclared, UnknownDispatch, Current, Busy
<1>8. RunsReconciled'
  BY <1>1, <1>3, <1>5 DEF RunsReconciled, UnknownDispatch
<1>9. CompletesOnce'
  BY <1>1, <1>3 DEF CompletesOnce, Completing
<1> QED BY <1>1, <1>3, <1>4, <1>6, <1>7, <1>8, <1>9, KeepPhase DEF TypeOK

LEMMA KeepClaim == ASSUME IInv, Claim, UNCHANGED target PROVE IInv'
<1> USE DEF IInv
<1>1. /\ delivery.token < target.tokens
      /\ delivery.status = "queued" \/ (delivery.status = "active" /\ ~delivery.leased)
      /\ holder' = Vacant("claimed", delivery.started)
      /\ UNCHANGED <<target, effects, callers, performed, completed>>
  BY DEF Claim
<1>2. delivery \in Delivery /\ target.tokens \in Nat /\ delivery.token \in Nat
  BY EffectsAssumption DEF TypeOK, EffectsAssumption, Target, Delivery
<1>3. /\ delivery' \in Delivery /\ delivery'.token = delivery.token + 1
      /\ delivery'.status = "active" /\ delivery'.run = delivery.run
      /\ delivery.status = "active" => delivery'.recovered
  <2> DEFINE reclaimed == \/ delivery.recovered \/ delivery.status = "active"
                         \/ (delivery.started /\ delivery.run # "none")
  <2>1. PICK recovered \in BOOLEAN, token \in Nat :
          /\ delivery' = [delivery EXCEPT !.status = "active", !.token = token,
                                          !.leased = TRUE, !.recovered = recovered]
          /\ token = delivery.token + 1
          /\ delivery.status = "active" => recovered
    <3>1. delivery' = [delivery EXCEPT !.status = "active", !.token = delivery.token + 1,
                                       !.leased = TRUE, !.recovered = reclaimed]
      BY <1>2 DEF Claim
    <3>2. reclaimed \in BOOLEAN /\ (delivery.status = "active" => reclaimed)
      BY Zenon
    <3>3. delivery.token + 1 \in Nat
      BY <1>2
    <3> HIDE DEF reclaimed
    <3> QED BY <3>1, <3>2, <3>3, Zenon
  <2> QED BY <1>2, <2>1 DEF Delivery
<1>4. holder' \in Holder /\ holder'.pc = "claimed" /\ ~holder'.resumed
  BY <1>1, <1>2, VacantIs DEF Delivery
<1>5. TypeOK'
  BY <1>1, <1>2, <1>3, <1>4 DEF TypeOK
<1>6. LedgerPart' /\ \A c \in Callers : ~Current(c)'
  BY <1>1, <1>2, <1>3, LedgerKept
<1>7. SweepPart'
  BY <1>4, <1>6 DEF SweepPart, NoneCurrent, ListedFresh, UnknownPending, ParkedPending,
     UnsettledPending, SavesSettled, OwnDeclared, RunsReconciled, Awaited, Opening
<1>8. CompletionSettled' /\ Vacancy' /\ Provenance'
  BY <1>3, <1>4 DEF CompletionSettled, Vacancy, Provenance
<1>9. CompletesOnce'
  BY <1>1, <1>3, <1>4 DEF CompletesOnce, Completing
<1> QED BY <1>5, <1>6, <1>7, <1>8, <1>9, PartsNext DEF RecordPart

(* The holder and the delivery's status and run stay as they are.          *)
LEMMA KeepHeld ==
  ASSUME IInv, UNCHANGED <<target, effects, callers, performed, holder, completed>>,
         delivery' \in Delivery, delivery'.token = delivery.token,
         delivery'.status = delivery.status, delivery'.run = delivery.run,
         delivery'.recovered = delivery.recovered
  PROVE  IInv'
<1> USE DEF IInv
<1>1. delivery.token \in Nat
  BY DEF TypeOK, Delivery
<1>2. TypeOK'
  BY DEF TypeOK
<1>3. LedgerPart' /\ \A c \in Callers : Current(c)' => Current(c)
  BY <1>1, LedgerKept
<1>4. NoneCurrent' /\ OwnDeclared'
  BY <1>3 DEF NoneCurrent, OwnDeclared, Awaited, UnknownDispatch
<1>5. SweepPart'
  BY <1>4 DEF SweepPart, ListedFresh, UnknownPending, ParkedPending, UnsettledPending,
     SavesSettled, AllSettled, RunsReconciled, Awaited, UnknownDispatch, Pending
<1>6. CompletionSettled' /\ Vacancy' /\ Provenance'
  BY DEF CompletionSettled, Vacancy, Provenance
<1>7. CompletesOnce'
  BY DEF CompletesOnce, Completing
<1> QED BY <1>2, <1>3, <1>5, <1>6, <1>7, PartsNext DEF RecordPart

LEMMA KeepLeaseExpires == ASSUME IInv, LeaseExpires, UNCHANGED target PROVE IInv'
BY KeepHeld DEF IInv, TypeOK, Delivery, LeaseExpires

(* A redriven delivery waits: the worker is gone and every caller is of an *)
(* earlier claim.                                                          *)
LEMMA KeepRedriven ==
  ASSUME IInv, NEW kind \in {"delivery", "sink"}, NEW redriven \in Delivery,
         Redrive(kind, redriven), redriven.token = delivery.token,
         completed' \in BOOLEAN, UNCHANGED target,
         ~completed' \/ target.sinkRedrive
  PROVE  IInv'
<1> USE DEF IInv
<1>1. /\ delivery.status \in Ended /\ delivery.token < target.tokens
      /\ UNCHANGED <<target, effects, holder, callers, performed>>
  BY DEF Redrive
<1>2. delivery \in Delivery /\ target.tokens \in Nat /\ delivery.token \in Nat
  BY EffectsAssumption DEF TypeOK, EffectsAssumption, Target, Delivery
<1>3. /\ delivery' \in Delivery /\ delivery'.token = delivery.token + 1
      /\ delivery'.status = "queued"
  <2>1. PICK left \in {delivery.deadLetters \ {kind}} \union
                        (IF target.crashes THEN {delivery.deadLetters} ELSE {}) :
          delivery' = [redriven EXCEPT !.status = "queued", !.token = @ + 1, !.deadLetters = left]
    BY DEF Redrive
  <2>2. left \in SUBSET {"delivery", "sink"}
    BY <1>2 DEF Delivery
  <2>3. PICK token \in Nat : token = redriven.token + 1
    BY <1>2
  <2>4. delivery' = [redriven EXCEPT !.status = "queued", !.token = token, !.deadLetters = left]
    BY <2>1, <2>3
  <2> QED BY <1>2, <2>2, <2>3, <2>4 DEF Delivery
<1>4. holder.pc = "idle"
  BY <1>1 DEF Vacancy, Ended
<1>5. TypeOK'
  BY <1>1, <1>2, <1>3 DEF TypeOK
<1>6. LedgerPart'
  BY <1>1, <1>2, <1>3, LedgerKept
<1>7. SweepPart'
  BY <1>1, <1>4 DEF SweepPart, NoneCurrent, ListedFresh, UnknownPending, ParkedPending,
     UnsettledPending, SavesSettled, OwnDeclared, RunsReconciled, Awaited, Opening
<1>8. CompletionSettled' /\ Vacancy' /\ Provenance'
  BY <1>1, <1>3, <1>4 DEF CompletionSettled, Vacancy, Provenance
<1>9. CompletesOnce'
  BY <1>1 DEF CompletesOnce, Completing
<1> QED BY <1>5, <1>6, <1>7, <1>8, <1>9, PartsNext DEF RecordPart

LEMMA KeepRedriveDelivery == ASSUME IInv, RedriveDelivery, UNCHANGED target PROVE IInv'
<1> DEFINE redriven == [delivery EXCEPT !.run = "none", !.started = FALSE]
<1>1. delivery \in Delivery
  BY DEF IInv, TypeOK
<1>2. redriven \in Delivery /\ redriven.token = delivery.token
  BY <1>1 DEF Delivery, RunStatus
<1>3. Redrive("delivery", redriven) /\ completed' = FALSE
  BY DEF RedriveDelivery
<1> HIDE DEF redriven
<1> QED BY <1>2, <1>3, KeepRedriven

LEMMA KeepRedriveSink == ASSUME IInv, RedriveSink, UNCHANGED target PROVE IInv'
<1> DEFINE redriven == [delivery EXCEPT !.started = TRUE, !.recovered = TRUE]
<1>1. delivery \in Delivery /\ completed \in BOOLEAN
  BY DEF IInv, TypeOK
<1>2. redriven \in Delivery /\ redriven.token = delivery.token
  BY <1>1 DEF Delivery
<1>3. Redrive("sink", redriven) /\ completed' = completed /\ target.sinkRedrive
  BY DEF RedriveSink
<1> HIDE DEF redriven
<1> QED BY <1>1, <1>2, <1>3, KeepRedriven
-----------------------------------------------------------------------------
(* A pass over one record                                                  *)

LEMMA HandledIs ==
  ASSUME TypeOK, NEW op \in Operations, NEW parked \in BOOLEAN, Handled(op, parked)
  PROVE  /\ holder' \in Holder /\ holder'.pc = holder.pc
         /\ holder'.todo = holder.todo \ {op}
         /\ holder.parking \/ parked => holder'.parking
         /\ holder'.listed = holder.listed
         /\ holder'.invoked = holder.invoked /\ holder'.resumed = holder.resumed
<1>1. holder \in Holder
  BY DEF TypeOK
<1>2. PICK parking \in BOOLEAN :
        /\ holder' = [holder EXCEPT !.todo = holder.todo \ {op}, !.parking = parking]
        /\ holder.parking \/ parked => parking
  <2> DEFINE either == holder.parking \/ parked
  <2>1. holder' = [holder EXCEPT !.todo = holder.todo \ {op}, !.parking = either]
    BY <1>1 DEF Handled
  <2>2. either \in BOOLEAN /\ (holder.parking \/ parked => either)
    BY Zenon
  <2> HIDE DEF either
  <2> QED BY <2>1, <2>2, Zenon
<1>3. holder.todo \ {op} \in SUBSET Operations
  BY <1>1 DEF Holder
<1> QED BY <1>1, <1>2, <1>3 DEF Holder

(* What a pass does to the record it handles.                              *)
LEMMA MovedIs ==
  ASSUME TypeOK, NEW op \in Operations, NEW to \in {"parked", "intent"} \union Settled,
         MovedTo(op, to)
  PROVE  /\ effects' \in [Operations -> Effect]
         /\ effects'[op].status = to
         /\ effects'[op].digest = effects[op].digest
         /\ effects[op].version \in Nat
         /\ effects'[op].version \in {effects[op].version, effects[op].version + 1}
         /\ \A other \in Operations : other # op => effects'[other] = effects[other]
         /\ Handled(op, to = "parked")
<1>1. to \in Nonterminal \union Settled
  BY DEF Nonterminal
<1>2. effects[op].version \in Nat
  BY DEF TypeOK, Effect, NoEffect
<1>3. TransitionEffect(op, delivery.token, holder.listed[op].version, to) /\ Handled(op, to = "parked")
  BY DEF MovedTo
<1> QED BY <1>1, <1>2, <1>3, TransitionIs

LEMMA ResolutionIs ==
  ASSUME TypeOK, NEW op \in Operations, NEW to \in Resolutions(op)
  PROVE  /\ to \in {"parked", "intent"} \union Settled
         /\ to = "intent" => performed[op] = 0 /\ ~InFlight(op)
<1>1. target.settlements \subseteq Settled
  BY EffectsAssumption DEF TypeOK, EffectsAssumption, Target, Settled
<1>2. performed[op] > 0 => performed[op] # 0
  BY DEF TypeOK
<1> QED BY <1>1 DEF Resolutions, Settled

Swept(op, parked) ==
  /\ Handled(op, parked)
  /\ \/ UNCHANGED effects
     \/ \E to \in {"parked", "intent"} \union Settled :
          /\ MovedTo(op, to)
          /\ to = "intent" => performed[op] = 0 /\ ~InFlight(op)
  /\ holder.listed[op] = effects[op] =>
       /\ holder.pc \in Reconciling =>
            /\ effects'[op].status # "dispatched" \/ op \in Idempotent
            /\ effects'[op].status = "parked" => parked
       /\ holder.pc \in {"completion", "sinks", "cancel"} =>
            /\ effects'[op].status \notin {"intent", "dispatched"}
            /\ effects'[op].status = "parked" => parked

LEMMA SweepOneIs ==
  ASSUME TypeOK, NEW op \in Operations, SweepOne(op)
  PROVE  \E parked \in BOOLEAN : Swept(op, parked)
<1> DEFINE status == holder.listed[op].status
<1>0. /\ holder.pc \in Reconciling => holder.pc \notin {"completion", "sinks", "cancel"}
      /\ "parked" \notin Settled /\ "dispatched" \notin Settled /\ "intent" \notin Settled
  BY DEF Reconciling, Settled
<1>1. ASSUME NEW to \in {"parked", "intent"} \union Settled, MovedTo(op, to),
             to = "intent" => performed[op] = 0 /\ ~InFlight(op),
             to = "intent" => holder.pc \in Reconciling
      PROVE  Swept(op, to = "parked")
  <2>1. Handled(op, to = "parked") /\ effects'[op].status = to
    BY <1>1, MovedIs
  <2> QED BY <1>0, <1>1, <2>1 DEF Swept
<1>2. ASSUME Passed(op), holder.pc \in Reconciling,
             status # "parked", status = "dispatched" => op \in Idempotent
      PROVE  Swept(op, FALSE)
  BY <1>0, <1>2 DEF Swept, Passed
<1>3. ASSUME Passed(op), holder.pc \in {"completion", "sinks", "cancel"}, status \in Settled
      PROVE  Swept(op, FALSE)
  BY <1>0, <1>3 DEF Swept, Passed
<1>4. ASSUME StaysParked(op), status = "parked"
      PROVE  Swept(op, TRUE)
  BY <1>4 DEF Swept, StaysParked
<1>5. CASE holder.pc \in Reconciling /\ Reconcile(op)
  <2>1. CASE status \in {"intent"} \union Settled /\ Passed(op)
    BY <1>0, <1>2, <1>5, <2>1
  <2>2. CASE status = "dispatched" /\ op \in Idempotent /\ Passed(op)
    BY <1>2, <1>5, <2>2
  <2>3. CASE MovedTo(op, "parked")
    BY <1>1, <2>3
  <2>4. CASE status = "parked" /\ StaysParked(op)
    BY <1>4, <2>4
  <2>5. CASE \E to \in Resolutions(op) : MovedTo(op, to)
    BY <1>1, <1>5, <2>5, ResolutionIs
  <2> QED BY <1>5, <2>1, <2>2, <2>3, <2>4, <2>5 DEF Reconcile
<1>6. CASE holder.pc \in {"completion", "sinks", "cancel"} /\ ParkUnsettled(op)
  BY <1>1, <1>3, <1>4, <1>6 DEF ParkUnsettled
<1>7. CASE holder.pc = "unknown" /\ ParkDispatched(op)
  <2>1. CASE Passed(op)
    BY <1>7, <2>1 DEF Swept, Passed, Reconciling
  <2> QED BY <1>1, <1>7, <2>1 DEF ParkDispatched
<1> QED BY <1>5, <1>6, <1>7 DEF SweepOne

LEMMA KeepSweepOne ==
  ASSUME IInv, NEW op \in Operations, SweepOne(op), UNCHANGED target PROVE IInv'
<1> USE DEF IInv
<1>1. PICK parked \in BOOLEAN : Swept(op, parked)
  BY SweepOneIs
<1>2. /\ UNCHANGED <<target, delivery, callers, performed, completed>>
      /\ op \in holder.todo
      /\ holder.pc \in Sweeps
      /\ delivery.status = "active"
  BY DEF SweepOne, Sweeps, Reconciling, Vacancy
<1>3. /\ holder' \in Holder /\ holder'.pc = holder.pc
      /\ holder'.todo = holder.todo \ {op}
      /\ holder.parking \/ parked => holder'.parking
      /\ holder'.listed = holder.listed
      /\ holder'.invoked = holder.invoked /\ holder'.resumed = holder.resumed
  BY <1>1, HandledIs DEF Swept
<1> DEFINE Rewritten ==
      /\ effects' \in [Operations -> Effect]
      /\ \A other \in Operations : other # op => effects'[other] = effects[other]
      /\ \/ effects'[op] = effects[op]
         \/ /\ effects'[op].status \in {"parked", "intent"} \union Settled
            /\ effects'[op].status = "intent" => performed[op] = 0 /\ ~InFlight(op)
            /\ effects'[op].digest = effects[op].digest
            /\ effects[op].version \in Nat
            /\ effects'[op].version \in {effects[op].version, effects[op].version + 1}
<1>4. Rewritten
  <2>1. CASE UNCHANGED effects
    BY <2>1 DEF TypeOK
  <2>2. ASSUME NEW to \in {"parked", "intent"} \union Settled, MovedTo(op, to),
               to = "intent" => performed[op] = 0 /\ ~InFlight(op)
        PROVE  Rewritten
    BY <2>2, MovedIs
  <2> QED BY <1>1, <2>1, <2>2 DEF Swept
<1>5. TypeOK'
  BY <1>2, <1>3, <1>4 DEF TypeOK
<1>6. \A c \in Callers : Busy(c) => callers[c].op \in Operations /\ callers[c].version \in Nat
  BY DEF TypeOK, Caller, Idle, Busy
<1>7. Trailing'
  BY <1>2, <1>4, <1>6 DEF Trailing, Busy, Settled
<1>8. SameRequest'
  BY <1>2, <1>4, <1>6 DEF SameRequest, Busy
<1>9. SentRecorded'
  BY <1>2, <1>4 DEF SentRecorded, InFlight, Settled
<1>10. OneSender'
  BY <1>2 DEF OneSender
<1>11. \A other \in Operations : UnknownDispatch(other)' =>
          UnknownDispatch(other) /\ effects'[other] = effects[other]
  BY <1>4 DEF UnknownDispatch, Settled
<1>12. Overtaken'
  BY <1>2, <1>6, <1>11 DEF Overtaken, Current, Busy
<1>13. LedgerPart'
  BY <1>7, <1>8, <1>9, <1>10, <1>12 DEF LedgerPart
<1>14. NoneCurrent' /\ ListedFresh'
  BY <1>2, <1>3, <1>4 DEF NoneCurrent, ListedFresh, Awaited, Current, Busy, TypeOK, Holder
<1>15. holder.pc \in Opening \/ Awaited({"sinkRetry", "completion", "sinks"})
          => holder.listed[op] = effects[op]
  BY <1>2 DEF ListedFresh
<1>16. UnknownPending'
  BY <1>1, <1>2, <1>3, <1>11, <1>15 DEF UnknownPending, Awaited, UnknownDispatch, Swept, Reconciling, Opening
<1>17. ParkedPending'
  BY <1>1, <1>3, <1>4, <1>15 DEF ParkedPending, Pending, Swept, Reconciling, Opening
<1>18. UnsettledPending'
  BY <1>1, <1>2, <1>3, <1>4, <1>15 DEF UnsettledPending, Awaited, Pending, Swept, Nonterminal
<1>19. SavesSettled' /\ OwnDeclared' /\ RunsReconciled'
  BY <1>2, <1>3 DEF SavesSettled, OwnDeclared, RunsReconciled, Awaited, Sweeps, Reconciling
<1>20. CompletionSettled' /\ Vacancy' /\ Provenance' /\ CompletesOnce'
  BY <1>2, <1>3 DEF CompletionSettled, Vacancy, Provenance, CompletesOnce, Completing, Sweeps, Reconciling
<1> QED BY <1>5, <1>13, <1>14, <1>16, <1>17, <1>18, <1>19, <1>20, PartsNext DEF SweepPart, RecordPart
-----------------------------------------------------------------------------
(* Callers                                                                 *)

(* Where nobody runs under the current claim no caller can write, so the   *)
(* sweeps have nothing to fear from one who does.                          *)
Undisturbed ==
  /\ holder.pc \notin {"claimed", "ready"} \union Opening
  /\ ~Awaited({"sinkRetry", "completion", "sinks", "saving"})

LEMMA SweepsAside ==
  ASSUME Undisturbed, holder'.pc = holder.pc, UNCHANGED target
  PROVE  /\ NoneCurrent' /\ ListedFresh' /\ UnknownPending' /\ ParkedPending'
         /\ UnsettledPending' /\ SavesSettled'
BY DEF Undisturbed, NoneCurrent, ListedFresh, UnknownPending, ParkedPending,
       UnsettledPending, SavesSettled, Awaited, Opening

LEMMA CallerIs ==
  ASSUME TypeOK, NEW c \in Callers, Busy(c)
  PROVE  /\ callers[c].op \in Operations /\ callers[c].digest \in Descriptors
         /\ callers[c].token \in Nat /\ callers[c].version \in Nat
BY DEF TypeOK, Caller, Idle, Busy

LEMMA EffectIs ==
  ASSUME TypeOK, NEW op \in Operations
  PROVE  effects[op] \in Effect /\ effects[op].version \in Nat
BY DEF TypeOK, Effect, NoEffect

LEMMA KeepDeclares ==
  ASSUME IInv, NEW c \in Callers, NEW op \in target.operations, NEW digest \in target.digests,
         CallerDeclares(c, op, digest), UNCHANGED target
  PROVE  IInv'
<1> USE DEF IInv
<1> DEFINE entry == [pc |-> "declared", op |-> op, digest |-> digest,
                     token |-> delivery.token, version |-> effects'[op].version]
<1>1. op \in Operations /\ digest \in Descriptors
  BY EffectsAssumption DEF TypeOK, EffectsAssumption, Target
<1>2. /\ holder.pc \in UserCode \/ (target.floating /\ holder.pc \in Trailed)
      /\ callers[c].pc = "idle" /\ op \notin holder.declared
      /\ delivery.status = "active" /\ Declare(op, digest)
      /\ callers' = [callers EXCEPT ![c] = IF effects'[op].status \in {"intent", "dispatched"}
                                           THEN entry ELSE callers[c]]
      /\ UNCHANGED <<target, delivery, performed, completed>>
  BY DEF CallerDeclares, Fenced
<1>3. /\ effects' \in [Operations -> Effect]
      /\ effects'[op].status # "none" /\ effects'[op].digest = digest
      /\ effects'[op].version \in Nat
      /\ \A other \in Operations : other # op => effects'[other] = effects[other]
      /\ \/ effects[op].status # "none" /\ UNCHANGED effects
         \/ effects[op].status = "none" /\ effects'[op].status = "intent"
  BY <1>1, <1>2, DeclareIs
<1>4. /\ holder' \in Holder /\ holder'.pc = holder.pc
      /\ holder'.declared = holder.declared \union {op}
      /\ holder'.todo = holder.todo
      /\ holder'.invoked = holder.invoked /\ holder'.resumed = holder.resumed
  BY <1>1 DEF CallerDeclares, TypeOK, Holder
<1>5. delivery.token \in Nat /\ callers \in [Callers -> Caller]
  BY DEF TypeOK, Delivery
<1>6. entry \in Caller
  BY <1>1, <1>3, <1>5 DEF Caller
<1>7. \/ callers' = callers
      \/ callers'[c] = entry /\ callers' \in [Callers -> Caller]
         /\ \A d \in Callers : d # c => callers'[d] = callers[d]
  BY <1>2, <1>5, <1>6
<1>8. TypeOK'
  BY <1>2, <1>3, <1>4, <1>5, <1>7 DEF TypeOK
<1>9. \A d \in Callers : Busy(d) =>
        /\ callers[d].op \in Operations
        /\ effects[callers[d].op].status # "none"
        /\ effects'[callers[d].op] = effects[callers[d].op]
  BY <1>1, <1>3, CallerIs DEF Trailing
<1>10. \A d \in Callers : Busy(d)' =>
         \/ Busy(d) /\ callers'[d] = callers[d]
         \/ callers'[d] = entry
  BY <1>7 DEF Busy
<1> HIDE DEF IInv
<1>11. Trailing'
  BY <1>1, <1>2, <1>3, <1>5, <1>9, <1>10 DEF IInv, Trailing
<1>12. SameRequest'
  BY <1>1, <1>2, <1>3, <1>9, <1>10 DEF IInv, SameRequest, Busy
<1>13. \A other \in Operations : InFlight(other)' => InFlight(other)
  BY <1>7 DEF InFlight
<1>14. SentRecorded'
  BY <1>2, <1>3, <1>13 DEF IInv, SentRecorded
<1>15. OneSender'
  BY <1>2, <1>7 DEF IInv, OneSender
<1>16. \A other \in Operations : UnknownDispatch(other)' =>
         UnknownDispatch(other) /\ effects'[other] = effects[other]
  BY <1>3 DEF UnknownDispatch
<1>17. ~target.floating => ~UnknownDispatch(op)
  BY <1>1, <1>2 DEF IInv, OwnDeclared, Awaited, UserCode
<1>18. Overtaken'
  BY <1>1, <1>2, <1>9, <1>10, <1>16, <1>17 DEF IInv, Overtaken, Current
<1>19. Undisturbed
  BY <1>2 DEF Undisturbed, UserCode, Awaited, Opening, Trailed, Sweeps, Reconciling
<1>20. OwnDeclared'
  BY <1>2, <1>4, <1>10, <1>16 DEF IInv, OwnDeclared, Current, Awaited
<1>21. RunsReconciled'
  BY <1>3, <1>4 DEF IInv, RunsReconciled
<1>22. CompletionSettled' /\ Vacancy' /\ Provenance' /\ CompletesOnce'
  BY <1>2, <1>4 DEF IInv, CompletionSettled, Vacancy, Provenance, CompletesOnce, Completing
<1> QED BY <1>2, <1>4, <1>8, <1>11, <1>12, <1>14, <1>15, <1>18, <1>19, <1>20, <1>21, <1>22,
           SweepsAside, PartsNext DEF LedgerPart, SweepPart, RecordPart

LEMMA KeepDispatches ==
  ASSUME IInv, NEW c \in Callers, CallerDispatches(c), UNCHANGED target PROVE IInv'
<1> DEFINE op == callers[c].op
           version == callers[c].version
<1>1. /\ callers[c].pc = "declared" /\ Busy(c)
      /\ op \in Operations /\ version \in Nat /\ TypeOK
      /\ UNCHANGED <<target, delivery, holder, performed, completed>>
  BY CallerIs DEF IInv, CallerDispatches, Busy
<1>2. /\ Fenced(callers[c].token)
      /\ effects' \in [Operations -> Effect]
      /\ effects'[op].status = "dispatched"
      /\ effects'[op].digest = effects[op].digest
      /\ effects[op].version = version /\ effects'[op].version = version + 1
      /\ effects[op].status \in {"intent", "dispatched"}
      /\ \A other \in Operations : other # op => effects'[other] = effects[other]
  <2>1. TransitionEffect(op, callers[c].token, version, "dispatched")
    BY DEF CallerDispatches
  <2>2. "dispatched" \in Nonterminal \union Settled /\ "dispatched" \notin {"parked"} \union Settled
    BY DEF Nonterminal, Settled
  <2>3. Legal(effects[op].status, "dispatched") => effects[op].status \in {"intent", "dispatched"}
    BY DEF Legal
  <2> HIDE DEF op, version
  <2> QED BY <1>1, <2>1, <2>2, <2>3, TransitionIs
<1>3. Current(c) /\ delivery.status = "active"
  BY <1>1, <1>2 DEF Fenced, Current
<1>4. /\ callers \in [Callers -> Caller]
      /\ callers' \in [Callers -> Caller]
      /\ callers'[c].pc = "dispatched" /\ callers'[c].op = op
      /\ callers'[c].digest = callers[c].digest /\ callers'[c].token = callers[c].token
      /\ callers'[c].version = version + 1
      /\ \A d \in Callers : d # c => callers'[d] = callers[d]
  <2>1. callers[c] \in Caller \ {Idle}
    BY <1>1 DEF TypeOK, Busy, Idle
  <2>2. callers' = [callers EXCEPT ![c] = [callers[c] EXCEPT !.pc = "dispatched", !.version = version + 1]]
    BY <1>1 DEF CallerDispatches, TypeOK
  <2>3. PICK old \in Caller \ {Idle}, next \in Nat : old = callers[c] /\ next = version + 1
    BY <1>1, <2>1
  <2>4. LET new == [old EXCEPT !.pc = "dispatched", !.version = next]
        IN /\ new \in Caller /\ new.pc = "dispatched" /\ new.op = old.op
           /\ new.digest = old.digest /\ new.token = old.token /\ new.version = next
    BY DEF Caller
  <2> QED BY <1>1, <2>2, <2>3, <2>4 DEF TypeOK
<1>5. TypeOK'
  BY <1>1, <1>2, <1>4 DEF TypeOK
<1>6. \A d \in Callers : Busy(d) => callers[d].op \in Operations /\ callers[d].version \in Nat
  BY <1>1, CallerIs
<1>7. \A d \in Callers : d # c /\ Busy(d)' => Busy(d) /\ callers'[d] = callers[d]
  BY <1>4 DEF Busy
<1> HIDE DEF op, version
<1>8. Trailing'
  BY <1>1, <1>2, <1>4, <1>6, <1>7, CallerIs DEF IInv, Trailing, op
<1>9. SameRequest'
  BY <1>1, <1>2, <1>4, <1>6, <1>7 DEF IInv, SameRequest, Busy, op
<1>10. SentRecorded'
  BY <1>1, <1>2, <1>4 DEF IInv, SentRecorded, InFlight
<1>11. ~target.floating /\ op \notin Idempotent => performed[op] = 0 /\ ~InFlight(op)
  <2>1. ~target.floating => ~UnknownDispatch(op)
    BY <1>1, <1>2, <1>3 DEF IInv, Overtaken, op, version
  <2> QED BY <1>1, <1>2, <2>1 DEF IInv, SentRecorded, UnknownDispatch, TypeOK
<1>12. OneSender'
  BY <1>1, <1>4, <1>11 DEF IInv, OneSender, InFlight
<1>13. Overtaken'
  BY <1>1, <1>2, <1>4, <1>6, <1>7 DEF IInv, Overtaken, Trailing, Current, UnknownDispatch
<1>14. Undisturbed
  BY <1>3 DEF IInv, NoneCurrent, Undisturbed
<1>15. OwnDeclared'
  BY <1>1, <1>2, <1>3, <1>4, <1>7 DEF IInv, OwnDeclared, Current, UnknownDispatch, Awaited, Busy, op
<1>16. RunsReconciled'
  BY <1>1, <1>2, <1>3, <1>14 DEF IInv, RunsReconciled, OwnDeclared, Undisturbed, op
<1>17. CompletionSettled' /\ Vacancy' /\ Provenance' /\ CompletesOnce'
  BY <1>1, <1>3 DEF IInv, CompletionSettled, Vacancy, Provenance, CompletesOnce, Completing
<1> QED BY <1>1, <1>5, <1>8, <1>9, <1>10, <1>12, <1>13, <1>14, <1>15, <1>16, <1>17,
           SweepsAside, PartsNext DEF LedgerPart, SweepPart, RecordPart

LEMMA KeepPerforms ==
  ASSUME IInv, NEW c \in Callers, CallerPerforms(c), UNCHANGED target PROVE IInv'
<1> DEFINE op == callers[c].op
<1>1. /\ callers[c].pc = "dispatched" /\ Busy(c) /\ op \in Operations /\ TypeOK
      /\ UNCHANGED <<target, effects, delivery, holder, completed>>
  BY CallerIs DEF IInv, CallerPerforms, Busy
<1>2. /\ performed' \in [Operations -> 0 .. 2]
      /\ performed[op] = 0 => performed'[op] = 1
      /\ performed'[op] > 0
      /\ \A other \in Operations : other # op => performed'[other] = performed[other]
  <2>1. performed[op] \in 0 .. 2 /\ performed \in [Operations -> 0 .. 2]
    BY <1>1 DEF TypeOK
  <2>2. PICK n \in 0 .. 2 : n = (IF performed[op] < 2 THEN performed[op] + 1 ELSE performed[op])
    BY <2>1
  <2>3. performed' = [performed EXCEPT ![op] = n]
    BY <1>1, <2>1, <2>2 DEF CallerPerforms
  <2>4. n > 0 /\ (performed[op] = 0 => n = 1)
    BY <2>1, <2>2
  <2> QED BY <1>1, <2>1, <2>3, <2>4
<1>3. /\ callers' \in [Callers -> Caller]
      /\ callers'[c].pc = "performed" /\ callers'[c].op = op
      /\ callers'[c].digest = callers[c].digest /\ callers'[c].token = callers[c].token
      /\ callers'[c].version = callers[c].version
      /\ \A d \in Callers : d # c => callers'[d] = callers[d]
  <2>1. PICK old \in Caller \ {Idle} : old = callers[c]
    BY <1>1 DEF TypeOK, Busy, Idle
  <2>2. callers' = [callers EXCEPT ![c] = [old EXCEPT !.pc = "performed"]]
    BY <1>1, <2>1 DEF CallerPerforms, TypeOK
  <2>3. LET new == [old EXCEPT !.pc = "performed"]
        IN /\ new \in Caller /\ new.pc = "performed" /\ new.op = old.op
           /\ new.digest = old.digest /\ new.token = old.token /\ new.version = old.version
    BY DEF Caller
  <2> QED BY <1>1, <2>1, <2>2, <2>3 DEF TypeOK
<1>4. TypeOK'
  BY <1>1, <1>2, <1>3 DEF TypeOK
<1>5. \A d \in Callers : Busy(d)' =>
        /\ Busy(d) /\ callers'[d].op = callers[d].op /\ callers'[d].token = callers[d].token
        /\ callers'[d].version = callers[d].version /\ callers'[d].digest = callers[d].digest
  BY <1>1, <1>3 DEF Busy
<1>6. \A d \in Callers : Current(d)' => Current(d)
  BY <1>1, <1>5 DEF Current
<1>7. \A d \in Callers, pc \in {"declared", "dispatched"} :
        callers'[d].pc = pc => callers[d].pc = pc /\ d # c
  BY <1>3
<1> HIDE DEF op
<1>8. Trailing' /\ SameRequest'
  BY <1>1, <1>5 DEF IInv, Trailing, SameRequest, Busy
<1>9. SentRecorded'
  BY <1>1, <1>2, <1>3, <1>7 DEF IInv, SentRecorded, InFlight, op
<1>10. ~target.floating /\ op \notin Idempotent =>
         /\ performed[op] = 0
         /\ \A d \in Callers : callers[d].pc = "dispatched" /\ callers[d].op = op => d = c
  BY <1>1 DEF IInv, OneSender, op
<1>11. OneSender'
  BY <1>1, <1>2, <1>3, <1>7, <1>10 DEF IInv, OneSender
<1>12. Overtaken'
  <2>1. \A d \in Callers : Current(d)' /\ callers'[d].pc = "declared" =>
          /\ Current(d) /\ callers[d].pc = "declared" /\ callers'[d] = callers[d]
    BY <1>3, <1>6, <1>7
  <2> QED BY <1>1, <2>1 DEF IInv, Overtaken, UnknownDispatch
<1>13. SweepPart'
  BY <1>1, <1>5, <1>6 DEF IInv, SweepPart, NoneCurrent, ListedFresh, UnknownPending, ParkedPending,
     UnsettledPending, SavesSettled, AllSettled, OwnDeclared, RunsReconciled, Awaited,
     UnknownDispatch, Pending, Current
<1>14. RecordPart'
  BY <1>1 DEF IInv, RecordPart, CompletionSettled, Vacancy, Provenance, CompletesOnce, Completing
<1> QED BY <1>4, <1>8, <1>9, <1>11, <1>12, <1>13, <1>14, PartsNext DEF LedgerPart

(* A caller that goes away.                                                *)
LEMMA GoneIs ==
  ASSUME TypeOK, NEW c \in Callers, callers' = [callers EXCEPT ![c] = Idle]
  PROVE  /\ callers' \in [Callers -> Caller]
         /\ \A d \in Callers : Busy(d)' => Busy(d) /\ callers'[d] = callers[d]
         /\ \A d \in Callers, pc \in {"declared", "dispatched", "performed"} :
              callers'[d].pc = pc => Busy(d)' /\ callers[d].pc = pc
<1>1. callers \in [Callers -> Caller] /\ Idle \in Caller /\ Idle.pc = "idle"
  BY DEF TypeOK, Caller, Idle
<1>2. callers'[c] = Idle /\ \A d \in Callers : d # c => callers'[d] = callers[d]
  BY <1>1
<1> QED BY <1>1, <1>2 DEF Busy

LEMMA KeepStops == ASSUME IInv, NEW c \in Callers, CallerStops(c), UNCHANGED target PROVE IInv'
<1>1. TypeOK /\ callers' = [callers EXCEPT ![c] = Idle]
      /\ UNCHANGED <<target, effects, delivery, holder, performed, completed>>
  BY DEF IInv, CallerStops
<1>2. /\ callers' \in [Callers -> Caller]
      /\ \A d \in Callers : Busy(d)' => Busy(d) /\ callers'[d] = callers[d]
      /\ \A d \in Callers, pc \in {"declared", "dispatched", "performed"} :
           callers'[d].pc = pc => Busy(d)' /\ callers[d].pc = pc
  BY <1>1, GoneIs
<1>3. TypeOK'
  BY <1>1, <1>2 DEF TypeOK
<1>4. Trailing' /\ SameRequest'
  BY <1>1, <1>2 DEF IInv, Trailing, SameRequest, Busy
<1>5. SentRecorded' /\ OneSender'
  BY <1>1, <1>2 DEF IInv, SentRecorded, InFlight, OneSender
<1>6. Overtaken'
  BY <1>1, <1>2 DEF IInv, Overtaken, Current, UnknownDispatch
<1>7. SweepPart'
  BY <1>1, <1>2 DEF IInv, SweepPart, NoneCurrent, ListedFresh, UnknownPending, ParkedPending,
     UnsettledPending, SavesSettled, AllSettled, OwnDeclared, RunsReconciled, Awaited,
     UnknownDispatch, Pending, Current
<1>8. RecordPart'
  BY <1>1 DEF IInv, RecordPart, CompletionSettled, Vacancy, Provenance, CompletesOnce, Completing
<1> QED BY <1>3, <1>4, <1>5, <1>6, <1>7, <1>8, PartsNext DEF LedgerPart

LEMMA KeepSettles ==
  ASSUME IInv, NEW c \in Callers, NEW outcome \in target.settlements,
         CallerSettles(c, outcome), UNCHANGED target
  PROVE  IInv'
<1> DEFINE op == callers[c].op
<1>1. /\ callers[c].pc = "performed" /\ Busy(c) /\ op \in Operations /\ TypeOK
      /\ callers' = [callers EXCEPT ![c] = Idle]
      /\ UNCHANGED <<target, delivery, holder, performed, completed>>
  BY CallerIs DEF IInv, CallerSettles, Busy
<1>2. outcome \in Settled
  BY <1>1, EffectsAssumption DEF TypeOK, EffectsAssumption, Target, Settled
<1>3. /\ Fenced(callers[c].token)
      /\ effects' \in [Operations -> Effect]
      /\ effects'[op].status \in Settled
      /\ effects'[op].digest = effects[op].digest
      /\ effects[op].version \in Nat
      /\ effects'[op].version \in {effects[op].version, effects[op].version + 1}
      /\ \A other \in Operations : other # op => effects'[other] = effects[other]
  <2>1. TransitionEffect(op, callers[c].token, callers[c].version, outcome)
    BY DEF CallerSettles
  <2>2. outcome \in Nonterminal \union Settled
    BY <1>2
  <2>3. effects[op].version \in Nat
    BY <1>1, EffectIs
  <2> HIDE DEF op
  <2> QED BY <1>1, <1>2, <2>1, <2>2, <2>3, TransitionIs
<1>4. Current(c) /\ delivery.status = "active"
  BY <1>1, <1>3 DEF Fenced, Current
<1>5. /\ callers' \in [Callers -> Caller]
      /\ \A d \in Callers : Busy(d)' => Busy(d) /\ callers'[d] = callers[d]
      /\ \A d \in Callers, pc \in {"declared", "dispatched", "performed"} :
           callers'[d].pc = pc => Busy(d)' /\ callers[d].pc = pc
  BY <1>1, GoneIs
<1>6. \A d \in Callers : Busy(d) => callers[d].op \in Operations /\ callers[d].version \in Nat
  BY <1>1, CallerIs
<1> HIDE DEF op
<1>7. TypeOK'
  BY <1>1, <1>3, <1>5 DEF TypeOK
<1>8. Trailing'
  BY <1>1, <1>3, <1>5, <1>6 DEF IInv, Trailing, Settled
<1>9. SameRequest'
  BY <1>1, <1>3, <1>5, <1>6 DEF IInv, SameRequest, Busy
<1>10. SentRecorded' /\ OneSender'
  BY <1>1, <1>3, <1>5 DEF IInv, SentRecorded, InFlight, OneSender, Settled
<1>11. \A other \in Operations :
         effects'[other].status \in Nonterminal => effects'[other] = effects[other]
  BY <1>3 DEF Nonterminal, Settled
<1>12. Overtaken'
  BY <1>1, <1>5, <1>6, <1>11 DEF IInv, Overtaken, Current, UnknownDispatch, Nonterminal
<1>13. Undisturbed
  BY <1>4 DEF IInv, NoneCurrent, Undisturbed
<1>14. OwnDeclared' /\ RunsReconciled'
  BY <1>1, <1>5, <1>11 DEF IInv, OwnDeclared, RunsReconciled, Current, UnknownDispatch, Awaited, Nonterminal
<1>15. RecordPart'
  BY <1>1, <1>4 DEF IInv, RecordPart, CompletionSettled, Vacancy, Provenance, CompletesOnce, Completing
<1> QED BY <1>1, <1>7, <1>8, <1>9, <1>10, <1>12, <1>13, <1>14, <1>15,
           SweepsAside, PartsNext DEF LedgerPart, SweepPart
-----------------------------------------------------------------------------
LEMMA InitIInv == Init => IInv
<1> SUFFICES ASSUME Init PROVE IInv
  OBVIOUS
<1>1. holder \in Holder /\ holder.pc = "idle"
  BY VacantIs DEF Init
<1>2. /\ delivery \in Delivery /\ delivery.token = 0 /\ delivery.status = "queued"
      /\ completed = FALSE /\ target \in Targets
      /\ performed = [op \in Operations |-> 0]
  BY DEF Init, Delivery, RunStatus
<1>3. target.tokens \in Nat
  BY <1>2, EffectsAssumption DEF EffectsAssumption, Target
<1>4. callers \in [Callers -> Caller] /\ \A c \in Callers : callers[c].pc = "idle"
  BY DEF Init, Caller, Idle
<1>5. effects \in [Operations -> Effect]
  BY DEF Init, NothingListed, Effect
<1>6. TypeOK
  <2>1. performed \in [Operations -> 0 .. 2] /\ delivery.token <= target.tokens
    BY <1>2, <1>3
  <2> QED BY <1>1, <1>2, <1>4, <1>5, <2>1 DEF TypeOK
<1>7. LedgerPart
  BY <1>2, <1>4 DEF LedgerPart, Trailing, SameRequest, SentRecorded, OneSender, Overtaken,
                    Busy, Current, InFlight
<1>8. SweepPart
  BY <1>1 DEF SweepPart, NoneCurrent, ListedFresh, UnknownPending, ParkedPending,
              UnsettledPending, SavesSettled, OwnDeclared, RunsReconciled, Awaited, Opening
<1>9. RecordPart
  BY <1>1, <1>2 DEF RecordPart, CompletionSettled, Vacancy, Provenance, CompletesOnce, Completing
<1> QED BY <1>6, <1>7, <1>8, <1>9, Parts

LEMMA IInvStep == IInv /\ [Next]_vars => IInv'
<1> SUFFICES ASSUME IInv, [Next]_vars PROVE IInv'
  OBVIOUS
<1>1. ASSUME NEW c \in Callers, CallerStep(c), UNCHANGED target PROVE IInv'
  BY <1>1, KeepDeclares, KeepDispatches, KeepPerforms, KeepSettles, KeepStops DEF CallerStep
<1>2. ASSUME HolderStep, UNCHANGED target PROVE IInv'
  BY <1>2, KeepClaim, KeepStartProcessing, KeepSweepOne, KeepSweepStale, KeepSweepEnds, KeepInvoke,
     KeepTargetReturns, KeepSinksEnd, KeepSinkFails, KeepTargetFails, KeepCancel, KeepSucceed,
     KeepSucceedRefused DEF HolderStep
<1>3. CASE UNCHANGED vars
  BY <1>3, KeepHeld DEF vars, IInv, TypeOK
<1> QED BY <1>1, <1>2, <1>3, KeepLeaseExpires, KeepRedriveDelivery, KeepRedriveSink DEF Next

(* The inductive invariant holds of every delivery.                        *)
THEOREM LedgerInvariant == Spec => []IInv
<1> QED BY InitIInv, IInvStep, PTL DEF Spec

(* However claims are lost and deliveries retried or redriven, operations  *)
(* of unknown safety go out at most once when programs await their calls.  *)
THEOREM SentOnce == Spec => []NoBlindReplay
<1>1. IInv => NoBlindReplay
  BY DEF IInv, OneSender, NoBlindReplay
<1> QED BY <1>1, LedgerInvariant, PTL

(* The ledger shows what went out, under the request recorded first.       *)
THEOREM LedgerTells == Spec => []LedgerTrue
<1>1. IInv => LedgerTrue
  BY DEF IInv, SentRecorded, LedgerTrue, PerformedNotForgotten
<1> QED BY <1>1, LedgerInvariant, PTL

(* A delivery that succeeded leaves a settled ledger behind for good.      *)
THEOREM SuccessSettled == Spec => []CompletionSettled
<1>1. IInv => CompletionSettled
  BY DEF IInv
<1> QED BY <1>1, LedgerInvariant, PTL

(* Programs run over a reconciled ledger only.                             *)
THEOREM ReconciledBeforeRun == Spec => []RunsReconciled
<1>1. IInv => RunsReconciled
  BY DEF IInv
<1> QED BY <1>1, LedgerInvariant, PTL

(* A completed target runs again only where the property says it may.      *)
THEOREM CompletedOnce == Spec => []CompletedNotReinvoked
<1>1. IInv => CompletedNotReinvoked
  BY DEF IInv, CompletesOnce, Completing, Vacancy, CompletedNotReinvoked, NeverRerun
<1> QED BY <1>1, LedgerInvariant, PTL
=============================================================================
