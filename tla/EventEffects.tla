----------------------------- MODULE EventEffects -----------------------------
(***************************************************************************)
(* The effect ledger of one delivery: declareEffect and transitionEffect of *)
(* AxInMemoryEventStore, the transitions of axApplyEventEffectTransition,   *)
(* and the part of AxEventRuntime.processDelivery that reconciles and parks *)
(* effects around the invocation of a target.                               *)
(*                                                                         *)
(* The program of a target calls the ledger from asynchronous callers, each *)
(* one pass through declare, mark dispatched, perform, settle (the sandwich *)
(* of docs/EVENT_RUNTIME.md).  A caller outlives the claim it runs under:   *)
(* the store can refuse its writes, but not the external operation.         *)
(*                                                                         *)
(* A worker that lost its claim is dropped: the store refuses every write   *)
(* it still tries, and it starts nothing new.  Only its callers stay.       *)
(*                                                                         *)
(* Operators named for a mistake (UnfencedToken, DeclareAfresh, ...) are    *)
(* not part of the specification: each stands beside the definition that it *)
(* would replace in faulty code, to test the properties.                    *)
(***************************************************************************)
EXTENDS Naturals, FiniteSets

CONSTANTS
    Operations,      \* effect identities (operation, idempotencyKey) of the delivery
    Idempotent,      \* those declared with replaySafety 'idempotent'
    Descriptors,     \* request digests a caller may declare an effect with
    Callers,         \* concurrent passes through the sandwich
    Targets,         \* kinds of target, and of deployment, under consideration
    MaxSinkTries     \* bound on the failed writes to the sinks of an invocation

\* retrySafety of the target; the operations it calls, with which digests, and
\* the outcomes their providers report; whether an effectResolver is configured;
\* whether programs return before their callers do; whether a process may die
\* between saveRun and saveDelivery; whether operators redrive dead letters of
\* sinks; a bound on the fencing tokens handed out.
Target == [retrySafety : {"idempotent", "effect-aware", "unknown"},
           operations  : SUBSET Operations,
           digests     : SUBSET Descriptors,
           settlements : SUBSET {"succeeded", "failed"},
           resolver    : BOOLEAN,
           floating    : BOOLEAN,
           crashes     : BOOLEAN,
           sinkRedrive : BOOLEAN,
           tokens      : Nat]

ASSUME EffectsAssumption ==
    /\ Idempotent \subseteq Operations
    /\ Targets \subseteq Target
    /\ MaxSinkTries \in Nat

VARIABLES
    target,          \* the target the delivery is for
    effects,         \* the ledger: one record per operation
    delivery,        \* the stored delivery and the status of its stored run
    holder,          \* the worker that holds the latest claim
    callers,         \* the callers, of this invocation and of earlier ones
    performed,       \* history: how often an operation went out, up to two
    completed        \* history: output was persisted since the last full redrive

vars == <<target, effects, delivery, holder, callers, performed, completed>>

-----------------------------------------------------------------------------
(* State *)

Settled == {"succeeded", "failed"}
Nonterminal == {"intent", "dispatched", "parked"}
NoEffect == [status |-> "none", version |-> 0, digest |-> 0]
Effect == {NoEffect} \union [status  : Nonterminal \union Settled,
                             version : Nat \ {0},
                             digest  : Descriptors]

Ended == {"succeeded", "parked", "outcome_unknown", "dead_lettered", "cancelled"}
RunStatus == {"none", "running", "finalizing", "failed"} \union Ended

\* leased: the lease of the claim has not expired.  deadLetters: which dead
\* letters of the delivery the operator can still redrive.
Delivery == [status      : {"queued", "active"} \union Ended,
             token       : Nat,
             leased      : BOOLEAN,
             started     : BOOLEAN,
             recovered   : BOOLEAN,
             run         : RunStatus,
             deadLetters : SUBSET {"delivery", "sink"}]

\* The passes over the ledger that processDelivery makes.
Reconciling == {"reconcile", "resume", "retry", "sinkRetry"}
Sweeps == Reconciling \union {"completion", "sinks", "cancel", "unknown"}
UserCode == {"running", "finalizing"}

\* started: invocationStarted in the worker's copy of the claim.  todo and
\* listed: what is left of the listEffects() result of the current pass.
\* tries: failed sink writes.  declared: the operations that
\* this invocation, or this try of the sink, called so far.
Holder == [pc       : {"idle", "claimed", "ready", "saving"} \union UserCode \union Sweeps,
           started  : BOOLEAN,
           invoked  : BOOLEAN,
           resumed  : BOOLEAN,
           aborted  : BOOLEAN,
           parking  : BOOLEAN,
           tries    : 0 .. MaxSinkTries,
           todo     : SUBSET Operations,
           listed   : [Operations -> Effect],
           declared : SUBSET Operations]
Idle == [pc |-> "idle"]
Caller == {Idle} \union [pc      : {"declared", "dispatched", "performed"},
                         op      : Operations,
                         digest  : Descriptors,
                         token   : Nat,
                         version : Nat]

NothingListed == [op \in Operations |-> NoEffect]
Vacant(pc, started) ==
    [pc |-> pc, started |-> started, invoked |-> FALSE, resumed |-> FALSE,
     aborted |-> FALSE, parking |-> FALSE, tries |-> 0, todo |-> {}, listed |-> NothingListed,
     declared |-> {}]

\* assertFence, and assertActiveClaim of the current holder.
UnfencedToken(token) == delivery.status = "active" /\ delivery.leased
Fenced(token) == /\ delivery.token = token
                 /\ delivery.status = "active" /\ delivery.leased

-----------------------------------------------------------------------------
(* The ledger *)

\* Which transitions axApplyEventEffectTransition allows.
Legal(from, to) ==
    CASE to = "dispatched" -> from \in {"intent", "dispatched"}
      [] to = "intent" -> from \in {"dispatched", "parked"}
      [] OTHER -> from \in Nonterminal

Advance(op, to) ==
    /\ Legal(effects[op].status, to)
    /\ effects' = [effects EXCEPT ![op].status = to, ![op].version = @ + 1]

\* transitionEffect: fenced, legal, and at the version its caller observed;
\* the same settlement, or the same reason to park, once more is no change.
TransitionEffect(op, token, version, to) ==
    /\ Fenced(token)
    /\ \/ effects[op].version = version /\ Advance(op, to)
       \/ effects[op].status = to /\ to \in {"parked"} \union Settled /\ UNCHANGED effects

-----------------------------------------------------------------------------
(* Callers: user code of the invocation and of its sinks *)

\* declareEffect returns the existing record of the same request, and throws
\* on a record of another one.
Intent(op, digest, version) ==
    effects' = [effects EXCEPT ![op] = [status |-> "intent", version |-> version, digest |-> digest]]
DeclareAfresh(op, digest) == Intent(op, digest, 1)
Declare(op, digest) ==
    IF effects[op].status = "none" THEN Intent(op, digest, 1)
    ELSE effects[op].digest = digest /\ UNCHANGED effects

\* What a program left behind may still declare, until the run is aborted.
Trailed == (Sweeps \union {"saving"}) \ {"reconcile", "resume", "cancel"}

\* The sandwich stops at a record that is settled or parked.
CallerDeclares(c, op, digest) ==
    /\ \/ holder.pc \in UserCode
       \/ target.floating /\ holder.pc \in Trailed
    /\ callers[c].pc = "idle"
    /\ op \notin holder.declared
    /\ Fenced(delivery.token)
    /\ Declare(op, digest)
    /\ callers' = [callers EXCEPT ![c] =
          IF effects'[op].status \in {"intent", "dispatched"}
          THEN [pc |-> "declared", op |-> op, digest |-> digest,
                token |-> delivery.token, version |-> effects'[op].version]
          ELSE @]
    /\ holder' = [holder EXCEPT !.declared = @ \union {op}]
    /\ UNCHANGED <<delivery, performed, completed>>

\* Calls of an aborted run throw in assertActive.
Aborted(token) == token = delivery.token /\ holder.aborted

CallerDispatches(c) ==
    /\ callers[c].pc = "declared" /\ ~Aborted(callers[c].token)
    /\ TransitionEffect(callers[c].op, callers[c].token, callers[c].version, "dispatched")
    /\ callers' = [callers EXCEPT ![c].pc = "dispatched", ![c].version = @ + 1]
    /\ UNCHANGED <<delivery, holder, performed, completed>>

\* The external operation: no store can stop it any more.
CallerPerforms(c) ==
    /\ callers[c].pc = "dispatched"
    /\ performed' = [performed EXCEPT ![callers[c].op] = IF @ < 2 THEN @ + 1 ELSE @]
    /\ callers' = [callers EXCEPT ![c].pc = "performed"]
    /\ UNCHANGED <<effects, delivery, holder, completed>>

CallerSettles(c, outcome) ==
    /\ callers[c].pc = "performed" /\ ~Aborted(callers[c].token)
    /\ TransitionEffect(callers[c].op, callers[c].token, callers[c].version, outcome)
    /\ callers' = [callers EXCEPT ![c] = Idle]
    /\ UNCHANGED <<delivery, holder, performed, completed>>

\* The caller throws, is refused by the store, or dies with its process.
CallerStops(c) ==
    /\ callers[c].pc # "idle"
    /\ callers' = [callers EXCEPT ![c] = Idle]
    /\ UNCHANGED <<effects, delivery, holder, performed, completed>>

-----------------------------------------------------------------------------
(* Claims *)

Claim ==
    /\ delivery.token < target.tokens
    /\ \/ delivery.status = "queued"
       \/ delivery.status = "active" /\ ~delivery.leased
    /\ delivery' = [delivery EXCEPT
          !.status = "active", !.token = @ + 1, !.leased = TRUE,
          !.recovered = @ \/ delivery.status = "active"
                          \/ (delivery.started /\ delivery.run # "none")]
    /\ holder' = Vacant("claimed", delivery.started)
    /\ UNCHANGED <<effects, callers, performed, completed>>

LeaseExpires ==
    /\ delivery.status = "active" /\ delivery.leased
    /\ delivery' = [delivery EXCEPT !.leased = FALSE]
    /\ UNCHANGED <<effects, holder, callers, performed, completed>>

\* The passes start with listEffects().
Sweeping(kind) ==
    [holder EXCEPT !.pc = kind, !.parking = FALSE, !.listed = effects,
                   !.todo = {op \in Operations : effects[op].status # "none"}]

\* What processDelivery does with a fresh claim.
OutcomeUnknown == /\ delivery.recovered /\ delivery.started
                  /\ target.retrySafety = "unknown" /\ delivery.run # "succeeded"
ResumableWhenSucceeded == delivery.recovered /\ delivery.run = "succeeded"
Resumable == delivery.recovered /\ delivery.run \in {"finalizing", "succeeded"}

StartProcessing ==
    /\ holder.pc = "claimed"
    /\ holder' = IF OutcomeUnknown THEN Sweeping("unknown")
                 ELSE IF Resumable THEN [Sweeping("resume") EXCEPT !.resumed = TRUE]
                 ELSE Sweeping("reconcile")
    /\ UNCHANGED <<effects, delivery, callers, performed, completed>>

-----------------------------------------------------------------------------
(* Passes over the ledger *)

Handled(op, parking) ==
    holder' = [holder EXCEPT !.todo = @ \ {op}, !.parking = @ \/ parking]

\* One record needs nothing, is parked already, or is moved to a new status
\* at the version that was listed.
Passed(op) == Handled(op, FALSE) /\ UNCHANGED effects
StaysParked(op) == Handled(op, TRUE) /\ UNCHANGED effects
MovedTo(op, status) ==
    /\ TransitionEffect(op, delivery.token, holder.listed[op].version, status)
    /\ Handled(op, status = "parked")

\* The resolver queries the domain: it reports an outcome only of what
\* happened, and not_dispatched only of what did not and no longer can.
InFlight(op) == \E c \in Callers : callers[c].pc = "dispatched" /\ callers[c].op = op
Resolutions(op) ==
    IF ~target.resolver THEN {}
    ELSE {"parked"} \union (IF performed[op] > 0 THEN target.settlements ELSE {})
                    \union (IF performed[op] = 0 /\ ~InFlight(op) THEN {"intent"} ELSE {})

\* reconcileEffects; without a resolver, or when it cannot tell, a parked
\* record stays parked and an unknown dispatch is parked.
ReconcileAllDispatched(op) ==
    LET status == holder.listed[op].status IN
    \/ status \in {"intent", "dispatched"} \union Settled /\ Passed(op)
    \/ status = "parked" /\ StaysParked(op)
    \/ status \in {"dispatched", "parked"} /\ \E to \in Resolutions(op) : MovedTo(op, to)
Reconcile(op) ==
    LET status == holder.listed[op].status IN
    \/ status \in {"intent"} \union Settled /\ Passed(op)
    \/ status = "dispatched" /\ op \in Idempotent /\ Passed(op)
    \/ status = "dispatched" /\ op \notin Idempotent /\ MovedTo(op, "parked")
    \/ status = "parked" /\ StaysParked(op)
    \/ status \in {"dispatched", "parked"} /\ \E to \in Resolutions(op) : MovedTo(op, to)

\* parkUnsettledCompletionEffects and parkCancelledEffects.
ParkUnsettled(op) ==
    LET status == holder.listed[op].status IN
    \/ status \in Settled /\ Passed(op)
    \/ status = "parked" /\ StaysParked(op)
    \/ status \in {"intent", "dispatched"} /\ MovedTo(op, "parked")

\* parkOutcomeUnknownEffects.
ParkDispatched(op) ==
    LET status == holder.listed[op].status IN
    \/ status # "dispatched" /\ Passed(op)
    \/ status = "dispatched" /\ MovedTo(op, "parked")

SweepOne(op) ==
    /\ op \in holder.todo
    /\ \/ holder.pc \in Reconciling /\ Reconcile(op)
       \/ holder.pc \in {"completion", "sinks", "cancel"} /\ ParkUnsettled(op)
       \/ holder.pc = "unknown" /\ ParkDispatched(op)
    /\ UNCHANGED <<delivery, callers, performed, completed>>

-----------------------------------------------------------------------------
(* Outcomes *)

\* saveRun, then saveDelivery of the holder's copy of the claim; every outcome
\* but success, retry and cancellation leaves a dead letter.
End(status, run) ==
    /\ Fenced(delivery.token)
    /\ \/ delivery' = [delivery EXCEPT
             !.status = status, !.run = run, !.leased = FALSE, !.started = holder.started,
             !.deadLetters = IF status \in {"parked", "outcome_unknown", "dead_lettered"}
                             THEN @ \union {"delivery"} ELSE @]
       \/ target.crashes /\ delivery' = [delivery EXCEPT !.run = run]
    /\ holder' = Vacant("idle", FALSE)
    /\ UNCHANGED <<effects, callers, performed, completed>>

\* The inner catch of processDelivery, for a failure and for an abort.
Unsafe == holder.invoked /\ target.retrySafety = "unknown"
Begin(pass) == holder' = Sweeping(pass) /\ UNCHANGED <<effects, delivery, callers, performed, completed>>
Caught ==
    \/ Unsafe /\ Begin("unknown")
    \/ ~Unsafe /\ Begin("retry")
    \/ ~Unsafe /\ End("dead_lettered", "failed")

\* Nothing catches an error of reconciliation, of recovery or of the inner
\* catch but the outer one: it dead-letters the delivery.
Thrown == IF holder.pc \in {"completion", "sinks", "sinkRetry", "saving"} /\ ~holder.resumed
          THEN Caught ELSE End("dead_lettered", delivery.run)

\* A listed record changed since: transitionEffect throws.
SweepStale(op) ==
    /\ op \in holder.todo /\ Fenced(delivery.token)
    /\ holder.listed[op].status \in {"intent", "dispatched"}
    /\ holder.listed[op].version # effects[op].version
    /\ holder.pc \in Reconciling \union {"unknown"} => holder.listed[op].status = "dispatched"
    /\ Thrown

SweepEnds ==
    /\ holder.pc \in Sweeps /\ holder.todo = {}
    /\ IF holder.parking /\ holder.pc \notin {"unknown", "sinkRetry"}
       THEN End("parked", IF delivery.run = "none" THEN "none" ELSE "parked")
       ELSE CASE holder.pc = "reconcile" ->
                   /\ Fenced(delivery.token)
                   /\ delivery' = [delivery EXCEPT !.run = "running"]
                   /\ holder' = [holder EXCEPT !.pc = "ready"]
                   /\ UNCHANGED <<effects, callers, performed, completed>>
              [] holder.pc = "resume" ->
                   /\ holder' = IF delivery.run = "succeeded" THEN Sweeping("completion")
                                ELSE [holder EXCEPT !.pc = "finalizing"]
                   /\ UNCHANGED <<effects, delivery, callers, performed, completed>>
              [] holder.pc = "completion" ->
                   /\ Fenced(delivery.token)
                   /\ delivery' = [delivery EXCEPT !.run = IF holder.resumed THEN @ ELSE "finalizing"]
                   /\ holder' = [holder EXCEPT !.pc = "finalizing"]
                   /\ completed' = TRUE
                   /\ UNCHANGED <<effects, callers, performed>>
              [] holder.pc = "sinkRetry" ->
                   /\ holder' = [holder EXCEPT !.pc = "finalizing", !.declared = {}]
                   /\ \/ delivery' = [delivery EXCEPT !.deadLetters = @ \union {"sink"}]
                      \/ ~holder.parking /\ UNCHANGED delivery
                   /\ UNCHANGED <<effects, callers, performed, completed>>
              [] holder.pc = "sinks" ->
                   /\ Fenced(delivery.token)
                   /\ delivery' = [delivery EXCEPT !.run = "succeeded"]
                   /\ holder' = [holder EXCEPT !.pc = "saving"]
                   /\ UNCHANGED <<effects, callers, performed, completed>>
              [] holder.pc = "retry" -> End("queued", "failed")
              [] holder.pc = "cancel" -> End("cancelled", "cancelled")
              [] holder.pc = "unknown" ->
                   End("outcome_unknown", IF holder.invoked THEN "outcome_unknown" ELSE delivery.run)

-----------------------------------------------------------------------------
(* Invocation and completion *)

\* onInvoke saves invocationStarted right before the program runs.
Invoke ==
    /\ holder.pc = "ready" /\ Fenced(delivery.token)
    /\ delivery' = [delivery EXCEPT !.started = TRUE]
    /\ holder' = [holder EXCEPT !.pc = "running", !.invoked = TRUE]
    /\ UNCHANGED <<effects, callers, performed, completed>>

\* Programs that await their calls return after their callers have.
Quiet == target.floating \/ \A c \in Callers :
            callers[c].pc # "idle" => callers[c].token # delivery.token

TargetReturns == holder.pc = "running" /\ Quiet /\ Begin("completion")
SinksEnd == holder.pc = "finalizing" /\ Quiet /\ Begin("sinks")
SinkFails ==
    /\ holder.pc = "finalizing" /\ Quiet /\ holder.tries < MaxSinkTries
    /\ holder' = [Sweeping("sinkRetry") EXCEPT !.tries = @ + 1]
    /\ UNCHANGED <<effects, delivery, callers, performed, completed>>

\* The target throws, or something fails before it is invoked.
TargetFails ==
    /\ holder.pc \in {"ready", "running"} /\ Quiet
    /\ Caught

\* cancelRun, or a heartbeat that failed, is met by the next assertRunActive.
\* Only the outer catch meets it in the first reconciliation, in the one before
\* a retry, in the recovery of a completion and just before the invocation.
Unhandled == {"reconcile", "retry"}
Cancel ==
    /\ holder.pc \in {"ready", "completion", "sinks", "saving"} \union Reconciling \union UserCode
    /\ \/ /\ holder.resumed \/ holder.pc \in Unhandled \union {"ready"}
          /\ End("dead_lettered", delivery.run)
       \/ /\ ~holder.resumed /\ holder.pc \notin Unhandled
          /\ holder' = [Sweeping("cancel") EXCEPT !.aborted = TRUE]
          /\ UNCHANGED <<effects, delivery, callers, performed, completed>>

\* saveDelivery of a success: assertNoNonterminalEffects.
NoneDispatched == \A op \in Operations : effects[op].status # "dispatched"
AllSettled == \A op \in Operations : effects[op].status \notin Nonterminal
Succeed == /\ holder.pc = "saving" /\ AllSettled
           /\ End("succeeded", "succeeded")
SucceedRefused == /\ holder.pc = "saving" /\ ~AllSettled
                  /\ Thrown

\* redrive of a dead letter: a delivery starts over; a sink keeps the run.  The
\* dead letter goes in a second step, which a crash may prevent.
Redrive(kind, redriven) ==
    /\ kind \in delivery.deadLetters /\ delivery.status \in Ended
    /\ delivery.token < target.tokens
    /\ \E left \in {delivery.deadLetters \ {kind}} \union (IF target.crashes THEN {delivery.deadLetters} ELSE {}) :
          delivery' = [redriven EXCEPT !.status = "queued", !.token = @ + 1, !.deadLetters = left]
    /\ UNCHANGED <<effects, holder, callers, performed>>
RedriveDelivery ==
    /\ Redrive("delivery", [delivery EXCEPT !.run = "none", !.started = FALSE])
    /\ completed' = FALSE
RedriveSink ==
    /\ target.sinkRedrive /\ target.retrySafety = "effect-aware" /\ delivery.run # "none"
    /\ Redrive("sink", [delivery EXCEPT !.started = TRUE, !.recovered = TRUE])
    /\ UNCHANGED completed

-----------------------------------------------------------------------------
(* Specification *)

Init ==
    /\ target \in Targets
    /\ effects = NothingListed
    /\ delivery = [status |-> "queued", token |-> 0, leased |-> FALSE, started |-> FALSE,
                   recovered |-> FALSE, run |-> "none", deadLetters |-> {}]
    /\ holder = Vacant("idle", FALSE)
    /\ callers = [c \in Callers |-> Idle]
    /\ performed = [op \in Operations |-> 0]
    /\ completed = FALSE

CallerStep(c) ==
    \/ \E op \in target.operations, digest \in target.digests : CallerDeclares(c, op, digest)
    \/ CallerDispatches(c)
    \/ CallerPerforms(c)
    \/ \E outcome \in target.settlements : CallerSettles(c, outcome)
    \/ CallerStops(c)

HolderStep ==
    \/ Claim \/ StartProcessing
    \/ \E op \in Operations : SweepOne(op) \/ SweepStale(op)
    \/ SweepEnds
    \/ Invoke \/ TargetReturns \/ SinksEnd \/ SinkFails \/ TargetFails \/ Cancel
    \/ Succeed \/ SucceedRefused

Next ==
    /\ \/ \E c \in Callers : CallerStep(c)
       \/ HolderStep
       \/ LeaseExpires
       \/ RedriveDelivery \/ RedriveSink
    /\ UNCHANGED target

Spec == Init /\ [][Next]_vars

-----------------------------------------------------------------------------
(* Properties *)

\* Every variable has its type, and tokens stay within their bound.
TypeOK ==
    /\ target \in Targets
    /\ effects \in [Operations -> Effect]
    /\ delivery \in Delivery /\ delivery.token <= target.tokens
    /\ holder \in Holder
    /\ callers \in [Callers -> Caller]
    /\ performed \in [Operations -> 0 .. 2]
    /\ completed \in BOOLEAN

\* "An indeterminate effect with unknown replay safety also parks": no mix of
\* lost claims, late callers, retries, crashes, resolvers and redrives sends an
\* operation out a second time unless it was declared idempotent, of a program
\* that awaits its calls.
NoBlindReplay ==
    ~target.floating => \A op \in Operations \ Idempotent : performed[op] <= 1

\* Only receipt-complete effects are left behind a delivery that succeeded,
\* whatever its late callers still try.
CompletionSettled ==
    delivery.status = "succeeded" => \A op \in Operations : effects[op].status \in {"none"} \union Settled

\* A program only runs over a reconciled ledger: what is parked was parked in
\* vain, and what is dispatched and unknown it dispatched itself.
RunsReconciled ==
    holder.pc \in {"ready", "running"} =>
        \A op \in Operations :
            /\ effects[op].status # "parked"
            /\ effects[op].status = "dispatched" /\ op \notin Idempotent => op \in holder.declared

\* The ledger tells the truth: it never shows as undeclared or not dispatched
\* what went out, and whoever sends an operation out does so with the request
\* that was recorded first under its identity.
PerformedNotForgotten ==
    \A op \in Operations : performed[op] > 0 => effects[op].status \notin {"none", "intent"}
SameRequest ==
    \A c \in Callers : callers[c].pc # "idle" => callers[c].digest = effects[callers[c].op].digest
LedgerTrue == TypeOK /\ PerformedNotForgotten /\ SameRequest

\* "Never reruns the target": once the output is persisted, only an operator
\* who redrives the whole delivery makes the target run again.  NeverRerun is
\* what the code claims.  It holds of deployments that lose claims and redrive
\* deliveries, but neither crash between two saves nor redrive sinks, of
\* programs that await their calls: a late declaration makes the store refuse
\* the completion, and the retry runs a target that is safe to retry anew.
NeverRerun == holder.pc = "running" => ~completed
CompletedNotReinvoked ==
    /\ ~target.crashes /\ ~target.sinkRedrive
    /\ ~target.floating \/ target.retrySafety = "unknown"
    => NeverRerun

=============================================================================
