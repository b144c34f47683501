# Events, flows, retained sessions and learning in Halligan, in TLA+

Halligan (the Ax library) is a TypeScript library for programs built from
calls to language models. Most of its 2,900 files are adapters, generated
ports, examples and documentation. The logic that is hard to get right is the
part that must survive concurrency and failure: the durable event runtime
(`src/src/ax/event`), flows that run steps in parallel (`src/src/ax/flow`),
retained agent sessions (`src/src/ax/agent/retainedSessions.ts`), and learning
from feedback with its chain of releases (`src/src/ax/learn`). This directory
holds TLA+ specifications of these four, TLC configurations that check them on
small instances, and proofs about them for every instance. Paths below are
relative to the root of the library's repository, so `src/ax/...` is what
`PROJECT.json` calls `src/src/ax/...`.

## 1. Inventory

### The event runtime (`src/ax/event`, `docs/EVENT_RUNTIME.md`)

| Component | State | Operations |
|---|---|---|
| Event store, queue (`memoryStore.ts`) | `deliveries` with status, fencing token, lease, attempt, `availableAt`, sequence; `dedupe`; counters of pending deliveries and bytes; waiters for work and capacity | `enqueue`, `claim`, `renewClaim`, `saveDelivery`, `redriveDelivery`, `waitForCapacity`, `waitForWork`, `close` |
| Effect journal (`memoryStore.ts`, `util.ts`, `runtime.ts`) | effects per delivery: status, version, fencing token, request digest | `declareEffect`, `transitionEffect`, `listEffects`; the sweeps `reconcileEffects`, `parkUnsettledCompletionEffects`, `parkCancelledEffects`, `parkOutcomeUnknownEffects`; `resolveEffect` |
| Continuations and verifier chains | `continuations`, `continuationKeys`, `continuationAdmissions`, `verifierTransitions` | `registerContinuation`, `admitContinuation`, `completeContinuation`, `saveDeliveryAndCompleteContinuation`, `transitionVerifier` |
| Runtime (`runtime.ts`) | worker loops, active runs with their abort controllers and heartbeats, dead letters, the promises of `close` and redrives | `publish`, `processDelivery`, `redrive`, `cancelRun`, `close`, `waitForIdle` |
| Demand boundary (`demand.ts`) | work in flight and its waiters, completed observations | `observe` |
| Components (`components.ts`) | registry of active components and their disposers | activate, replace, dispose |
| SQLite store (`src/tools/event/sqlite.ts`) | the same as the event store in tables, plus payloads staged in a second store | the same, in transactions; `reconcilePayloadStages` |
| Sources, mapping, timeline | subscriptions to protocol notifications, validated mappings, a bounded history | adapters that call `publish` |

How they interact. A source calls `publish`, which `enqueue`s one delivery per
matching route. The runtime's workers `claim` deliveries; a claim is a lease
with a fencing token, and every later write of the worker carries that token.
A heartbeat renews the lease. `processDelivery` resolves the continuation the
event answers, reconciles the effects an earlier attempt left, calls the
target, completes its effects, verifies its output, writes to sinks, and ends
the delivery. A target may declare effects, register a continuation that a
later event resumes, and hand over to a child delivery when its verifier
rejects the output. What fails is retried, dead-lettered or parked, and an
operator may redrive it.

All of this happens in one JavaScript process per runtime, with an `await`
before nearly every store call. Between two awaits a turn is atomic; between
turns anything else runs: another worker, another process on the same store,
the clock, an operator. The hard behaviours are therefore: a lease that
expires under a worker that goes on working; state read before an `await` and
used after it; a crash between the save of a run and the save of its delivery;
an acknowledgement that is lost; capacity that becomes free while a publisher
is about to wait for it; a dead letter redriven after the world has moved on;
a shutdown that races all of them.

What makes each part correct:

- queue: a strict lane is worked in order; a lost claim stays lost; the
  counters are what the queue holds; no publisher sleeps through its wake-up;
  one identity is accepted once (it is not: section 5);
- effects: an operation that is not idempotent is never sent twice; what was
  sent is never forgotten; a delivery succeeds over settled effects only; a
  target whose output is persisted is not run again;
- continuations: one delivery consumes one continuation; the key index, the
  admissions and the delivery records agree; a chain is one line of work;
  every delivery ends;
- runtime: whatever it does to the queue the store allows; queued work is
  picked up; a redriven delivery is not worked before its dead letter is gone;
  `close` returns, and nothing is written after it.

### Flows (`src/ax/flow`)

`AxFlow` collects steps; `forward()` runs them. The planner
(`executionPlanner.ts`) groups consecutive steps whose declared reads and
writes do not meet, the executor (`executor.ts`, `batchUtil.ts`) runs each
group concurrently in batches and merges the results, `dependencyAnalyzer.ts`
finds what a step reads. Steps may start remote tasks (`mcp/execution.ts`)
which a failure must cancel. Correct means: grouping cannot be observed in the
result, and a failed group leaves neither tasks nor later steps behind.

### Retained agent sessions (`src/ax/agent/retainedSessions.ts`)

| Part | State | Operations |
|---|---|---|
| Registry of a root | one snapshot: the tree of sessions, their mailboxes, an epoch, the budget of tokens and subcalls; saved by compare-and-set | `spawn`, `send`, `cancel`, `dispose`, the claim of a message and its completion, the fence of `recover` |
| Host | owned epochs, active attempts with their abort controllers, pending drains | `dispatch`, `recover`, `close`, `scheduleReady` |
| Scheduler | jobs, delivered at least once | `enqueue`, `dispatch` |

A client spawns a session or sends a message through a host; the mutation is
saved, then the host hands jobs to its scheduler, which calls `dispatch`. That
claims the message in the snapshot, runs the agent, and saves the outcome. Any
number of hosts share a store; `recover` rotates the epoch, marks what was
running `outcome_unknown`, and waits until the runs of the old epoch in its own
process have unwound. Hard are: a job delivered twice; a claim answered after
the epoch has moved; a fence whose answer is lost; a cancel between a run and
its completion; and the accounts of a tree whose parts are disposed, fenced and
overspent. Correct means: a message runs at most once and ends once; an agent
is never run on two messages at a time; mail that could run is scheduled; the
accounts reconcile.

### Learning (`src/ax/learn`, `docs/LEARNING_SURFACE.md`)

| Part | State | Operations |
|---|---|---|
| Records (`memoryStore.ts`) | a log of interactions and reports with sequence numbers, consumed ids, a cap with eviction | append, page, `markConsumed` |
| Engine (`processor.ts`) | known interactions, parked reports and the index of what each waits for, ready units, the pending batch | `ingest`, `buildBatch`, `acknowledge` |
| Releases (`releases.ts`) | an append-only chain of trees and a head | seed, `current`, `publish`, `promote`, `rollback` |
| Evolution (`evolve.ts`) | the tree under change, for one batch | `axHarnessEvolve` |

Agents append records; a trainer pages them into its engine, evolves a
candidate from a batch, appends the release, acknowledges the batch and marks
its records consumed. Store and chain are durable and shared, the engine is
not. Hard are: reports before, between and after the interactions they grade;
eviction under a reader's cursor; groups that overfill a batch; two hosts that
append on one tail; a crash between append and promotion, or between
nomination and consumption. Correct means: feedback is accounted for once; a
batch is bounded and complete; what is consumed has trained a release on the
chain; the chain is one line with one head.

### The rest

| Component | What is hard in it | Here |
|---|---|---|
| Mind chat (`mind/chat.ts`) | send = settle then append then reconcile, by concurrent processes over files | planned |
| Balancer, rate limiter (`ai/balance.ts`, `util/rate-limit.ts`) | failover state shared by concurrent calls; waiters that poll without order | planned |
| MCP client (`mcp/client.ts`) | limits on concurrent tool calls, reference-counted subscriptions | planned |
| Speculative code runtime (`funcs/jsRuntimeSpeculation.ts`) | claims on shared speculative launches | planned |
| Trajectory log (`trajectory/`) | cursors of several consumers, rollups | planned |
| Authority, skill provenance | grants as a function of data | perhaps |
| Signatures, prompts, parsing, providers, optimizers, agents, diagrams, ports, website | sequential data processing, text, numeric search, generated code | not modelled |

`PROJECT.json` lists every component with its sources and status, and under
`hazards` each place of the code where one of these behaviours bites, with the
properties that cover it or the reason none does.

## 2. Modules

    EventStore <------ EventRuntime <------ MCEventRuntime
      ^    ^               ^
      |    MCEventStore    EventRuntime_proofs
      EventStore_proofs <--'

    EventEffects <---- MCEventEffects      FlowExecutor <---- MCFlowExecutor
      ^---- EventEffects_proofs              ^---- FlowExecutor_proofs

    EventContinuations <---- MCEventContinuations
      ^---- EventContinuations_proofs

    LearningRecords <--.
    ReleaseChain <----- LearningLoop <---- MCLearningLoop
                          ^---- LearningLoop_proofs

    SessionRegistry <---- RetainedSessions <---- MCRetainedSessions
                              |    ^---- RetainedSessions_proofs
                              '---- implements SessionMail

    FoldTheorems <---- EventStore_proofs, FlowExecutor_proofs,
                       LearningLoop_proofs, RetainedSessions_proofs

Two pairs of a detailed and an abstract specification are related by
refinement. `EventRuntime` implements `EventStore` by leaving its variables to
the actions of `EventStore`: the mapping is the identity on the queue, and
`StoreSpec` is both checked and proved. `RetainedSessions` implements
`SessionMail` under a mapping that reads the life of a message off the registry
(`Life`) and its runs off a history variable; `MailSpec` is both checked and
proved. `LearningLoop` composes two modules and is proved to implement one of
them. Every other
specification stands alone: what it needs of its neighbours is a
nondeterministic choice over everything the neighbour may do.

The MC modules hold the definitions and symmetry sets a configuration refers
to. Operators named for a mistake (`RenewsUnchecked`, `UnfencedToken`,
`ConsumeByKey`, `AppendAnywhere`, ...) are not part of a specification; each
states how faulty code could differ from the definition it stands next to, and
is used to confirm that the properties notice.

### EventStore: the queue

State: `deliveries` (one record per publishing call and route), `dedupe`,
`sequence`, `pendingDeliveries` and `pendingBytes`, the progress of each
`publish()` call in `publishers`, and the history variable `redriven`. Every
action is one synchronous turn of the store:

- `PublishKnown`, `PublishRejected`, `PublishAccepted`, `PublishWaits` are the
  ways through the first turn of `enqueue`; `Wake` is the turn after
  `waitForCapacity` resolves, with its second look at the capacity;
  `PublishTimesOut` and `PublishAborts` are its other ends. `Accept`
  coalesces, or appends with the next sequence number, and counts.
- `Claim` takes the first claimable delivery in scan order and moves its
  fencing token; `RenewClaim`, `SaveDelivery` and `RedriveDelivery` follow,
  with the counters and the waiters they notify.
- `Tick` passes one unit of time. Leases, delays and deadlines are kept as the
  time they have left.

Workers are the most general clients: whoever holds an active claim may save
any record of the delivery. So what holds here holds for any runtime, and
`EventRuntime` is one. `waitForWork` is modelled there, with the loops that
call it.

### EventRuntime: workers, heartbeats, redrives and shutdown

An action is one turn of the event loop, from the answer of one `await` to the
next. `worker[w]` is where a worker loop or its `processDelivery` is, the
delivery it works on, and `copy`, the record it claimed: the code goes on
spreading that copy into every save (`{...claimed, status}`), so the model
does too, and the copy may be stale. `runs` is `activeRuns` together with the
heartbeats; `deadLetters`, `redrives` (calls of `redrive()` and the barriers
they raise), `publishing` (calls of `publish()` inside the callbacks of routes)
and `closer` (the phases of `close()`) are the rest.

- The loop: `ClaimNext`, `LookAhead` for what will be due, `Register` as a
  waiter, `SleepEnds`, `Stop`. That the loop registers in one turn and looks
  again in another is what a lost wake-up would slip through.
- The handler: `Admit` waits for the barrier of a redrive, `Enter` registers
  the run and starts the heartbeat, `Authorized` or its failures await the host,
  `Begin` and `Invoke` save the delivery and the run, the observer returns or
  throws, and the run is completed, retried, cancelled or buried with a dead
  letter. A completion that was persisted is resumed (`Recover`, `Resume`,
  `Confirm`). `InnerCatch`, `OuterCatch`, `CleanUp` and `Leak` are the
  handlers of exceptions, each with what it forgets.
- Beside it: `Heartbeat`, `CancelRun`, the two steps of `redrive`, `publish`
  and `close` with its three deadlines (`PublishesSettle`, `Drained`,
  `AbortOperations`, `Shutdown`).

The store is in memory and answers at once, so `TimePasses` only when every
worker waits for a timer or for the host, and no timer is due; `Stall` is host
code that blocks the loop while time goes on, which is how a lease can end
under a worker of the same process. Routes have the action `observe`: targets,
effects, sinks, continuations and verifiers are the next two modules.

### EventEffects: one delivery and its effect journal

State: the kind of `target` (retry safety, operations, resolver, faults of its
deployment), the ledger `effects`, the stored `delivery` with its run, the
worker that holds the latest claim (`holder`, with its place in
`processDelivery` and the effects it listed), the asynchronous `callers` of the
target's program, and the history variables `performed` (how often an operation
really went out) and `completed`. A caller declares, marks dispatched, performs
and settles, in four separate actions, and outlives the claim it runs under.
The worker's passes over the ledger (`Reconcile`, `ParkUnsettled`,
`ParkDispatched`) work on the list they read at their start, one effect per
action, so a late caller gets in between. A worker that lost its claim is
dropped, because the store refuses all it can still write; its callers are not
dropped. `Cancel` is an abort of the run seen at any check of the signal, during
the sweeps and saves too; `Thrown` is a transition that a late caller made
stale. Where either leads (a retry, a dead letter, the sweep of
`parkCancelledEffects`) is decided by which `try` it was raised in.

### EventContinuations: admissions and verifier chains

State: `deliveries`, `open`, `keys`, `admissions`, `expired`, `committed`,
`deadLetters`, the place of each worker in `processDelivery`, a fault counter
and the history variable `consumers`. Deliveries are `<<root, n>>`, the n-th
link of the verifier chain of a published event. `Admit`, `AdmissionRefused`,
`Register`, `Complete`, `TransitionVerifier` are the store's mutations;
`CommitUnacknowledged`, `CommitFails` and `Confirm` are the runtime's handling
of a transition whose answer is lost; `CompleteFails`, `Lost`, `Crash`,
`LeaseExpires` and `Redrive` are the failures. Targets are a choice of outcome
(`TargetEnds`), `Cancel` aborts a run anywhere after its claim, and targets are
idempotent, which is the case in which the runtime does retry.

### FlowExecutor: one `forward()`

State: the body of a loop (`flow`, chosen in `Init` among all bodies of the
given length), the state of the flow as a partial function from fields to
symbolic values, the group in flight (`running`, `results`), and the remote
tasks. `GroupStarts` is the planner, `Merge` the merge of a group,
`StartGroup`/`NextBatch`/`Finish`/`Fail`/`EndGroup` the executor, `Sweep` the
cancellation of abandoned tasks.

### ReleaseChain, LearningRecords and LearningLoop

`ReleaseChain` has the durable `releases` and `head`, and per host the call in
progress and the head it last observed. A call reads the chain and then takes
one or two turns of the store: `CreateSeeded` and `ObserveHead` are the
creation of a surface, `Publish` and `Rollback` read the tail, `PutRelease` is
the append with the store's check of the parent, `PromoteAppended` and
`Promote` move the head by compare-and-set; `Abort` and `Crash` end a call
anywhere. Ids are chosen freely, so a factory may repeat one.

`LearningRecords` has the log of the store (`AppendRecord` with the eviction
of what nobody refers to, `Page`) and the engine, a record of the reducer's
parts. The reducer is written as operators from engine to engine (`Judge`,
`Park`, `IngestInteraction`, `Select`, `BuiltBatch`, `Acknowledged`), one per
function of the code, and `Ingest` applies it to one record of a page.

`LearningLoop` puts both together in the order the documentation asks for:
`Build`, `Evolve`, `Nominate`, `Acknowledge`, `MarkConsumed`, with the trainer
rejected, aborted or restarted with an empty engine anywhere (`TrainerCrash`),
while agents append and other hosts work on the chain.

### SessionRegistry, RetainedSessions and SessionMail

`SessionRegistry` is the snapshot of a root and its mutations, as operators
from a snapshot to the snapshot that is saved (`Spawned`, `Sent`,
`CancelledUnder`, `Disposed`, `Claimed`, `Settled`, `Interrupted`, `Rotated`,
`StopExhausted`), and `ValidSnapshot`, the check the code makes before each
save. A session is named by its first message.

`RetainedSessions` is the hosts. Compare-and-set with its retry makes a
mutation one step on the latest snapshot; what a host reads before, and what it
does afterwards, are steps of their own. `Dispatch` claims and adds an attempt,
`DispatchSlowly` and `AnswerLate` are a claim whose answer takes its time,
`Forward` runs the agent, `Complete` saves the outcome, `Finish` returns;
`Fence`, `TakeOver` and `Resume` are `recover()`; `LoadFails`,
`ClaimAnswerLost`, `FenceAnswerLost`, `CompletionLost`, `Crash` and `Close` are
the failures. The effects of a client's call on the scheduler may be delayed
(`calls`, `Schedule`). History variables: `forwards` counts the runs of each
message, `excuses` records that mail was withdrawn or a wake-up lost, `overrun`
the tokens reported in excess of a reservation, `unfenced` that a host took over
an epoch without a drain.

`SessionMail` is the promise the documentation makes of a message, in two
variables and two actions.

## 3. Runs

| Run | Instance | Question |
|---|---|---|
| `EventStore_lane` | 3 publishers, 2 workers, one strict lane, capacity 2, leases of 1 tick, tokens to 2 | do counters and lanes stay exact (`StoreInvariant`); does anyone sleep beside free capacity, get refused while there is room, or wait for ever |
| `EventStore_redrive` | a coalescing, debounced route and a relaxed one, sizes 1 and 2, two events of one identity, redrives | do limits and order hold except for what an operator brought back; do old claims stay dead |
| `EventStore_repeated` | the same routes and events, publishers that may wait for room | *violated*: two publishers of one event that both wait are both accepted |
| `EventEffects` | four targets: `Aware` (effect-aware, resolver, crashes, both redrives, 4 claims), `Unknown` (unknown safety, conflicting requests, calls that outlive the program), `Steady` (two operations, no crash between two saves, no redrive of sinks), `Careless` (`Unknown` of one request without those faults) | is anything replayed blindly or forgotten, does success rest on settled effects, does a completed target run again |
| `EventContinuations_resume` | one task, two events that answer it, a verifier link behind each, 2 workers, 1 fault, stale dead letters | one-shot, indexes in step, bindings survive |
| `EventContinuations_settle` | a chain of 2 links, 2 attempts, 2 faults, 2 workers | is a chain one line of work, do committed handovers stand, does every delivery end (liveness) |
| `EventRuntime` | 2 workers, one event claimed up to 3 times, leases of 2 ticks, heartbeats each tick, an authority resolver, 1 disturbance (cancel, redrive or stall), a close at any time | does the runtime implement the store, is redrive in order, is it quiet after `close` |
| `EventRuntime_liveness` | the same with 2 claims, under fairness | is queued work claimed, does `close` return |
| `EventRuntime_leak` | the same | *violated*: a run stays in `activeRuns` when its worker has left it |
| `FlowExecutor_body` | every body of 3 steps of 4 kinds, batches of 2, one field read per node | is grouping observable; do failures sweep; does a step start after a failure |
| `LearningLoop` | 2 hosts on a chain of 3 rows with 2 aborts or crashes; a trainer over 2 interactions and 4 reports, pages of 1, a cap of 3 records, batches of 2 | is feedback accounted for, are batches sound, is what is consumed on the chain, is the chain one line, does it serve what was seeded |
| `RetainedSessions` | 2 messages at 2 hosts, or 3 messages in a tree of two levels at one of them (`Regimes`); 2 slots, runs that use 3 tokens of 2 reserved, 2 disturbances | does the mailbox implement `SessionMail`; is a run drained before it is replaced; is ready mail scheduled; is a cancel final; does every snapshot validate; is the budget held |

Bounds. Three publishers are needed for a queue of two to fill with one
waiting, and let a capacity freed for one be taken by another; two workers,
with leases that end, cover every overlap of an old claim and a new one.
`MaxFencingToken` stands for `Number.MAX_SAFE_INTEGER`, so the runs also pass
through the boundary where `claim` and `redriveDelivery` refuse to count
further. Two claims of a delivery give one worker that lost its claim and one
that has it; three and four add the recovery after a redrive. In the runtime a
lease of two ticks and a heartbeat of one let a renewal, a missed renewal and
an expiry all happen, and a retry of one tick makes a worker sleep.

In the continuation runs two answering events are what one-shot is about, two
links are a chain with a handover, and faults (lost claims, store errors,
crashes, redrives) are counted together, each placed anywhere. The bound on
disturbances of the sessions and of the runtime is of the same kind: it limits
how many unusual things happen, not when, and the normal course of events is
unbounded. Two disturbances of the sessions are a lost answer and the recovery
that follows; the constraint `Regimes` has either two hosts with two messages or
three messages at one host, since what hosts do to each other and what runs do
to the budget of a tree meet only in the registry. With three disturbances the
first regime was explored once (980,875 states), and the second as an instance
of its own (766,586): all holds, and the theorems of section 4 cover every
property of the run for all bounds. Each agent run spends more than it
reserved, so the budget is exceeded, exhausted and charged.

In the learning run one constraint, `Regimes`, splits the product of its two
halves: hosts race on the whole chain as long as no record exists, and records
flow while the trainer is the only host and the chain has at most two rows.
Batches, evictions, restarts and nominations are all in the second half; what
other hosts can do to the chain does not depend on records, as section 4 proves.
Four reports are a large one that waits for two interactions, a pair that must
stay together, and one that competes for a slot.

Larger instances were explored once and hold: continuations with two faults
(4.6 million states), with two attempts (3.1 million), with one event and two
of each (3.2 million), three links (1.1 million); bodies whose nodes read two
fields (12.7 million). Symmetry is used only where no liveness is checked, over
workers, hosts, ids, callers, answering events or fields that the model treats
alike. `CHECK_DEADLOCK FALSE` stands only where the work can be over.

Fairness. `EventStore!FairSpec` has weak fairness of `Wake`, `PublishTimesOut`
and `Tick`: a resolved promise runs, a timer fires, time passes. Nothing is
assumed of workers; a publisher settles even when they do nothing.
`EventContinuations!FairSpec` has weak fairness of each worker's `Claim` and
of its next step (its loop runs and promises settle) and of the expiry of a
lease nobody renews any more. `EventRuntime!RuntimeFairSpec` has weak fairness
of each worker's turns, of the heartbeats, of a redrive that has begun, of the
phases of `close` and of time: promises of the store settle and timers fire.
Host code is never fair: observers, authority resolvers and the callbacks of
routes may hang, which is why `WorkPickedUp` makes an exception when the host
holds every worker, and why `CloseReturns`, which makes none, says something.
Only without a resolver is the turn after the check of authority the runtime's
own. Faults are finite in number and never fair. The other modules state safety
only: nothing in the code promises that a flow, a session or a trainer ends
while its model calls do not.

## 4. Proofs

TLAPS checks the theorems for every value of the constants that satisfies the
assumptions named in the modules (`ConstantsAssumption`, `BoundsAssumption`,
`KeysApart`, `EffectsAssumption`, `RuntimeAssumption`, `ChainAssumption`,
`RecordsAssumption`, `LoopAssumption`, `HostsAssumption`, `UsagesAssumption`,
`LimitsAssumption`), which ask for little more than types.
`RuntimeAssumption` also ties the runtime to its store:
the outcomes the runtime saves are among those the store lets a client save,
and there are no more claims than attempts may be counted. Where an invariant
of the proofs is not one of a run, it was tried with TLC on the instance of the
run first: `HostInvariant`, for example, on the two session instances just mentioned.

### FoldTheorems: induction over data

The induction theorems of the library take an operator as parameter, which the
installed provers cannot instantiate. So induction is stated over a set: a
set of subsets of `S` that contains each subset whose proper subsets it contains
has `S` in it (`SubsetInduction`, from the well-foundedness of strict inclusion),
and likewise for growing subsets and for numbers. On it rest the lemmas about
sums, that a sum taken in the order of `CHOOSE` does not depend on the order
and what it is of a union, a difference or a renamed set, and about folds: the
function by which `FoldLeft` is defined exists and takes one step per element.
Where the community module recurses through a local recursive operator, no such
function can be named; that is why `LearningRecords` filters (`Kept`,
`Without`) and selects by `FoldLeft` and not by `SelectSeq`.

### The queue: EventStore_proofs

- `TypeCorrect`: `Spec => []TypeOK`. The token bound is the real content.
- `LanesInOrder`: `Spec => []StrictOrder`. `StrictOrder` alone is not
  inductive: a new delivery must come after all others of its lane, which
  needs that sequence numbers in use are at most `sequence`
  (`SequenceBounded`) and that a call owns no delivery before it is accepted
  (`NothingBeforeAccepted`), so that the slot it fills is new. Together with
  `TypeOK` they are `OrderInvariant`.
- `StoreCorrect`: `Spec => []StoreInvariant`, which adds the exact slot
  counter and the limit on admitted deliveries. The counter is related to the
  cardinality of the set of live deliveries; each action adds to it or removes
  from it known elements.
- `CapacityHolds`: `CapacityRespected`, limits on bytes included. The byte
  counter is a sum over live deliveries, and each action changes it by the size
  of what enters or leaves that set; coalescing exchanges one size for another.
- `WaitersAreWoken`, `RefusalsJust`: without coalescing routes
  (`Coalesced = {}`) nobody sleeps beside capacity it could use, and nobody is
  refused while there is room. The premise is needed: section 5 has the
  violation with one.
- `FencingHolds`: the action property that no lost claim becomes valid again.
  The token of a delivery never decreases and whatever renews a lease moves it
  or holds it.

### The runtime: EventRuntime_proofs

The runtime is one of the clients the store allows. The invariant is
`RuntimeInvariant`: as long as a worker's claim holds, the copy it took agrees
with the stored record in everything the worker does not save itself
(`CopyOf`), and before its first save the record still counts fewer attempts
than claims (`Untouched`, `RecordFits`). Without the first, a save would write
back an event or a sequence number of another time; without the second, it
could not be shown that the attempts it writes are ones the store accepts. One
lemma per kind of store step says what it does to a record somebody has a copy
of (`HeldKept`, `CopyKept`), one per turn of a worker that it writes only what a
client may (`ProcessSound`, `LoopSound`, ...).

- `CopiesFit`: `RuntimeSpec => []RuntimeInvariant`;
- `RuntimeImplementsStore`: `RuntimeSpec => StoreSpec`;
- `RuntimeKeepsOrder`, `RuntimeFences`, `RuntimeKeepsCapacity`: the theorems of
  the store hold in the runtime;
- `ShutdownIsQuiet`: `RuntimeSpec => QuietAfterShutdown`. After the shutdown
  each handler refuses to write except the one that had begun to save a
  cancellation;
- `RedriveOrdered`: no worker processes a delivery while its dead letter is
  listed. The invariant is `LettersAlone`: a delivery has at most one dead
  letter; it has ended, or waits behind the barrier of the redrive that will
  remove the letter; at most one worker is about to add one, to a delivery
  without any; and who is past the barrier with a claim that holds stays past
  it, since a redrive needs a delivery that has ended.

### Effects: EventEffects_proofs

The invariant `IInv` has three parts. About the ledger: a caller knows no
version the ledger has not reached (`Trailing`), what went out or may go out is
on record as dispatched (`SentRecorded`), and a caller that declared before
the dispatch of another can no longer dispatch (`Overtaken`), because the
dispatch compares the version it read. About the sweeps a worker makes over
the ledger: nobody runs under the current claim while one is under way
(`NoneCurrent`), so the list it took is fresh (`ListedFresh`) and what it has
passed is settled (`UnknownPending`, `ParkedPending`, `UnsettledPending`,
`SavesSettled`). About the records: how the worker came to where it is
(`Provenance`) and that a persisted output is carried to its end
(`CompletesOnce`). What is claimed of the end of a sweep holds only for
programs that await their calls; for others it is claimed of the opening
sweep, where the new token already keeps late callers out.

- `SentOnce`: `NoBlindReplay`, an operation of unknown safety is performed at
  most once, whatever is lost, retried or redriven, by programs that await their
  calls. Two callers between dispatch and operation are excluded by `OneSender`:
  within a claim by the versions, across claims because reconciliation parks
  what an earlier claim dispatched before a program runs.
- `LedgerTells` (`LedgerTrue`), `SuccessSettled` (`CompletionSettled`),
  `ReconciledBeforeRun` (`RunsReconciled`);
- `CompletedOnce`: `CompletedNotReinvoked`. The proof found the property too
  strong as it stood: with calls left running and a target that is safe to
  retry the code does call a completed target again (section 5), so the premise
  now excludes exactly that, and `Careless` is the target next to it.

### Continuations: EventContinuations_proofs

The invariant `Inv` is proved by one lemma per action (`KeepClaim`,
`KeepAdmit`, ...). Its idea is that the id of a continuation is never used
twice. A task's id carries the token of a claim: one worker holds it
(`OneHolder`), and what is registered is older than every run that may still
register (`TasksOld`). A verifier's id names a delivery that exists once it was
used (`VerifiersExist`), and an absent delivery carries nothing
(`AbsentFresh`). Hence the continuation an action opens is one that no delivery
was ever admitted to, so admissions stay exclusive (`AdmittedAlone`) even after
the continuation is closed, and the one-shot property follows from the history
of consumers (`ConsumersAdmitted`). Without the ids the invariant is false: a
reused id would be consumed a second time. The actions that open or close
nothing are handled by one lemma (`QuietStep`), those that close by `CloseStep`,
those that open by `OpenStep`.

- `ContinuationsInvariant`: `Spec => []Inv`;
- `KeysIndexContinuations`, `AdmissionsRecorded`, `IndexesInStep`,
  `ConsumedOnce`: `KeysAgree`, `AdmissionsAgree`, both together
  (`IndexesAgree`) and `OneShot` are invariants;
- `BindingsKept`: `Spec => BindingKept`;
- `ResumedConsumes`: `ResumeConsumes` is an invariant. Beside `Inv` it needs
  that the actions which end a delivery well close what it was admitted to
  (`ResumeSettles`), and that what opens later has an id nobody was admitted
  to (`ResumeQuiet`).

The shape of a chain needs a second invariant, `WorkInv`, under the premise that
removing a redriven dead letter does not fail (`~StaleDeadLetters`; section 5
says what happens when it does). Dead letters name deliveries that ended so
(`LettersEnded`), hence nothing that has handed over is ever redriven, hence
behind the last delivery of a chain all wait (`OneLine`). The handed-over
continuation stays open until its own delivery consumes it (`HandedOver`,
`OwnVerifier`): it is found under its key only by that delivery, as the key has
a kind of its own (`KeysApart`), and only continuations of tasks expire. The
tokens are bounded by an account (`TokensPaid`): an attempt pays for a claim and
a fault for a redrive with all its attempts; a claim runs ahead of its attempt
by one; and a delivery nobody holds is active only after a fault, because a
worker that leaves of its own accord has lost its claim or finds that its
handover was committed (`ConfirmedWaits`).

- `ChainsAreLines`: `Spec => [](~StaleDeadLetters => ChainInv)`;
- `ChainsWork`: `OneLineOfWork`, types and token bound included;
- `HandoversStand`: `ParentNotRegressed`.

### Flows: FlowExecutor_proofs

The first part is about the planner and the merge, for a sequence of steps of
any length. The recursive function of the planner has a solution
(`GroupStartsRecursion`, by the induction of `FoldTheorems`), and the groups it
gives are intervals whose steps are pairwise independent (`GroupShape`). Run
one after the other, the steps of such a group add to the state the values they
compute from the state the group began with (`StepByStep`); the merge of their
results gives the same state (`MergeOfGroup`), so that a group is its steps in
sequence (`GroupIsSequence`).

The second part is about the executor. `PlaceInvariant` says that only steps of
the group that is due are in flight, and that this group ends where the planner
ends it; `StateInvariant` that between groups the state is the one of the steps
so far; `TaskInvariant` that the snapshot of task ids taken at the start of a
group tells its tasks from all earlier ones.

- `FlowAlways`: `Spec => []FlowInvariant`, the three together;
- `GroupingUnobserved`: `SequentialResult` holds in the first pass of a body
  whose steps write fields of their own (`~Rewrites`) and declare what they read
  (`~HiddenReads`). Without the premise it is false: section 5;
- `FailuresSweep`: `Spec => []AbandonedTasksSwept`;
- `NothingAfterFailure`: `Spec => NoNodeAfterFailure`.

### Learning: LearningLoop_proofs

The chain: `ChainCorrect` is `Spec => []ChainInvariant`. The strengthening
`CallsSound` says of a rollback in progress that the content it carries is that
of a row on the chain, which stays true because the chain only grows
(`Extends`). `SeedsServe` adds what makes a chain every host seeds serve
(`SeedInvariant`): before the first row every host is at its seed, also after
an abort or a crash, a seed expects no head, and a row about to be promoted is
on the chain. Its only premise is that no fault hit the winning seed between
its two turns (`cutOff`, a history variable); section 5 has that one.
`LoopImplementsChain` shows that each step of the loop is a step of one caller
of the chain or leaves it alone, so that `LoopChainCorrect` and `LoopServes`
follow.

The records: `EngineSound` says that what the engine has seen is divided into
parked, ready, pending, acknowledged and refused, that the index of the parked
holds exactly what each waits for, and that who is ready lacks nothing. Between
the arrival of an interaction and the judgement of the reports that waited for
it the last two are false, so the invariant takes the set of reports still open
as a parameter; the fold over the waiting reports closes them one by one, and
that over the parked is shown not to change who is excused. A batch is bounded
by a count: `PaidFor` exhibits the set of places of the ready queue that the
batch has paid for, members of groups it admitted that are still to come
included, and keeps its cardinality within the slots reserved; a group of
several is charged in full when its first member is taken, which is why a
later member needs no slot. `StoreSound` relates log, cursor and page, and
`LoopSound` says that what is consumed or about to be was nominated.

- `LoopRecords`, `LoopFeedback`, `LoopBatches`: `RecordsInvariant`,
  `FeedbackAccounted` and `BatchesSound` are invariants of `LoopSpec`;
- `LoopConsumes`: so is `ConsumedNominated`.

### Sessions: RetainedSessions_proofs

First the mutations of the registry. Each keeps a snapshot `Sound`: admission
numbers are given once, each message is in a session that is there, a session
is active on the message that it runs and only then, what was asked to cancel
did not complete. And each `Advances` it: a message moves only along its life,
only the completion it belongs to ends a run otherwise than in
`outcome_unknown`, and a message stays with its session and leaves with it. Only
a new epoch `Fences` a run.

Then the hosts. Whose attempt may run a message is the question: an attempt
between its claim and the end of its run is a *holder*. `HostInvariant` says
that a message has at most one holder (`HoldersAlone`) and what a holder may
assume of the registry whatever happened since its claim (`HoldersFit`): the
message runs, or was fenced by a later epoch, or left with its session, and was
given to the agent once when the holder is past that point and never before.
It also says that a host drains as a whole (`Drained`): its attempts are all of
the epoch it owns, or all revoked and of earlier ones. One lemma per action
(`StepGood`) gives the invariant after it, the step of `SessionMail` it is, and
that it obeys cancellations.

- `HostsAlways`: `Spec => []HostInvariant`;
- `HostsKeepPromise`: `Spec => MailSpec`. A message runs at most once, and is
  confirmed as completed only when its agent ran;
- `CancellationIsFinal`: `Spec => CancellationFinal`;
- `SessionsRunAlone`: `Spec => []DrainedBeforeReplaced`;
- `BudgetIsHeld`: `Spec => []BudgetHeld`. All but a claim, which must fit, and
  the end of a run leave what is committed as it was (`Even`), tokens moved from
  reserved to unknown included; a run adds what it used beyond its reservation
  to both sides.

Then the books. `Books` is what `validateSnapshot` asks and what makes it
inductive: a message that waits never started and one that runs did
(`MessagesFit`), so that the end of a run is the first that adds to the usage of
its mailbox; every level of the tree is one below its parent (`Levelled`), so
that a disposal takes whole subtrees; and no more sessions are busy than may run
(`RoomKept`). Each mutation has a lemma. The end of a run adds its tokens to its
session and, as descendant usage, to the line of sessions it descends from and
to nobody else (`EndedBooks`): each of these has exactly one child on that line,
so each sum over children grows by as much. A disposal moves the sum over a
subtree to its parent, and what the subtree held reserved or unknown to the
charges of the root (`DisposedBooks`).

- `SnapshotsAlwaysValid`: `Spec => []SnapshotsValid`.

Last the schedule. `MailScheduled` says only that not every host may be idle
while a message waits that could be claimed; it is far from inductive, and
`Scheduled` says who is at work. A client host, with such a message, is
`Waking`: it recovers, or it has a queued job, an attempt or a delayed call
that will claim a message that may be claimed or look for one (`Carries`,
`Rouses`). Four facts keep that so. One host heads an epoch: it owns it, or has
fenced it and will take it over (`HeadsAlone`), so no mutation of another host
changes what may be claimed behind its back. What waits has a job of the
current epoch (`Current`), so the jobs that `scheduleReady` makes are not
dropped. A job that is stopped belongs to a message that no longer waits
(`StopsDead`), so a stop takes away nothing that is needed, however late. And a
recovery that drains has taken over what it fenced (`DrainsOwned`). The step
that needs the books is `scheduleReady`: if any message may be claimed, the
oldest idle session with mail may claim its own (`ReadyJobsWake`), because room
and tokens are the same for all; and it does not return early, because the flag
it tests says exactly what the books say. `Spawn`, and a `Send` to a busy
session, leave every other claim as it was (`SpawnedClaims`, `SentClaims`).

The invariant speaks of executions in which nothing was withdrawn, no wake-up
was lost and every takeover drained; the property excuses the others, and
section 5 says why each excuse is needed.

- `MailAlwaysScheduled`: `Spec => []MailScheduled`.

### Only model-checked

Every invariant, every action property without fairness and every refinement
that a passing run checks is a theorem. Liveness (`PublishSettles`, `DeliveriesSettle`,
`WorkPickedUp`, `CloseReturns`) is out of the prover's reach, as is everything
about `ENABLED`, and stays with TLC.

## 5. Where code and documentation part

Two runs are violations, quoted under `findings` in `PROJECT.json`.

`EventStore_repeated` violates `AcceptedOnce`: `enqueue` looks for a duplicate
before it waits for capacity and not after (`memoryStore.ts:103`, `:134`). Two
publishers of one event that both find the queue full both wait, and both are
accepted when room comes, where EVENT_RUNTIME.md:564 and `effects.test.ts:1457`
have one identity accepted once. The default is to wait (EVENT_RUNTIME.md:478). Without waiting (`PublishTimeout
= 0`) look and acceptance are one turn, and there is nothing to show.

`EventRuntime_leak`: a run that is cancelled or loses its claim between
`activeRuns.set` (`runtime.ts:1105`) and the handlers of the run stays
registered, with its heartbeat, although the test for a rejecting authority
resolver shows that runs are meant to be removed on every exit. `close` then uses up its deadline (`CloseReturns` still holds),
and `waitForIdle` does not return.

The other disagreements were met in modelling. Each is reached by another
instance of the same modules, or by a definition that states the claim and is
in no run's configuration: `LeaseNotRolledBack` and `AbortReachesEveryRun`
(`EventRuntime`), `NoOverlap` and `NoMailStranded` (`RetainedSessions`), and
`ConsumedNeverTrains` (`LearningLoop`) do not hold.

Queue:

- A redriven delivery keeps its old place in a strict lane, and may run beside
  a later one that was already claimed (`memoryStore.ts:1017`;
  EVENT_RUNTIME.md:481).
- A coalescing event that is smaller than the one it replaces frees bytes
  without notifying the publishers who wait for them
  (`memoryStore.ts:148-171`). With sizes 2 and 1 and a waiter of another lane,
  `NoLostWakeup` is violated.

Effects:

- After the completion of a target was cancelled or parked, redriving its
  sinks runs the target again (`runtime.ts:706`, `:2263`), and so does a crash
  between saving the run as parked or cancelled and saving its delivery
  (`runtime.ts:1514`; EVENT_RUNTIME.md:854 speaks of runs still finalizing
  only). `CompletedNotReinvoked` states the exception in its premise.
- With calls that the target left running, one declares an effect after the
  sweep before the sinks (`runtime.ts:1481`); the store rightly refuses to
  record success over it, and the retry calls the finished target again when it
  is one that is safe to retry.
- `parkCancelledEffects` parks intents and idempotent effects also
  (`runtime.ts:3201`), where EVENT_RUNTIME.md:605 says cancellation parks
  dispatched effects that are not idempotent.

Continuations:

- With `StaleDeadLetters = TRUE` and two faults `OneLineOfWork` is violated: a
  crash between `redriveDelivery` and `removeDeadLetter` (`runtime.ts:2475`)
  leaves a dead letter that can be redriven after its delivery has succeeded,
  and the chain becomes two.
- `registerContinuation` takes no fence, and each attempt registers under a new
  id (`runtime.ts:1342`), so a retry of a target that registered meets its own
  earlier key and fails until it is dead-lettered. The model has both;
  deliveries still end.
- A resume delivery that ends cancelled or fails its verification leaves its
  continuation open and bound to it, with nothing to redrive. An expired
  continuation keeps its key until somebody tries to answer it.

Runtime:

- `saveDelivery({...claimed})` (`runtime.ts:1249`) writes back the lease of the
  copy taken before the authority was awaited, and takes away what the
  heartbeat added meanwhile, against the comment at 1149-1150. The lease is
  only shortened: another worker may claim early, which the fencing covers.
- `abortOperations` aborts the runs of its moment. With a worker between its
  claim and the registration of its run, the observer is called with a live
  signal after `close` began to settle (EVENT_RUNTIME.md:637-638).
- Runs that `close` or a failed renewal aborts are saved as `cancelled`, which
  is final and has no dead letter, so nothing can be redriven.
- After such a save the lease may be over at once: the delivery is claimed again
  with another attempt counted, past `maxAttempts` if it repeats. A sleeping worker is not woken by new work before its timer. `close` of the
  in-memory store does not stop a call that is already past its check.

Flows:

- The merge of a group writes each step's copy of the whole state
  (`executor.ts:297`), so in the second pass of a loop the later step's old
  copy overwrites the result of the earlier one: with `Rewrites = TRUE` and
  `MaxIterations = 2` `SequentialResult` is violated.
- With `HiddenReads = TRUE` it is violated also: a mapping that reads the state
  both by name and as a whole is classified as safe
  (`dependencyAnalyzer.ts:72`).
- A task that a sibling starts after the sweep is not cancelled, nor is the
  task of a step that failed alone; the sweep also cancels tasks that another
  flow started on the same client (`mcp/execution.ts:234`).

Sessions:

- A cancel or a disposal frees room without scheduling the mail of other
  sessions (`retainedSessions.ts:1999-2054`), and a completion whose answer is
  lost schedules nothing (`:2575-2602`), so `NoMailStranded` fails (with one
  slot: dispose the session that runs while another waits); the mail waits for
  the next call. `MailScheduled` allows for exactly this.
- After a fence whose answer is lost, `recover` finds the epoch rotated and
  takes over without a drain (`:2693`), so a run of the old epoch may still be
  in the agent when the next one starts: `NoOverlap` fails, where
  `retainedSessions.test.ts:2234` expects a drain. `DrainedBeforeReplaced`
  allows for exactly this.
- The epoch that this recovery takes over is the one it reads, whoever fenced
  it: when another host recovered meanwhile, both own the same epoch
  (`ownedEpochs`, `:2694`) and both are served. A message queued at one of them
  is stranded when that one crashes, although the other is alive and owns the
  epoch. It takes four disturbances: a lost claim answer, a lost fence answer,
  the other recovery and the crash. Hence `unfenced` in `MailScheduled`; without
  it, the instance of `RetainedSessions` with `MaxDisturbances = 4` violates it.

Learning:

- An exchange that was consumed can train again: the engine remembers what it
  trained, but one that starts anew pages the whole log and does not ask what
  was consumed (`processor.ts:678`), where `memoryStore.ts:22` says that a
  consumed id can never train again.
- The cap on bytes defers part of a group (`processor.ts:906-914`), which the
  comment at 44 keeps together.
- When only protected records are left at the cap, a new interaction is evicted
  in the same turn, and the answer still says it was inserted.
- A crash between the append and the promotion of a seed (`releases.ts:289`)
  leaves a chain without a head until somebody promotes, although `seed` calls
  such a chain one that serves nothing (`:259`): the next `create` finds a row
  and seeds nothing. `SeededServes` excuses this fault (`cutOff`) and no other.
- The head a surface observes may go back to an earlier one when two of its
  reads are answered out of order (`releases.ts:130`).

## 6. Not modelled

Within the modelled parts:

- queue: `enqueueContinuation` (no caller in `src/ax`), byte-exact sizes,
  limits of policies other than `maxRuns`;
- runtime: targets, sinks, verifiers and effects inside the turns of
  `EventRuntime` (they are in `EventEffects` and `EventContinuations`, each
  with its own view of the worker), the start of sources and components,
  streams, routes that invalidate, authority as anything but an answer;
- flows: `branch`, `feedback`, explicit `parallel`, `map` with
  `parallel: true`, caching and tracing;
- sessions: `restore()` into another store domain, registration keys (every key
  is authorized), state and artifacts of a session, failures of the recovery
  job other than a lost fence answer, refusals of a scheduler's `enqueue` except
  after its close, admissions through a host that does not own the epoch, and a
  scheduler shared by several hosts;
- learning: scoring and gates, the rewriting of trees (`apply.ts`, `tree.ts`:
  functions of text), notes and pages of releases.

Of the other components nothing, for the reasons given in section 1 and in
`PROJECT.json`: parsing, prompts, providers and optimizers are sequential text
or numeric search, where a unit test says more than a state machine, and the
rest is planned.

## 7. Plan

In this order:

1. `MindChat` (`mind/chat.ts:608`): send, settle, append, reconcile by
   concurrent processes; one message per send, one reply per claim.
2. Payload staging of the SQLite store (`sqlite.ts:1362`): reserve, write and
   commit in two stores under a lease that may end.
3. The demand boundary, components, balancer and rate limiter, tool-call slots,
   speculation and the trajectory log, as far as they repay it.
4. Restore and shared schedulers in `RetainedSessions`; `branch` and explicit
   `parallel` in `FlowExecutor`.

Proofs: the safety of each new module, with the inductive invariant that TLC
checks first. Of the modules that exist, what remains is liveness.
