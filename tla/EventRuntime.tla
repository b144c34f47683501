----------------------------- MODULE EventRuntime -----------------------------
(***************************************************************************)
(* AxEventRuntime (src/ax/event/runtime.ts) over the queue of EventStore:  *)
(* the worker loops with their waiting and sleeping, processDelivery with  *)
(* its heartbeat and the activeRuns it registers, publish() and redrive()  *)
(* through the barriers of the runtime, cancelRun(), and close().          *)
(*                                                                         *)
(* The routes have action 'observe': no target, no effects, no sinks and   *)
(* no continuations, which EventEffects and EventContinuations model.      *)
(*                                                                         *)
(* An action is one turn of the event loop: from the answer of an await to *)
(* the next one.  The store is in memory and answers at once, so time      *)
(* passes only when every worker waits for a timer or for host code, or    *)
(* while host code blocks the loop (Stall).  Every write of the queue is   *)
(* an action of EventStore, so that the runtime is one of its clients:     *)
(* Spec of EventStore is a property of this module.                        *)
(***************************************************************************)
EXTENDS EventStore

CONSTANTS
    HeartbeatTime,   \* heartbeatMs
    CloseTimeout,    \* timeoutMs of close()
    RetryDelay,      \* the back-off of a retry
    RetryLimit,      \* maxAttempts
    Authority,       \* whether the host configures an authority resolver
    MaxDisturbances  \* bound on the calls of cancelRun() and redrive() and the
                     \* stalls of the event loop, together

ASSUME RuntimeAssumption ==
    /\ HeartbeatTime \in 1 .. LeaseTime - 1
    /\ CloseTimeout \in Nat
    /\ PublishTimeout = 0
    /\ RetryDelay \in 0 .. MaxDelay /\ RetryLimit \in Nat
    /\ Authority \in BOOLEAN
    /\ MaxDisturbances \in Nat
    \* what EventStore lets its clients save covers what the runtime saves; an
    \* attempt is counted at most once per claim
    /\ {"succeeded", "cancelled", "dead_lettered"} \subseteq Outcomes
    /\ FALSE \in Invocations
    /\ MaxFencingToken <= MaxAttempts

VARIABLES
    worker,        \* progress of each workerLoop
    runs,          \* activeRuns with the heartbeats: partial, by run id
    finished,      \* ids of the runs saved as 'succeeded'
    deadLetters,   \* the dead letters: <<delivery, token of its last claim>>
    redrives,      \* progress of the calls of redrive(), by dead letter
    publishing,    \* calls of publish() inside the callbacks of the routes
    closer,        \* progress of close()
    disturbances

runtime == <<worker, runs, finished, deadLetters, redrives, publishing, closer, disturbances>>
allVars == <<vars, runtime>>

-----------------------------------------------------------------------------
(* State *)

NoDelivery == <<>>
RunIds == DeliveryIds \X (1 .. MaxFencingToken)

\* copy is the claimed record the worker goes on spreading into its saves;
\* left is what remains of its sleep.
Resting == [pc |-> "loop", delivery |-> NoDelivery, copy |-> Absent, left |-> 0]
AtWork(pc, d, copy) == [pc |-> pc, delivery |-> d, copy |-> copy, left |-> 0]

Closing == closer.phase # "open"
\* abortOperations() has run: workerController is aborted.
WorkersAborted == closer.phase \in {"settling", "closed"}
storeShutdownStarted == closer.phase = "closed"

\* A claim creates one run; a completion that is resumed keeps its run.
RunOf(w) == LET job == worker[w]
            IN  <<job.delivery, IF job.pc \in {"resume", "confirm"} THEN job.copy.run
                                ELSE job.copy.token>>
Aborted(w) == RunOf(w) \in DOMAIN runs /\ runs[RunOf(w)].aborted
\* assertRunActive throws.
RunStopped(w) == Aborted(w) \/ storeShutdownStarted
Holds(w) == ActiveClaim(worker[w].delivery, w, worker[w].copy.token)

\* The combined signal of heartbeatClaim.
BeatingAfterClose(r) == ~runs[r].aborted
Beating(r) == ~runs[r].aborted /\ ~WorkersAborted

AtHost == {"authority", "confirm", "body"}
Asleep == {"waiting", "sleeping", "stopped"}

-----------------------------------------------------------------------------
(* Helpers *)

Goto(w, pc) == worker' = [worker EXCEPT ![w].pc = pc]
Rest(w) == worker' = [worker EXCEPT ![w] = Resting]

\* notify(workWaiters), in the turn of the change that calls it.
Woken(workers) ==
    [w \in Workers |-> IF workers[w].pc = "waiting" THEN Resting ELSE workers[w]]

Track(r, w, token) ==
    runs' = [x \in DOMAIN runs \union {r} |->
                IF x = r THEN [worker |-> w, token |-> token,
                               beat |-> HeartbeatTime, aborted |-> FALSE]
                ELSE runs[x]]
\* controller.abort also ends the heartbeat.
Abort(run) == [run EXCEPT !.aborted = TRUE, !.beat = 0]
\* heartbeatController.abort, await heartbeat, activeRuns.delete
Untrack(w) == runs' = [x \in DOMAIN runs \ {RunOf(w)} |-> runs[x]]

\* saveDelivery({...claimed, ...}) under an active claim.
Save(w, record) == SaveDelivery(worker[w].delivery, record)
Attempt(w) == worker[w].copy.attempt + 1
Ended(w, status) ==
    [worker[w].copy EXCEPT !.status = status, !.attempt = Attempt(w), !.run = worker[w].copy.token]

\* What a turn of a worker leaves alone, by what it writes.
KeepStore == UNCHANGED vars
KeepRest == UNCHANGED <<deadLetters, redrives, publishing, closer, disturbances>>

\* The outer catch of processDelivery: nothing more is done for a runtime that
\* closes; otherwise the delivery is dead-lettered, if the claim still holds.
OuterCatch(w) ==
    IF ~WorkersAborted /\ Holds(w)
    THEN /\ Save(w, [worker[w].copy EXCEPT !.status = "dead_lettered"])
         /\ Goto(w, "lastLetter")
    ELSE KeepStore /\ Rest(w)

CleanUp(w) == Untrack(w) /\ OuterCatch(w)
\* A throw that no inner handler sees leaves the run and its heartbeat behind.
Leak(w) == UNCHANGED runs /\ OuterCatch(w)

\* The inner catch, up to its first await.
InnerCatch(w) ==
    \/ /\ storeShutdownStarted
       /\ Untrack(w) /\ Rest(w) /\ KeepStore
    \/ /\ ~storeShutdownStarted /\ Aborted(w)
       /\ Goto(w, "cancel") /\ KeepStore /\ UNCHANGED runs
    \/ /\ ~RunStopped(w) /\ Attempt(w) < RetryLimit
       /\ Goto(w, "retry") /\ KeepStore /\ UNCHANGED runs
    \/ /\ ~RunStopped(w) /\ Attempt(w) >= RetryLimit
       /\ IF Holds(w) THEN Goto(w, "bury") /\ KeepStore /\ UNCHANGED runs
          ELSE CleanUp(w)

-----------------------------------------------------------------------------
(* The loop of a worker *)

At(w, pc) == worker[w].pc = pc

\* store.claim(), in enqueue order; nothing to claim; a token that cannot
\* advance makes it throw, and the worker sleeps.
ClaimNext(w) ==
    /\ At(w, "loop") /\ ~WorkersAborted
    /\ LET claimable == {d \in DeliveryIds : Claimable(d)}
           d == First(claimable)
       IN  \/ /\ Claim(w, LeaseTime)
              /\ worker' = [worker EXCEPT ![w] = AtWork("claimed", d, deliveries'[d])]
           \/ /\ claimable = {} /\ KeepStore /\ Goto(w, "look")
           \/ /\ claimable # {} /\ ~CanAdvance(d) /\ KeepStore
              /\ worker' = [worker EXCEPT ![w].pc = "sleeping", ![w].left = 1]
    /\ UNCHANGED <<runs, finished>> /\ KeepRest

\* nextAvailableAt: when the next queued delivery is due, or a lease ends.  What
\* is due and cannot be claimed is looked at again after a timer of no time,
\* which other work may hold up.
Due == {IF deliveries[d].status = "queued" THEN deliveries[d].delay ELSE deliveries[d].lease :
            d \in {e \in DeliveryIds : IsLive(e)}}
LookAhead(w) ==
    /\ At(w, "look")
    /\ IF Due = {} THEN Goto(w, "register")
       ELSE \E left \in IF Min(Due) <= 0 THEN {0, 1} ELSE {Min(Due)} :
               worker' = [worker EXCEPT ![w].pc = "sleeping", ![w].left = left]
    /\ UNCHANGED <<runs, finished>> /\ KeepStore /\ KeepRest

\* waitForWork looks again before it registers its waiter.
RegisterBlindly(w) ==
    /\ At(w, "register")
    /\ Goto(w, "waiting")
    /\ UNCHANGED <<runs, finished>> /\ KeepStore /\ KeepRest
Register(w) ==
    /\ At(w, "register")
    /\ IF WorkersAborted \/ Due # {} THEN Rest(w) ELSE Goto(w, "waiting")
    /\ UNCHANGED <<runs, finished>> /\ KeepStore /\ KeepRest

SleepEnds(w) ==
    /\ At(w, "sleeping") /\ worker[w].left = 0
    /\ Rest(w)
    /\ UNCHANGED <<runs, finished>> /\ KeepStore /\ KeepRest

\* The worker controller is aborted: the loop ends, and so does a sleep.
Stop(w) ==
    /\ worker[w].pc \in {"loop", "waiting", "sleeping"} /\ WorkersAborted
    /\ worker' = [worker EXCEPT ![w] = [Resting EXCEPT !.pc = "stopped"]]
    /\ UNCHANGED <<runs, finished>> /\ KeepStore /\ KeepRest

-----------------------------------------------------------------------------
(* processDelivery *)

\* deliveryRedriveBarriers
NoBarrier(d) == TRUE
Barrier(d) == \E letter \in DOMAIN redrives : redrives[letter] = "requeued" /\ letter[1] = d
PassesBarrier(d) == ~Barrier(d)

\* The barrier, the check of the worker's signal, and the lookup of the run
\* that a lost claim left behind.
Admit(w) ==
    /\ At(w, "claimed") /\ PassesBarrier(worker[w].delivery)
    /\ LET job == worker[w]
           persisted == <<job.delivery, job.copy.run>> \in finished
       IN  IF WorkersAborted THEN Rest(w)
           ELSE Goto(w, IF job.copy.recovered /\ persisted THEN "recover" ELSE "enter")
    /\ UNCHANGED <<runs, finished>> /\ KeepStore /\ KeepRest

\* resumePersistedCompletion has answered "no": activeRuns.set, the heartbeat,
\* and reconcileEffects.
Enter(w) ==
    /\ At(w, "enter")
    /\ Track(RunOf(w), w, worker[w].copy.token)
    /\ Goto(w, "reconcile")
    /\ UNCHANGED finished /\ KeepStore /\ KeepRest

Reconcile(w) ==
    /\ At(w, "reconcile")
    /\ IF RunStopped(w) THEN CleanUp(w)
       ELSE Goto(w, "refresh") /\ UNCHANGED runs /\ KeepStore
    /\ UNCHANGED finished /\ KeepRest

\* getDelivery after reconciliation: the copy is taken again if the claim
\* still holds.  assertRunActive is then called outside any handler.
Refresh(w) ==
    /\ At(w, "refresh")
    /\ \/ ~Holds(w) /\ CleanUp(w)
       \/ Holds(w) /\ RunStopped(w) /\ Leak(w)
       \/ /\ Holds(w) /\ ~RunStopped(w)
          /\ worker' = [worker EXCEPT ![w].copy = deliveries[worker[w].delivery],
                                      ![w].pc = "authority"]
          /\ UNCHANGED runs /\ KeepStore
    /\ UNCHANGED finished /\ KeepRest

\* The authority is known: the delivery is saved as running, from the copy.
Authorized(w) ==
    /\ At(w, "authority") /\ ~RunStopped(w) /\ ~(Authority /\ WorkersAborted)
    /\ IF Holds(w)
       THEN Save(w, Ended(w, "running")) /\ Goto(w, "begin") /\ UNCHANGED runs
       ELSE Leak(w)
    /\ UNCHANGED finished /\ KeepRest

\* The resolver rejects, or an abort wins over it: a run that was aborted is
\* cancelled, unless the store is already shut.
Unauthorized(w) ==
    /\ At(w, "authority")
    /\ IF Aborted(w) /\ ~storeShutdownStarted
       THEN Untrack(w) /\ Goto(w, "withdraw") /\ KeepStore
       ELSE CleanUp(w)
    /\ UNCHANGED finished /\ KeepRest
AuthorityRejects(w) == Authority /\ Unauthorized(w)
AuthorityAborted(w) ==
    /\ RunStopped(w) \/ (Authority /\ WorkersAborted)
    /\ Unauthorized(w)

\* saveRun and saveDelivery of a run cancelled before it began.
Withdraw(w) ==
    /\ At(w, "withdraw")
    /\ IF Holds(w) THEN Goto(w, "withdrawn") /\ KeepStore ELSE OuterCatch(w)
    /\ UNCHANGED <<runs, finished>> /\ KeepRest
Withdrawn(w) ==
    /\ At(w, "withdrawn")
    /\ IF Holds(w) THEN Save(w, Ended(w, "cancelled")) /\ Rest(w) ELSE OuterCatch(w)
    /\ UNCHANGED <<runs, finished>> /\ KeepRest

\* saveRun(running), still outside the handlers of the run.
Begin(w) ==
    /\ At(w, "begin")
    /\ IF RunStopped(w) \/ ~Holds(w) THEN Leak(w)
       ELSE Goto(w, "invoke") /\ UNCHANGED runs /\ KeepStore
    /\ UNCHANGED finished /\ KeepRest

\* authorizeEventOperation may refuse the run, and refuses an aborted one, if
\* there is an authority to ask; otherwise the observer of the route is called.
Invoke(w) ==
    /\ At(w, "invoke")
    /\ \/ Authority /\ InnerCatch(w)
       \/ ~(Authority /\ Aborted(w)) /\ Goto(w, "body") /\ UNCHANGED runs /\ KeepStore
    /\ UNCHANGED finished /\ KeepRest

ObserverReturns(w) ==
    /\ At(w, "body")
    /\ IF RunStopped(w) THEN InnerCatch(w)
       ELSE Goto(w, "complete") /\ UNCHANGED runs /\ KeepStore
    /\ UNCHANGED finished /\ KeepRest
ObserverThrows(w) ==
    /\ At(w, "body")
    /\ InnerCatch(w)
    /\ UNCHANGED finished /\ KeepRest

\* saveRun(succeeded), then saveDelivery(succeeded).
Complete(w) ==
    /\ At(w, "complete")
    /\ IF RunStopped(w) \/ ~Holds(w) THEN InnerCatch(w) /\ UNCHANGED finished
       ELSE /\ finished' = finished \union {RunOf(w)}
            /\ Goto(w, "finish") /\ UNCHANGED runs /\ KeepStore
    /\ KeepRest
Finish(w) ==
    /\ At(w, "finish")
    /\ IF RunStopped(w) \/ ~Holds(w) THEN InnerCatch(w)
       ELSE Save(w, Ended(w, "succeeded")) /\ Goto(w, "done") /\ UNCHANGED runs
    /\ UNCHANGED finished /\ KeepRest
Done(w) ==
    /\ At(w, "done")
    /\ IF RunStopped(w) THEN InnerCatch(w) ELSE Untrack(w) /\ Rest(w) /\ KeepStore
    /\ UNCHANGED finished /\ KeepRest

\* The branches of the inner catch after their first await.
Cancel(w) ==
    /\ At(w, "cancel")
    /\ \/ storeShutdownStarted /\ Untrack(w) /\ Rest(w) /\ KeepStore /\ UNCHANGED finished
       \/ ~storeShutdownStarted /\ ~Holds(w) /\ CleanUp(w) /\ UNCHANGED finished
       \/ /\ ~storeShutdownStarted /\ Holds(w)
          /\ finished' = finished \ {RunOf(w)}
          /\ Goto(w, "cancelled") /\ UNCHANGED runs /\ KeepStore
    /\ KeepRest
Retry(w) ==
    /\ At(w, "retry")
    /\ \/ storeShutdownStarted /\ Untrack(w) /\ Rest(w) /\ KeepStore
       \/ ~storeShutdownStarted /\ (Aborted(w) \/ ~Holds(w)) /\ CleanUp(w)
       \/ ~RunStopped(w) /\ Holds(w) /\ Goto(w, "requeue") /\ UNCHANGED runs /\ KeepStore
    /\ UNCHANGED finished /\ KeepRest

\* The last save of a run that did not succeed, the end of its finally block
\* and, for a retry, notify(workWaiters).
EndsWith(w, pc, status) ==
    /\ At(w, pc)
    /\ \/ storeShutdownStarted /\ Untrack(w) /\ Rest(w) /\ KeepStore
       \/ ~storeShutdownStarted /\ ~Holds(w) /\ CleanUp(w)
       \/ /\ ~storeShutdownStarted /\ Holds(w)
          /\ Save(w, [Ended(w, status) EXCEPT !.delay = IF status = "queued" THEN RetryDelay ELSE @])
          /\ IF status = "dead_lettered" THEN Goto(w, "letter") /\ UNCHANGED runs
             ELSE /\ Untrack(w)
                  /\ worker' = LET rested == [worker EXCEPT ![w] = Resting]
                               IN  IF status = "queued" THEN Woken(rested) ELSE rested
    /\ UNCHANGED finished /\ KeepRest
Cancelled(w) == EndsWith(w, "cancelled", "cancelled")
Requeue(w) == EndsWith(w, "requeue", "queued")
Bury(w) == EndsWith(w, "bury", "dead_lettered")

\* addDeadLetter after the delivery was saved as dead_lettered.
AddLetter(w) ==
    /\ worker[w].pc \in {"letter", "lastLetter"}
    /\ deadLetters' = IF storeShutdownStarted THEN deadLetters
                      ELSE deadLetters \union {<<worker[w].delivery, worker[w].copy.token>>}
    /\ IF At(w, "letter") THEN Untrack(w) ELSE UNCHANGED runs
    /\ Rest(w)
    /\ UNCHANGED <<finished, redrives, publishing, closer, disturbances>> /\ KeepStore

-----------------------------------------------------------------------------
(* resumePersistedCompletion *)

Recover(w) ==
    /\ At(w, "recover")
    /\ Track(<<worker[w].delivery, worker[w].copy.run>>, w, worker[w].copy.token)
    /\ Goto(w, "resume")
    /\ UNCHANGED finished /\ KeepStore /\ KeepRest
Resume(w) ==
    /\ At(w, "resume")
    /\ IF RunStopped(w) THEN CleanUp(w)
       ELSE Goto(w, "confirm") /\ UNCHANGED runs /\ KeepStore
    /\ UNCHANGED finished /\ KeepRest
Confirm(w) ==
    /\ At(w, "confirm")
    /\ ~RunStopped(w) /\ ~(Authority /\ WorkersAborted)
    /\ IF Holds(w)
       THEN Save(w, [worker[w].copy EXCEPT !.status = "succeeded"]) /\ Untrack(w) /\ Rest(w)
       ELSE CleanUp(w)
    /\ UNCHANGED finished /\ KeepRest
ConfirmFails(w) ==
    /\ At(w, "confirm")
    /\ CleanUp(w)
    /\ UNCHANGED finished /\ KeepRest
ConfirmRejects(w) == Authority /\ ConfirmFails(w)
ConfirmAborted(w) == (RunStopped(w) \/ (Authority /\ WorkersAborted)) /\ ConfirmFails(w)

-----------------------------------------------------------------------------
(* Heartbeats, cancellation, publish() and redrive() *)

\* heartbeatClaim: a renewal that fails aborts the run.
RenewsUnchecked(r) == RenewExpiredClaim(r[1], LeaseTime)
Renews(r) == ActiveClaim(r[1], runs[r].worker, runs[r].token) /\ RenewClaim(r[1], LeaseTime)
Heartbeat(r) ==
    /\ Beating(r) /\ runs[r].beat = 0
    /\ \/ Renews(r) /\ runs' = [runs EXCEPT ![r].beat = HeartbeatTime]
       \/ /\ ~ActiveClaim(r[1], runs[r].worker, runs[r].token)
          /\ runs' = [runs EXCEPT ![r] = Abort(@)] /\ KeepStore
    /\ UNCHANGED <<worker, finished>> /\ KeepRest

\* cancelRun() by a caller who read the run id from the delivery.
CancelRun(r) ==
    /\ deliveries[r[1]].run = r[2]
    /\ disturbances < MaxDisturbances /\ ~runs[r].aborted
    /\ runs' = [runs EXCEPT ![r] = Abort(@)]
    /\ disturbances' = disturbances + 1
    /\ UNCHANGED <<worker, finished, deadLetters, redrives, publishing, closer>>
    /\ KeepStore

KeepOthers == UNCHANGED <<runs, finished, closer, disturbances>>

\* publish() enters the callbacks of the routes, which may take any time.
BeginPublish(p) ==
    /\ ~Closing /\ publishers[p].pc = "idle" /\ p \notin publishing
    /\ publishing' = publishing \union {p}
    /\ UNCHANGED <<worker, deadLetters, redrives>> /\ KeepStore /\ KeepOthers

\* The callbacks have answered: enqueue, unless the runtime closes.
Enqueue(p) ==
    /\ p \in publishing
    /\ publishing' = publishing \ {p}
    /\ \/ Closing /\ KeepStore /\ UNCHANGED worker
       \/ /\ ~Closing
          /\ PublishKnown(p) \/ PublishRejected(p) \/ PublishAccepted(p)
          /\ worker' = IF publishers'[p].pc = "accepted" THEN Woken(worker) ELSE worker
    /\ UNCHANGED <<deadLetters, redrives>> /\ KeepOthers

BeginRedrive(letter) ==
    /\ AllowRedrive /\ ~Closing
    /\ letter \in deadLetters /\ letter \notin DOMAIN redrives
    /\ disturbances < MaxDisturbances /\ disturbances' = disturbances + 1
    /\ redrives' = [l \in DOMAIN redrives \union {letter} |->
                        IF l = letter THEN "lookup" ELSE redrives[l]]
    /\ UNCHANGED <<worker, runs, finished, deadLetters, publishing, closer>> /\ KeepStore

RedriveEnds(letter) ==
    redrives' = [l \in DOMAIN redrives \ {letter} |-> redrives[l]]

\* requeueDeadLetter behind its barrier, or an error that changes nothing.
RequeueDeadLetter(letter) ==
    /\ letter \in DOMAIN redrives /\ redrives[letter] = "lookup"
    /\ \/ /\ ~Closing /\ ~Barrier(letter[1]) /\ letter \in deadLetters
          /\ RedriveDelivery(letter[1], FALSE)
          /\ redrives' = [redrives EXCEPT ![letter] = "requeued"]
          /\ worker' = Woken(worker)
       \/ /\ \/ Closing \/ Barrier(letter[1]) \/ letter \notin deadLetters
             \/ deliveries[letter[1]].status \notin Terminal \/ ~CanAdvance(letter[1])
          /\ RedriveEnds(letter) /\ KeepStore /\ UNCHANGED worker
    /\ UNCHANGED <<deadLetters, publishing>> /\ KeepOthers

\* removeDeadLetter, and the end of the barrier.
RemoveDeadLetter(letter) ==
    /\ letter \in DOMAIN redrives /\ redrives[letter] = "requeued"
    /\ deadLetters' = deadLetters \ {letter}
    /\ RedriveEnds(letter)
    /\ UNCHANGED <<worker, publishing>> /\ KeepStore /\ KeepOthers

-----------------------------------------------------------------------------
(* close() *)

KeepWork == UNCHANGED <<worker, finished, deadLetters, redrives, publishing, disturbances>>

Close(drain) ==
    /\ ~Closing
    /\ closer' = [phase |-> "publishes", drain |-> drain, left |-> CloseTimeout]
    /\ UNCHANGED runs /\ KeepWork /\ KeepStore

\* waitForTrackedOperations(inFlightPublishes)
Publishing == publishing # {}
\* What waitForIdle waits for.
Idle == pendingDeliveries = 0 /\ DOMAIN runs = {}
WorkersDone == (\A w \in Workers : At(w, "stopped")) /\ DOMAIN redrives = {}

\* waitUntilCloseDeadline: the operation has settled, or the time is up.
SettledOnly(done) == done
SettledOrLate(done) == done \/ closer.left = 0

\* abortOperations
AbortOperations ==
    /\ closer' = [closer EXCEPT !.phase = "settling", !.drain = FALSE]
    /\ runs' = [r \in DOMAIN runs |-> Abort(runs[r])]

PublishesSettle ==
    /\ closer.phase = "publishes" /\ SettledOrLate(~Publishing)
    /\ IF closer.drain THEN closer' = [closer EXCEPT !.phase = "draining"] /\ UNCHANGED runs
       ELSE AbortOperations
    /\ KeepWork /\ KeepStore
Drained ==
    /\ closer.phase = "draining" /\ SettledOrLate(Idle)
    /\ AbortOperations
    /\ KeepWork /\ KeepStore
\* storeShutdownStarted; the close of the store takes no time.
Shutdown ==
    /\ closer.phase = "settling" /\ SettledOrLate(WorkersDone)
    /\ closer' = [closer EXCEPT !.phase = "closed", !.left = 0]
    /\ UNCHANGED runs /\ KeepWork /\ KeepStore

-----------------------------------------------------------------------------
(* Time *)

Down(n) == IF n > 0 THEN n - 1 ELSE 0

Pass ==
    /\ Tick
    /\ worker' = [w \in Workers |-> [worker[w] EXCEPT !.left = Down(@), !.copy.lease = Down(@)]]
    /\ runs' = [r \in DOMAIN runs |-> [runs[r] EXCEPT !.beat = Down(@)]]
    /\ closer' = [closer EXCEPT !.left = Down(@)]
    /\ UNCHANGED <<finished, deadLetters, redrives, publishing>>

HostRuns(w) == At(w, "body") \/ (Authority /\ worker[w].pc \in AtHost)
TimerDue ==
    \/ \E w \in Workers : At(w, "sleeping") /\ worker[w].left = 0
    \/ \E r \in DOMAIN runs : Beating(r) /\ runs[r].beat = 0
    \/ closer.phase \in {"publishes", "draining", "settling"} /\ closer.left = 0

\* Time passes once every continuation has run and no timer is due.
TimePasses ==
    /\ \A w \in Workers : worker[w].pc \in Asleep \/ HostRuns(w)
    /\ DOMAIN redrives = {}
    /\ ~TimerDue
    /\ Pass /\ UNCHANGED disturbances
\* Host code blocks the event loop: the timers that are due are late.
Stall ==
    /\ disturbances < MaxDisturbances /\ \E w \in Workers : HostRuns(w)
    /\ Pass /\ disturbances' = disturbances + 1

-----------------------------------------------------------------------------
(* Specification *)

RuntimeInit ==
    /\ Init
    /\ worker = [w \in Workers |-> Resting]
    /\ runs = [r \in {} |-> Resting]
    /\ finished = {} /\ deadLetters = {} /\ publishing = {}
    /\ redrives = [l \in {} |-> "lookup"]
    /\ closer = [phase |-> "open", drain |-> FALSE, left |-> 0]
    /\ disturbances = 0

Loop(w) == ClaimNext(w) \/ LookAhead(w) \/ Register(w) \/ SleepEnds(w) \/ Stop(w)
Process(w) ==
    \/ Admit(w) \/ Enter(w) \/ Reconcile(w) \/ Refresh(w) \/ AuthorityAborted(w)
    \/ Withdraw(w) \/ Withdrawn(w) \/ Begin(w) \/ Invoke(w)
    \/ Complete(w) \/ Finish(w) \/ Done(w)
    \/ Cancel(w) \/ Cancelled(w) \/ Retry(w) \/ Requeue(w) \/ Bury(w) \/ AddLetter(w)
    \/ Recover(w) \/ Resume(w) \/ ConfirmAborted(w)
Resolve(w) == Authorized(w) \/ Confirm(w)
Observe(w) ==
    ObserverReturns(w) \/ ObserverThrows(w) \/ AuthorityRejects(w) \/ ConfirmRejects(w)

RuntimeNext ==
    \/ \E w \in Workers : Loop(w) \/ Process(w) \/ Resolve(w) \/ Observe(w)
    \/ \E r \in DOMAIN runs : Heartbeat(r) \/ CancelRun(r)
    \/ \E p \in Publishers : BeginPublish(p) \/ Enqueue(p)
    \/ \E letter \in deadLetters : BeginRedrive(letter)
    \/ \E letter \in DOMAIN redrives : RequeueDeadLetter(letter) \/ RemoveDeadLetter(letter)
    \/ \E drain \in BOOLEAN : Close(drain)
    \/ PublishesSettle \/ Drained \/ Shutdown
    \/ TimePasses \/ Stall

RuntimeSpec == RuntimeInit /\ [][RuntimeNext]_allVars

\* Continuations run, timers fire and time passes.  Host code, that is
\* observers, resolvers and the callbacks of routes, may never answer.
RuntimeFairSpec ==
    /\ RuntimeSpec
    /\ \A w \in Workers :
          /\ WF_allVars(Loop(w) \/ Process(w))
          /\ ~Authority => WF_allVars(Resolve(w))
    /\ WF_allVars(\E r \in DOMAIN runs : Heartbeat(r))
    /\ WF_allVars(\E l \in DOMAIN redrives : RequeueDeadLetter(l) \/ RemoveDeadLetter(l))
    /\ WF_allVars(PublishesSettle \/ Drained \/ Shutdown)
    /\ WF_allVars(TimePasses)

-----------------------------------------------------------------------------
(* Properties *)

\* The runtime is one of the clients that EventStore allows: whatever its
\* workers, heartbeats, operators and shutdown do, every change of the queue is
\* a step of its specification, so that what is proved there holds here.  (This
\* is Spec, with the steps that change nothing in front, for TLC.)
StoreSpec == Init /\ [][UNCHANGED vars \/ Next]_vars

\* An event that is queued is claimed, however waiting, sleeping and notifying
\* of the workers interleave with publish(), retries and redrives: unless the
\* runtime closes, or host code never answers and keeps every worker busy.
WorkPickedUp ==
    \A d \in DeliveryIds :
        deliveries[d].status = "queued" ~>
            \/ deliveries[d].status # "queued"
            \/ Closing
            \/ \A w \in Workers : HostRuns(w)
            \/ \E e \in DeliveryIds : ~CanAdvance(e)

\* close() returns, although observers, resolvers, callbacks and publishers may
\* never answer and a leaked run may never let the runtime become idle.
CloseReturns == Closing ~> storeShutdownStarted

\* Once close() has returned, no worker, heartbeat, publisher or operator
\* writes to the queue any more: only a cancellation that had already begun is
\* still saved, and no lease is extended.
QuietAfterShutdown ==
    [][storeShutdownStarted =>
          \A d \in DeliveryIds :
              /\ deliveries'[d].status \in {deliveries[d].status, "cancelled"}
              /\ deliveries'[d].lease <= deliveries[d].lease]_allVars

\* While a worker processes a delivery under its claim no dead letter of the
\* delivery is listed: the barrier keeps a redriven delivery back until its
\* dead letter is gone.
RedriveInOrder ==
    \A w \in Workers :
        worker[w].pc \notin Asleep \union {"loop", "look", "register", "claimed"} /\ Holds(w)
        => \A letter \in deadLetters : letter[1] # worker[w].delivery

\* A run that is registered is one a worker is still on: otherwise cancelRun()
\* reaches nothing, waitForIdle() never returns and close() cannot drain.
RunsEnd ==
    \A r \in DOMAIN runs :
        LET w == runs[r].worker
        IN  worker[w].pc \notin Asleep \union {"loop", "look", "register"} /\ RunOf(w) = r

\* Saving the delivery never takes back a lease that the heartbeat extended.
LeaseNotRolledBack ==
    [][\A w \in Workers :
          At(w, "authority") /\ worker'[w].pc = "begin"
          => deliveries'[worker[w].delivery].lease >= deliveries[worker[w].delivery].lease]_allVars

\* close() aborts every run: none goes on to its observer with a live signal.
AbortReachesEveryRun ==
    [][\A w \in Workers :
          WorkersAborted /\ At(w, "invoke") /\ worker'[w].pc = "body" => Aborted(w)]_allVars

=============================================================================
