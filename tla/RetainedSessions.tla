-------------------------- MODULE RetainedSessions --------------------------
(***************************************************************************)
(* Retained agent sessions (src/ax/agent/retainedSessions.ts): hosts that  *)
(* share the registry of one root, each with the scheduler that runs its   *)
(* jobs.                                                                   *)
(*                                                                         *)
(* A mutation compares and sets the snapshot and is retried on a conflict, *)
(* so it is one step on the latest snapshot; what a host does before and   *)
(* after it are steps of their own.  A mutation that decides to skip saves *)
(* nothing: its decision rests on what was read, and is a step apart from  *)
(* the return of the dispatch.                                             *)
(*                                                                         *)
(* Clients act through the host that owns the epoch, the one that created  *)
(* or recovered the root (docs/RETAINED_CHILD_SESSIONS.md, "Lifecycle"):   *)
(* a handle of an earlier epoch is refused by assertParent and             *)
(* assertHandle.                                                           *)
(***************************************************************************)
EXTENDS SessionRegistry

CONSTANTS
  Hosts,      \* processes with an AxAgentSessionHost over the store
  Usages,     \* tokens that a run may report
  Modes,      \* how a message is sent
  Outcomes,   \* how a run may end
  MaxDisturbances   \* bound on what disturbs the normal course: recoveries,
                    \* cancels and disposals, crashes and closes, lost
                    \* answers, redeliveries, slow reads, delayed calls

ASSUME HostsAssumption ==
  /\ Hosts # {}
  /\ Modes \subseteq {"steer", "follow-up"}
  /\ Outcomes \subseteq {"completed", "failed"}
  /\ MaxDisturbances \in Nat

ASSUME UsagesAssumption == Usages \subseteq Nat

VARIABLES
  registry,   \* the saved snapshot of the root
  owned,      \* ownedEpochs: the epoch a host believes to own
  closed,     \* hosts that were closed
  queue,      \* the jobs in each host's scheduler
  attempts,   \* activeAttempts: per host, from job to attempt
  recovery,   \* where each host's recover() is
  calls,      \* per host, admitted calls that have yet to reach the scheduler
  disturbances,   \* so far
  forwards,   \* history: how often the agent was run on each message
  excuses,    \* history: mail withdrawn, or a wake-up lost
  overrun,    \* history: tokens reported in excess of reservations
  unfenced    \* history: a host took over an epoch without draining

hostVars == <<owned, closed, queue, attempts, recovery, calls>>
history == <<forwards, excuses, overrun, unfenced>>
vars == <<registry, hostVars, disturbances, history>>

Disturb(n) ==
  /\ disturbances + n <= MaxDisturbances
  /\ disturbances' = disturbances + n

Job(m, epoch) == [msg |-> m, epoch |-> epoch]
NoRecovery == [at |-> "idle", epoch |-> 0]
NoAttempts == [j \in {} |-> {}]

Init ==
  /\ registry = EmptyRegistry
  /\ \E h \in Hosts : owned = [g \in Hosts |-> IF g = h THEN 1 ELSE 0]
  /\ closed = {}
  /\ queue = [h \in Hosts |-> {}]
  /\ attempts = [h \in Hosts |-> NoAttempts]
  /\ recovery = [h \in Hosts |-> NoRecovery]
  /\ calls = [h \in Hosts |-> {}]
  /\ disturbances = 0
  /\ forwards = [m \in Ids |-> 0]
  /\ excuses = {}
  /\ overrun = 0
  /\ unfenced = FALSE
-----------------------------------------------------------------------------
(* The scheduler.  A closed one refuses jobs, and enqueueSafely swallows   *)
(* the refusal.                                                            *)
Enqueued(h, jobs) == IF h \in closed THEN queue[h] ELSE queue[h] \cup jobs

(* scheduleReady: the next message of each idle session, oldest session    *)
(* first, as far as there is room.                                         *)
ReadyJobs(h, r, epoch) ==
  LET ready == {s \in Sessions(r) \ Busy(r) : Pending(r, s) # {}}
      room == MaxConcurrency - Cardinality(Busy(r))
      first == {s \in ready : Cardinality({t \in ready : t < s}) < room}
  IN  IF h \in closed \/ owned[h] # epoch \/ r.epoch # epoch
         \/ r.budget = "tokens"
      THEN {}
      ELSE {Job(m, r.mail[m].job) : m \in {NextPending(r, s) : s \in first}}

(* cancelScheduledJob: the active attempt is aborted, the queued job goes. *)
Aborted(f, jobs) ==
  [j \in DOMAIN f |-> IF j \in jobs THEN [f[j] EXCEPT !.aborted = TRUE] ELSE f[j]]

Without(f, j) == [i \in DOMAIN f \ {j} |-> f[i]]

JobsOf(M) == {Job(m, registry.mail[m].job) : m \in M}

(* What a call does after its mutation: stop jobs, enqueue one, schedule   *)
(* what is ready at its epoch.  It follows at once, or is delayed: by an   *)
(* event callback, or until the event runtime has stored its continuation. *)
Call(stop, enqueue, ready) ==
  [stop |-> stop, enqueue |-> enqueue, ready |-> ready]

Perform(h, call) ==
  /\ attempts' = [attempts EXCEPT ![h] = Aborted(@, call.stop)]
  /\ queue' = [queue EXCEPT
       ![h] = Enqueued(h, call.enqueue \cup
                          ReadyJobs(h, registry', call.ready)) \ call.stop]

Follow(h, call, cost) ==
  \/ Perform(h, call) /\ Disturb(cost) /\ UNCHANGED calls
  \/ /\ Disturb(cost + 1)
     /\ calls' = [calls EXCEPT ![h] = @ \cup {call}]
     /\ UNCHANGED <<attempts, queue>>

Client(h) == h \notin closed /\ owned[h] = registry.epoch
-----------------------------------------------------------------------------
(* The operations of a client.                                             *)
Spawn(h) ==
  /\ Client(h)
  /\ \E p \in Sessions(registry) \cup {Root} :
       /\ MayAdmitChild(registry, p)
       /\ registry' = Reconciled(Spawned(registry, p))
  /\ Follow(h, Call({}, {Job(registry'.admittedSubcalls, registry.epoch)}, 0), 0)
  /\ UNCHANGED <<owned, closed, recovery, history>>

Send(h) ==
  /\ Client(h)
  /\ \E s \in Sessions(registry), mode \in Modes :
       LET active == registry.session[s].active IN
       /\ MaySend(registry, s)
       /\ registry' = Reconciled(Sent(registry, s, mode))
       /\ IF active = NoMessage
          THEN Follow(h, Call({}, {}, registry.epoch), 0)
          ELSE IF mode = "steer" THEN Follow(h, Call(JobsOf({active}), {}, 0), 0)
          ELSE UNCHANGED <<queue, attempts, calls, disturbances>>
  /\ UNCHANGED <<owned, closed, recovery, history>>

(* cancel() of a session, cancel() of the root, or the root's abort signal.*)
Cancel(h) ==
  /\ Client(h)
  /\ \E target \in Sessions(registry) \cup {Root} :
       /\ target = Root => registry.status # "cancelled"
       /\ registry' = Reconciled(CancelledUnder(registry, target))
       /\ Follow(h, Call(
            JobsOf({m \in InStatus(registry, "pending")
                          \cup InStatus(registry, "running") :
                      registry.mail[m].session \in Under(registry, target)}),
            {}, 0), 1)
  /\ excuses' = excuses \cup {"withdrawn"}
  /\ UNCHANGED <<owned, closed, recovery, forwards, overrun, unfenced>>

Dispose(h) ==
  /\ Client(h)
  /\ \E target \in Sessions(registry) :
       /\ registry' = Reconciled(Disposed(registry, target))
       /\ Follow(h, Call(
            JobsOf({m \in DOMAIN registry.mail :
                      registry.mail[m].session \in Under(registry, target)}),
            {}, 0), 1)
  /\ excuses' = excuses \cup {"withdrawn"}
  /\ UNCHANGED <<owned, closed, recovery, forwards, overrun, unfenced>>

(* The rest of a delayed call.                                             *)
Schedule(h) ==
  /\ UNCHANGED registry
  /\ \E call \in calls[h] :
       /\ calls' = [calls EXCEPT ![h] = @ \ {call}]
       /\ Perform(h, call)
  /\ UNCHANGED <<owned, closed, recovery, disturbances, history>>
-----------------------------------------------------------------------------
(* The attempts that a recovery of the host waits for.                     *)
Draining(h) == \E j \in DOMAIN attempts[h] : attempts[h][j].revoked

SetAttempt(h, j, attempt) ==
  attempts' = [attempts EXCEPT ![h] = With(@, j, attempt)]

(* dispatch: a job of another epoch is dropped, one whose twin is being    *)
(* dispatched too, and the rest waits for a drain.  What is left reads the *)
(* registry, and claims or skips; a slow store answers later.              *)
NewAttempt(at, s) ==
  [at |-> at, aborted |-> FALSE, revoked |-> FALSE, session |-> s,
   stop |-> {}]

Drop(h) ==
  /\ h \notin closed
  /\ \E j \in queue[h] :
       /\ \/ owned[h] # j.epoch
          \/ j \in DOMAIN attempts[h] /\ ~Draining(h)
       /\ queue' = [queue EXCEPT ![h] = @ \ {j}]
       /\ excuses' = IF owned[h] = j.epoch THEN excuses \cup {"lost"}
                     ELSE excuses
  /\ UNCHANGED <<registry, owned, closed, attempts, recovery, calls, disturbances,
                 forwards, overrun, unfenced>>

Dispatchable(h, j) ==
  /\ h \notin closed /\ owned[h] = j.epoch
  /\ j \notin DOMAIN attempts[h] /\ ~Draining(h)

ClaimOrSkip(h, j) ==
  LET s == registry.mail[j.msg].session IN
  IF MayClaim(registry, j.msg, j.epoch)
  THEN /\ registry' = Reconciled(Claimed(registry, j.msg))
       /\ attempts' = [attempts EXCEPT
            ![h] = With(Without(@, j), j,
                        [(IF j \in DOMAIN @ THEN @[j]
                          ELSE NewAttempt("claimed", s)) EXCEPT
                           !.at = "claimed", !.session = s])]
  ELSE /\ attempts' = [attempts EXCEPT ![h] = Without(@, j)]
       /\ UNCHANGED registry

(* A job leaves the queue when it is delivered, or is delivered again.     *)
Dispatch(h) ==
  /\ \E j \in queue[h] :
       /\ Dispatchable(h, j)
       /\ ClaimOrSkip(h, j)
       /\ \/ queue' = [queue EXCEPT ![h] = @ \ {j}] /\ UNCHANGED disturbances
          \/ Disturb(1) /\ UNCHANGED queue
  /\ UNCHANGED <<owned, closed, recovery, calls, history>>

DispatchSlowly(h) ==
  /\ Disturb(1)
  /\ \E j \in queue[h] :
       /\ Dispatchable(h, j)
       /\ queue' = [queue EXCEPT ![h] = @ \ {j}]
       /\ \E at \in {"dispatched"} \cup
              (IF MayClaim(registry, j.msg, j.epoch) THEN {} ELSE {"skipped"}) :
            SetAttempt(h, j, NewAttempt(at, 0))
  /\ UNCHANGED <<registry, owned, closed, recovery, calls, history>>

(* The answer of the slow store: what a claim rests on is confirmed by its *)
(* compare-and-set, what a skip rests on is what was read.                 *)
AnswerLate(h) ==
  /\ \E j \in DOMAIN attempts[h] :
       \/ attempts[h][j].at = "dispatched" /\ ClaimOrSkip(h, j)
       \/ /\ attempts[h][j].at = "skipped"
          /\ attempts' = [attempts EXCEPT ![h] = Without(@, j)]
          /\ UNCHANGED registry
  /\ UNCHANGED <<owned, closed, queue, recovery, calls, disturbances, history>>

(* The agent runs, unless the attempt was aborted while 'running' was      *)
(* published.                                                              *)
Forward(h) ==
  /\ \E j \in DOMAIN attempts[h] :
       /\ attempts[h][j].at = "claimed" /\ ~attempts[h][j].aborted
       /\ SetAttempt(h, j, [attempts[h][j] EXCEPT !.at = "forwarding"])
       /\ forwards' = [forwards EXCEPT ![j.msg] = @ + 1]
  /\ UNCHANGED <<registry, owned, closed, queue, recovery, calls, disturbances,
                 excuses, overrun, unfenced>>

(* A run, or what kept it from starting, ends: its outcome is saved if the *)
(* registry still has it running at the epoch of the job.                  *)
StillRunning(j) ==
  /\ registry.epoch = j.epoch
  /\ j.msg \in InStatus(registry, "running")

(* Wrong: a run is discarded only when this host aborted it.               *)
SaveUnlessAborted(attempt, m, outcome, tokens) ==
  /\ registry' = Reconciled(Settled(registry, m,
        IF attempt.aborted THEN "cancelled" ELSE outcome, tokens))
  /\ overrun' = overrun + Max({0, tokens - MaxTokensPerMessage})

(* A run that was asked to cancel, or aborted, is discarded.               *)
Save(attempt, m, outcome, tokens) ==
  LET discarded == registry.mail[m].cancel \/ attempt.aborted
      result == IF discarded THEN "cancelled" ELSE outcome
  IN  /\ registry' = Reconciled(Settled(registry, m, result, tokens))
      /\ overrun' = overrun + Max({0, tokens - MaxTokensPerMessage})

SaveOutcome(attempt, m) ==
  \/ attempt.at = "claimed" /\ Save(attempt, m, "failed", 0)
  \/ /\ attempt.at = "forwarding"
     /\ \E outcome \in Outcomes, tokens \in Usages :
          Save(attempt, m, outcome, tokens)

StopSettled(r, m) ==
  IF ~Exhausted(r) THEN {}
  ELSE JobsOf((InStatus(registry, "pending") \cup InStatus(registry, "running"))
              \ {m})

(* Wrong: nothing is scheduled after an outcome.                           *)
LeaveQuietly(h, j, stop) ==
  /\ attempts' = [attempts EXCEPT ![h] = Without(Aborted(@, stop), j)]
  /\ queue' = [queue EXCEPT ![h] = @ \ stop]

(* Its outcome was saved: stop what the budget no longer allows, then      *)
(* schedule what is ready.  An event callback may delay it.                *)
Leave(h, j, stop) ==
  /\ attempts' = [attempts EXCEPT ![h] = Without(Aborted(@, stop), j)]
  /\ queue' = [queue EXCEPT
       ![h] = Enqueued(h, ReadyJobs(h, registry', j.epoch)) \ stop]

Complete(h) ==
  /\ \E j \in DOMAIN attempts[h] :
       LET attempt == attempts[h][j] IN
       /\ attempt.at \in {"claimed", "forwarding"}
       /\ \/ /\ StillRunning(j)
             /\ SaveOutcome(attempt, j.msg)
             /\ LET stop == StopSettled(registry', j.msg) IN
                \/ Leave(h, j, stop) /\ UNCHANGED disturbances
                \/ /\ Disturb(1)
                   /\ SetAttempt(h, j, [attempt EXCEPT !.at = "settled",
                                                       !.stop = stop])
                   /\ UNCHANGED queue
          \/ /\ ~StillRunning(j)
             /\ attempts' = [attempts EXCEPT ![h] = Without(@, j)]
             /\ UNCHANGED <<registry, queue, disturbances, overrun>>
  /\ UNCHANGED <<owned, closed, recovery, calls, forwards, excuses, unfenced>>

Finish(h) ==
  /\ UNCHANGED registry
  /\ \E j \in DOMAIN attempts[h] :
       /\ attempts[h][j].at = "settled"
       /\ Leave(h, j, attempts[h][j].stop)
  /\ UNCHANGED <<owned, closed, recovery, calls, disturbances, history>>
-----------------------------------------------------------------------------
(* Recovery: fence the epoch, take it over, drain, and schedule.           *)
Fenced == Reconciled(Rotated(Interrupted(registry)))

SetRecovery(h, at, epoch) ==
  recovery' = [recovery EXCEPT ![h] = [at |-> at, epoch |-> epoch]]

Fence(h) ==
  /\ recovery[h].at \in {"idle", "asked"}
  /\ h \notin closed
  /\ Disturb(1)
  /\ registry' = Fenced
  /\ SetRecovery(h, "fenced", registry.epoch + 1)
  /\ UNCHANGED <<owned, closed, queue, attempts, calls, history>>

(* Wrong: the attempts of the old epoch are aborted and not waited for.    *)
TakeOverAtOnce(h) ==
  /\ recovery[h].at = "fenced"
  /\ owned' = [owned EXCEPT ![h] = recovery[h].epoch]
  /\ attempts' = [attempts EXCEPT ![h] = Aborted(@, DOMAIN @)]
  /\ SetRecovery(h, "draining", recovery[h].epoch)
  /\ UNCHANGED <<registry, closed, queue, calls, disturbances, history>>

(* beginRootDrain: every attempt of the host is aborted and waited for.    *)
Revoked(f) ==
  [j \in DOMAIN f |-> [f[j] EXCEPT !.aborted = TRUE, !.revoked = TRUE]]

TakeOver(h) ==
  /\ recovery[h].at = "fenced"
  /\ owned' = [owned EXCEPT ![h] = recovery[h].epoch]
  /\ attempts' = [attempts EXCEPT ![h] = Revoked(@)]
  /\ SetRecovery(h, "draining", recovery[h].epoch)
  /\ UNCHANGED <<registry, closed, queue, calls, disturbances, history>>

Resume(h) ==
  /\ recovery[h].at = "draining" /\ ~Draining(h)
  /\ queue' = [queue EXCEPT
       ![h] = Enqueued(h, ReadyJobs(h, registry, recovery[h].epoch))]
  /\ recovery' = [recovery EXCEPT ![h] = NoRecovery]
  /\ UNCHANGED <<registry, owned, closed, attempts, calls, disturbances, history>>
-----------------------------------------------------------------------------
(* Faults.                                                                 *)
(* The registry cannot be read for a claim: reconcileDispatchFailure       *)
(* enqueues the job again while its message is pending.                    *)
LoadFails(h) ==
  /\ Disturb(1)
  /\ \E j \in queue[h] :
       /\ Dispatchable(h, j)
       /\ queue' = IF registry.epoch = j.epoch
                      /\ j.msg \in InStatus(registry, "pending")
                   THEN queue ELSE [queue EXCEPT ![h] = @ \ {j}]
  /\ UNCHANGED <<registry, owned, closed, attempts, recovery, calls, history>>

(* The claim is saved but the host does not learn it: the orphan is        *)
(* fenced by a recovery.                                                   *)
ClaimAnswerLost(h) ==
  /\ Disturb(1)
  /\ recovery[h].at = "idle"
  /\ \E j \in queue[h] :
       /\ Dispatchable(h, j)
       /\ MayClaim(registry, j.msg, j.epoch)
       /\ registry' = Reconciled(Claimed(registry, j.msg))
       /\ queue' = [queue EXCEPT ![h] = @ \ {j}]
  /\ SetRecovery(h, "asked", 0)
  /\ UNCHANGED <<owned, closed, attempts, calls, history>>

(* So is the fence of that recovery: the job becomes a recovery job, and   *)
(* resumeRecoveryJob takes over the epoch it finds, without a drain.       *)
FenceAnswerLost(h) ==
  /\ Disturb(1)
  /\ recovery[h].at = "asked"
  /\ h \notin closed
  /\ registry' = Fenced
  /\ SetRecovery(h, "lost", 0)
  /\ UNCHANGED <<owned, closed, queue, attempts, calls, history>>

ResumeRecoveryJob(h) ==
  /\ recovery[h].at = "lost"
  /\ owned' = [owned EXCEPT ![h] = registry.epoch]
  /\ SetRecovery(h, "draining", registry.epoch)
  /\ unfenced' = TRUE
  /\ UNCHANGED <<registry, closed, queue, attempts, calls, disturbances,
                 forwards, excuses, overrun>>

(* The outcome is not saved, and the run is fenced by a recovery; or it is *)
(* saved but the host does not learn it, and does nothing more.            *)
CompletionLost(h) ==
  /\ Disturb(1)
  /\ \E j \in DOMAIN attempts[h] :
       /\ StillRunning(j)
       /\ attempts' = [attempts EXCEPT ![h] = Without(@, j)]
       /\ \/ /\ recovery[h].at = "idle" /\ h \notin closed
             /\ SetRecovery(h, "asked", 0)
             /\ UNCHANGED <<registry, excuses, overrun>>
          \/ /\ SaveOutcome(attempts[h][j], j.msg)
             /\ excuses' = excuses \cup {"lost"}
             /\ UNCHANGED recovery
  /\ UNCHANGED <<owned, closed, queue, calls, forwards, unfenced>>

(* The process of a host ends, and another starts with nothing.            *)
Crash(h) ==
  /\ Disturb(1)
  /\ owned' = [owned EXCEPT ![h] = 0]
  /\ closed' = closed \ {h}
  /\ queue' = [queue EXCEPT ![h] = {}]
  /\ attempts' = [attempts EXCEPT ![h] = NoAttempts]
  /\ recovery' = [recovery EXCEPT ![h] = NoRecovery]
  /\ calls' = [calls EXCEPT ![h] = {}]
  /\ UNCHANGED <<registry, history>>

(* close(): no further dispatch; what runs goes on, or is aborted.         *)
Close(h) ==
  /\ Disturb(1)
  /\ h \notin closed
  /\ closed' = closed \cup {h}
  /\ \E abort \in BOOLEAN :
       attempts' = IF abort
                   THEN [attempts EXCEPT ![h] = Aborted(@, DOMAIN @)]
                   ELSE attempts
  /\ UNCHANGED <<registry, owned, queue, recovery, calls, history>>
-----------------------------------------------------------------------------
ClientStep(h) == Spawn(h) \/ Send(h) \/ Cancel(h) \/ Dispose(h)

DispatchStep(h) ==
  \/ Drop(h) \/ Dispatch(h) \/ DispatchSlowly(h) \/ AnswerLate(h)
  \/ Forward(h) \/ Complete(h) \/ Finish(h)

HostStep(h) == Schedule(h) \/ Fence(h) \/ TakeOver(h) \/ Resume(h)

FaultStep(h) ==
  \/ LoadFails(h) \/ ClaimAnswerLost(h) \/ FenceAnswerLost(h)
  \/ CompletionLost(h)
  \/ ResumeRecoveryJob(h) \/ Crash(h) \/ Close(h)

Next ==
  \E h \in Hosts :
    ClientStep(h) \/ DispatchStep(h) \/ HostStep(h) \/ FaultStep(h)

Spec == Init /\ [][Next]_vars
-----------------------------------------------------------------------------
(* Properties.                                                             *)

(* Where a message is, for the promise of SessionMail.                     *)
Life ==
  [m \in Ids |->
    IF m \in DOMAIN registry.mail THEN registry.mail[m].status
    ELSE IF m <= registry.admittedSubcalls THEN "removed" ELSE "absent"]

Mail == INSTANCE SessionMail WITH life <- Life, runs <- forwards

(* The hosts keep the promise made of each message, whatever they share,   *)
(* lose and recover: it runs at most once, ends at most once, and is never *)
(* run again after a fence (recover, dispatchControlled).                  *)
MailSpec == Mail!MailSpec

(* Every snapshot that an operation saves passes validateSnapshot: counts, *)
(* reservations, usage of every subtree, charges of disposed sessions and  *)
(* the budget reconcile, so no operation is refused by its own check.      *)
SnapshotsValid == ValidSnapshot(registry)

(* What a root has spent, reserved and been charged exceeds its budget by  *)
(* no more than its runs reported in excess of their reservations: a       *)
(* crashed, fenced or disposed run stays charged (committedTokens,         *)
(* interruptRunning, dispose).                                             *)
BudgetHeld == Committed(registry) <= MaxTokens + overrun

(* A host never runs the agent of a session on two messages at once, not   *)
(* even when it recovers while a run of the old epoch is still unwinding:  *)
(* a drain comes before the first dispatch of the new epoch                *)
(* (beginRootDrain).                                                       *)
Overlapping ==
  \E h \in Hosts : \E i, j \in DOMAIN attempts[h] :
    /\ i # j
    /\ attempts[h][i].at = "forwarding" /\ attempts[h][j].at = "forwarding"
    /\ attempts[h][i].session = attempts[h][j].session

DrainedBeforeReplaced == Overlapping => unfenced

(* The same without an exception for a fence whose answer was lost.        *)
NoOverlap == ~Overlapping

(* A message that was asked to cancel, by a steer, a cancel or the budget, *)
(* is never confirmed as completed or failed, and once its root is         *)
(* cancelled nothing is pending or starts.                                 *)
CancellationFinal ==
  [][/\ \A m \in DOMAIN registry.mail \cap DOMAIN registry'.mail :
          registry.mail[m].cancel
            => registry'.mail[m].status \notin {"completed", "failed"}
     /\ registry.status = "cancelled"
          => /\ registry'.status = "cancelled"
             /\ InStatus(registry', "pending") = {}
             /\ InStatus(registry', "running")
                  \subseteq InStatus(registry, "running")]_vars

(* A pending message that could be claimed now at a host that is left with *)
(* nothing to do: no job, no attempt, no call to finish.                   *)
Stranded ==
  /\ \E h \in Hosts : Client(h)
  /\ \A h \in Hosts :
       /\ queue[h] = {} /\ attempts[h] = NoAttempts /\ calls[h] = {}
       /\ recovery[h].at = "idle"
  /\ \E m \in DOMAIN registry.mail : MayClaim(registry, m, registry.epoch)

(* While no work is withdrawn and no wake-up is dropped, mail that could   *)
(* run is always on its way: each completion, recovery and admission       *)
(* schedules what it made ready (scheduleReady).  After a fence whose      *)
(* answer was lost two hosts may own one epoch, and the mail queued at one *)
(* is stranded when that one crashes.                                      *)
MailScheduled == Stranded => excuses # {} \/ unfenced

(* The same when work is withdrawn: a cancel or a disposal does not leave  *)
(* the mail of others waiting for room that it freed.                      *)
NoMailStranded == Stranded => "lost" \in excuses \/ unfenced
=============================================================================
