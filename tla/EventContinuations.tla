------------------------- MODULE EventContinuations -------------------------
(***************************************************************************)
(* One-shot continuations and verifier chains of the event runtime.        *)
(*                                                                         *)
(* A target may wait for an event: it registers a continuation under a     *)
(* correlation key, and a later delivery of a resume route is admitted to  *)
(* it.  A target with a verifier that rejects its output hands over to a   *)
(* child delivery, in one store transition that also closes the            *)
(* continuation the parent was admitted to and opens the child's.          *)
(*                                                                         *)
(* A delivery is <<root, n>>: <<root, 0>> was published, <<root, n>> is    *)
(* the child made by the n-th failed verification of the chain of root.    *)
(* All targets are idempotent (the ones of unknown retry safety stop at    *)
(* the first lost claim), all deliveries belong to one identity scope, and *)
(* lanes and capacity are left to EventStore.                              *)
(*                                                                         *)
(* Operators named for a mistake (AdmissibleAnyway, ConsumeByKey, ...) are *)
(* not part of the specification: each stands beside the definition that   *)
(* it would replace in faulty code, to test the properties.                *)
(***************************************************************************)
EXTENDS Naturals, FiniteSets

CONSTANTS
  Workers,      \* the worker loops of the runtime
  Wakes,        \* published deliveries of a wake route
  Resumes,      \* published deliveries of a resume route, under the task key
  TaskKey,      \* the correlation key the target waits on
  MaxRuns,      \* policy.maxRuns: verifications in one chain
  MaxAttempts,  \* options.maxAttempts: attempts at one delivery
  MaxFaults,    \* bound: lost claims, store errors, crashes and redrives
  StaleDeadLetters  \* whether removing a redriven dead letter may fail

ASSUME BoundsAssumption ==
  /\ MaxRuns \in Nat \ {0}
  /\ MaxAttempts \in Nat \ {0}
  /\ MaxFaults \in Nat
  /\ StaleDeadLetters \in BOOLEAN
  /\ Wakes \cap Resumes = {}

VARIABLES
  deliveries,     \* this.deliveries, with the status of the run they name
  open,           \* this.continuations
  keys,           \* this.continuationKeys
  admissions,     \* this.continuationAdmissions, as pairs
  expired,        \* the open continuations whose expiresAt has passed
  committed,      \* this.verifierTransitions: the fence of the request, or 0
  deadLetters,    \* this.deadLetters
  workers,        \* where each worker is in processDelivery
  faults,         \* faults so far
  consumers       \* history: who ended well with which continuation

vars == <<deliveries, open, keys, admissions, expired, committed, deadLetters,
          workers, faults, consumers>>
store == <<deliveries, open, keys, admissions, expired, committed, deadLetters,
           consumers>>
-----------------------------------------------------------------------------
Roots == Wakes \cup Resumes
Links == Roots \X (0..(MaxRuns - 1))
Child(d) == <<d[1], d[2] + 1>>
Keys == {TaskKey} \cup Links

(* The key of a verifier has a kind of its own ("ax.verifier").            *)
ASSUME KeysApart == TaskKey \notin Links

(* The token of a delivery moves with a claim or a redrive, so faults and  *)
(* attempts bound it.                                                      *)
MaxToken == (MaxFaults + 1) * (MaxAttempts + 1)

(* A task continuation has a random id, so one per run that registers; the *)
(* id of a verifier's continuation is made of the chain and the run.       *)
Task(d, token) == [kind |-> "task", by |-> d, run |-> token]
Verifier(d) == [kind |-> "verifier", by |-> d, run |-> 0]
None == [kind |-> "none", by |-> TaskKey, run |-> 0]
Continuations ==
  {Task(d, token) : d \in Links, token \in 1..MaxToken}
    \cup {Verifier(d) : d \in Links}

KeyOf(c) == IF c.kind = "task" THEN TaskKey ELSE c.by
CorrelationOf(d) == IF d[2] = 0 THEN TaskKey ELSE d
IsResume(d) == d[2] > 0 \/ d[1] \in Resumes

Active == {"claimed", "running"}
Live == Active \cup {"queued"}
Ended == {"succeeded", "waiting_event", "verification_failed", "cancelled",
          "dead_lettered"}
RunStatus == {"none", "running", "waiting_event", "finalizing", "failed"}

Delivery == [status : Live \cup Ended \cup {"absent"}, token : 0..MaxToken,
             attempt : 0..MaxAttempts + MaxFaults, lease : BOOLEAN,
             recovered : BOOLEAN, admitted : Continuations \cup {None},
             run : RunStatus]
Fresh(status) == [status |-> status, token |-> 0, attempt |-> 0,
                  lease |-> FALSE, recovered |-> FALSE, admitted |-> None,
                  run |-> "none"]

Steps == {"idle", "claimed", "invoking", "target", "registering", "waiting",
          "finalizing", "completing", "recovering", "committing",
          "confirming", "exhausted", "failing", "refused"}
Idle == [pc |-> "idle", delivery |-> <<>>, token |-> 0, tries |-> 0]

Holds(w, d) == workers[w].delivery = d /\ workers[w].token = deliveries[d].token

(* assertActiveClaim for the claim of a worker.                            *)
ActiveClaim(w) ==
  LET d == deliveries[workers[w].delivery] IN
  d.status \in Active /\ d.lease /\ d.token = workers[w].token

At(w, step) == workers[w].pc = step
Goto(w, step) == workers' = [workers EXCEPT ![w].pc = step]
Leave(w) == workers' = [workers EXCEPT ![w] = Idle]
Mine(w) == workers[w].delivery
Fault == faults < MaxFaults /\ faults' = faults + 1
-----------------------------------------------------------------------------
(* Store operations on continuations.                                      *)

(* completeContinuationNow: closes c and frees its key, whoever owns it.   *)
CompleteContinuation(c) ==
  IF c \notin open THEN UNCHANGED <<open, keys, admissions, expired>>
  ELSE /\ open' = open \ {c}
       /\ keys' = [keys EXCEPT ![KeyOf(c)] = None]
       /\ admissions' = {a \in admissions : a[1] # c}
       /\ expired' = expired \ {c}

ConsumeByKey(c) ==
  /\ open' = open \ {c}
  /\ keys' = [keys EXCEPT ![KeyOf(c)] = None]
  /\ admissions' = {a \in admissions : a[1] # c}
  /\ expired' = expired \ {c}

ConsumeUnexpired(c) ==
  IF c \in expired THEN UNCHANGED <<open, keys, admissions, expired>>
  ELSE ConsumeByKey(c)

(* The mutation block of saveDeliveryAndCompleteContinuation: a key goes   *)
(* only when it still names the admitted continuation.                     *)
ConsumeAdmitted(c) ==
  /\ open' = open \ {c}
  /\ keys' = [k \in Keys |-> IF keys[k] = c THEN None ELSE keys[k]]
  /\ admissions' = {a \in admissions : a[1] # c}
  /\ expired' = expired \ {c}

RegisterContinuation(c) ==
  /\ open' = open \cup {c}
  /\ keys' = [keys EXCEPT ![KeyOf(c)] = c]

BoundTo(c) == {a[2] : a \in {b \in admissions : b[1] = c}}

(* The status of an ended or requeued delivery, saved under the claim.     *)
SaveStatus(w, status, run) ==
  deliveries' = [deliveries EXCEPT ![Mine(w)].status = status,
                                   ![Mine(w)].run = run]
-----------------------------------------------------------------------------
(* Deliveries come and go.                                                 *)

Publish ==
  \E r \in Resumes :
    /\ deliveries[<<r, 0>>].status = "absent"
    /\ deliveries' = [deliveries EXCEPT ![<<r, 0>>] = Fresh("queued")]
    /\ UNCHANGED <<open, keys, admissions, expired, committed, deadLetters,
                   workers, faults, consumers>>

QueuedOnly(d) == deliveries[d].status = "queued"
Claimable(d) ==
  \/ deliveries[d].status = "queued"
  \/ deliveries[d].status \in Active /\ ~deliveries[d].lease

Claim(w) ==
  /\ At(w, "idle")
  /\ \E d \in Links :
       /\ Claimable(d)
       /\ deliveries' = [deliveries EXCEPT
            ![d].status = "claimed", ![d].token = @ + 1, ![d].lease = TRUE,
            ![d].recovered = @ \/ deliveries[d].status \in Active]
       /\ workers' = [workers EXCEPT ![w] =
            [Idle EXCEPT !.pc = "claimed", !.delivery = d,
                         !.token = deliveries[d].token + 1]]
  /\ UNCHANGED <<open, keys, admissions, expired, committed, deadLetters,
                 faults, consumers>>

(* The lease of a delivery nobody works on runs out; a fault when its      *)
(* worker is still there.                                                  *)
LeaseExpires(d) ==
  /\ deliveries[d].status \in Active /\ deliveries[d].lease
  /\ IF \E w \in Workers : Holds(w, d) THEN Fault ELSE UNCHANGED faults
  /\ deliveries' = [deliveries EXCEPT ![d].lease = FALSE]
  /\ UNCHANGED <<open, keys, admissions, expired, committed, deadLetters,
                 workers, consumers>>

Expire ==
  \E c \in open :
    /\ c.kind = "task" /\ c \notin expired
    /\ expired' = expired \cup {c}
    /\ UNCHANGED <<deliveries, open, keys, admissions, committed, deadLetters,
                   workers, faults, consumers>>

RedriveReleasing(d) ==
  /\ d \in deadLetters /\ deliveries[d].status \in Ended
  /\ Fault
  /\ deliveries' = [deliveries EXCEPT ![d] =
       [Fresh("queued") EXCEPT !.token = deliveries[d].token + 1]]
  /\ admissions' = {a \in admissions : a[2] # d}
  /\ deadLetters' = deadLetters \ {d}
  /\ UNCHANGED <<open, keys, expired, committed, workers, consumers>>

(* requeueDeadLetter: a new fence, no run, the admission kept; then the    *)
(* dead letter is removed, a second call that may fail.                    *)
Redrive(d) ==
  /\ d \in deadLetters /\ deliveries[d].status \in Ended
  /\ Fault
  /\ deliveries' = [deliveries EXCEPT
       ![d].status = "queued", ![d].token = @ + 1, ![d].attempt = 0,
       ![d].lease = FALSE, ![d].run = "none"]
  /\ \/ deadLetters' = deadLetters \ {d}
     \/ StaleDeadLetters /\ UNCHANGED deadLetters
  /\ UNCHANGED <<open, keys, admissions, expired, committed, workers,
                 consumers>>
-----------------------------------------------------------------------------
(* A worker in processDelivery.                                            *)

(* resumePersistedCompletion takes over a recovered delivery whose run was *)
(* finalizing; every other attempt starts a run of its own.                *)
Admitted(w) ==
  Goto(w, IF deliveries[Mine(w)].recovered
             /\ deliveries[Mine(w)].run = "finalizing"
          THEN "recovering" ELSE "invoking")

(* A wake needs no admission, and a delivery keeps the one it has.         *)
Proceed(w) ==
  LET d == Mine(w) IN
  /\ At(w, "claimed")
  /\ ~IsResume(d) \/ (ActiveClaim(w) /\ deliveries[d].admitted # None)
  /\ Admitted(w)
  /\ UNCHANGED <<store, faults>>

AdmissibleAnyway(d, c) == c \in open
Admissible(d, c) == BoundTo(c) \subseteq {d}

Admit(w) ==
  LET d == Mine(w)
      c == keys[CorrelationOf(d)] IN
  /\ At(w, "claimed") /\ IsResume(d)
  /\ ActiveClaim(w) /\ deliveries[d].admitted = None
  /\ c \in open /\ c \notin expired /\ Admissible(d, c)
  /\ admissions' = admissions \cup {<<c, d>>}
  /\ deliveries' = [deliveries EXCEPT ![d].admitted = c]
  /\ Admitted(w)
  /\ UNCHANGED <<open, keys, expired, committed, deadLetters, faults,
                 consumers>>

(* No continuation, an expired one, which this closes, or another's.       *)
AdmissionRefused(w) ==
  LET d == Mine(w)
      c == keys[CorrelationOf(d)] IN
  /\ At(w, "claimed") /\ IsResume(d)
  /\ ActiveClaim(w) /\ deliveries[d].admitted = None
  /\ \/ /\ c \notin open \/ (c \notin expired /\ ~Admissible(d, c))
        /\ UNCHANGED <<open, keys, admissions, expired>>
     \/ /\ c \in open /\ c \in expired
        /\ CompleteContinuation(c)
  /\ Goto(w, "refused")
  /\ UNCHANGED <<deliveries, committed, deadLetters, faults, consumers>>

(* Saves the delivery and a new run as running, and calls the target.      *)
Invoke(w) ==
  /\ At(w, "invoking") /\ ActiveClaim(w)
  /\ deliveries' = [deliveries EXCEPT
       ![Mine(w)].status = "running", ![Mine(w)].attempt = @ + 1,
       ![Mine(w)].run = "running"]
  /\ Goto(w, "target")
  /\ UNCHANGED <<open, keys, admissions, expired, committed, deadLetters,
                 faults, consumers>>

(* The target waits for an event, throws, or returns an output that is     *)
(* saved and then passes, fails or cannot be verified.  A failure at the   *)
(* last run exhausts the policy, as do its other limits, even before the   *)
(* target is called.                                                       *)
TargetEnds(w) ==
  /\ At(w, "target") /\ ActiveClaim(w)
  /\ \/ \E step \in {"registering", "failing", "finalizing", "exhausted"} :
          Goto(w, step)
     \/ /\ Mine(w)[2] + 1 < MaxRuns
        /\ Goto(w, "committing")
  /\ UNCHANGED <<store, faults>>

(* The registration carries no fence.                                      *)
Register(w) ==
  LET c == Task(Mine(w), workers[w].token) IN
  /\ At(w, "registering")
  /\ IF keys[TaskKey] \in {None, c}
     THEN RegisterContinuation(c) /\ Goto(w, "waiting")
     ELSE UNCHANGED <<open, keys>> /\ Goto(w, "failing")
  /\ UNCHANGED <<deliveries, admissions, expired, committed, deadLetters,
                 faults, consumers>>

SaveFinalizing(w) ==
  /\ At(w, "finalizing") /\ ActiveClaim(w)
  /\ deliveries' = [deliveries EXCEPT ![Mine(w)].run = "finalizing"]
  /\ Goto(w, "completing")
  /\ UNCHANGED <<open, keys, admissions, expired, committed, deadLetters,
                 faults, consumers>>

(* saveSuccessfulDelivery, after the run was saved.                        *)
Complete(w) ==
  LET d == Mine(w)
      c == deliveries[d].admitted IN
  /\ workers[w].pc \in {"waiting", "completing", "recovering"}
  /\ ActiveClaim(w)
  /\ BoundTo(c) \subseteq {d}
  /\ LET status == IF At(w, "waiting") THEN "waiting_event" ELSE "succeeded"
         run == IF At(w, "waiting") THEN "waiting_event" ELSE "finalizing"
     IN SaveStatus(w, status, run)
  /\ IF c = None
     THEN UNCHANGED <<open, keys, admissions, expired, consumers>>
     ELSE ConsumeAdmitted(c) /\ consumers' = consumers \cup {<<c, d>>}
  /\ Leave(w)
  /\ UNCHANGED <<committed, deadLetters, faults>>

(* A store error there leaves a resumed delivery active, for the recovery  *)
(* of its next claim; any other is retried, or refused when recovering.    *)
CompleteFails(w) ==
  /\ workers[w].pc \in {"waiting", "completing", "recovering"}
  /\ Fault
  /\ IF deliveries[Mine(w)].admitted # None THEN Leave(w)
     ELSE Goto(w, IF At(w, "recovering") THEN "refused" ELSE "failing")
  /\ UNCHANGED store

Exhaust(w) ==
  /\ At(w, "exhausted") /\ ActiveClaim(w)
  /\ SaveStatus(w, "verification_failed", "failed")
  /\ Leave(w)
  /\ UNCHANGED <<open, keys, admissions, expired, committed, deadLetters,
                 faults, consumers>>
-----------------------------------------------------------------------------
(* The verifier transition.                                                *)

Transitable(w) ==
  LET d == Mine(w)
      c == deliveries[d].admitted
      next == Verifier(Child(d)) IN
  /\ ActiveClaim(w)
  /\ c # None => <<c, d>> \in admissions /\ c \in open
  /\ deliveries[Child(d)].status = "absent"
  /\ keys[KeyOf(next)] \in {None, next}

(* One mutation: the parent ends, its continuation closes, the child's     *)
(* opens and the child is queued.                                          *)
TransitionVerifier(w) ==
  LET d == Mine(w)
      c == deliveries[d].admitted
      next == Verifier(Child(d)) IN
  /\ Transitable(w)
  /\ deliveries' = [deliveries EXCEPT
       ![d].status = "waiting_event", ![d].run = "waiting_event",
       ![Child(d)] = Fresh("queued")]
  /\ open' = (open \ {c}) \cup {next}
  /\ keys' = [k \in Keys |->
       IF k = KeyOf(next) THEN next
       ELSE IF c # None /\ k = KeyOf(c) THEN None ELSE keys[k]]
  /\ admissions' = {a \in admissions : a[1] # c}
  /\ expired' = expired \ {c}
  /\ committed' = [committed EXCEPT ![Child(d)] = workers[w].token]
  /\ consumers' = IF c = None THEN consumers ELSE consumers \cup {<<c, d>>}
  /\ UNCHANGED deadLetters

Tried(w) ==
  workers' = [workers EXCEPT ![w].pc = "confirming", ![w].tries = @ + 1]

CommitAcknowledged(w) ==
  /\ At(w, "committing")
  /\ TransitionVerifier(w)
  /\ Leave(w)
  /\ UNCHANGED faults

CommitUnacknowledged(w) ==
  /\ At(w, "committing")
  /\ TransitionVerifier(w)
  /\ Fault
  /\ Tried(w)

CommitFails(w) ==
  /\ At(w, "committing")
  /\ IF Transitable(w) THEN Fault ELSE UNCHANGED faults
  /\ Tried(w)
  /\ UNCHANGED store

(* After an error the runtime asks the store, tries once more, and asks    *)
(* again.  The record of another request makes the confirmation throw.     *)
Confirm(w) ==
  LET record == committed[Child(Mine(w))] IN
  /\ At(w, "confirming")
  /\ IF record = workers[w].token THEN Leave(w)
     ELSE IF record = 0 /\ workers[w].tries = 1 THEN Goto(w, "committing")
     ELSE Goto(w, "failing")
  /\ UNCHANGED <<store, faults>>
-----------------------------------------------------------------------------
(* Failures.                                                               *)

DeadLetter(w) ==
  /\ deliveries' = [deliveries EXCEPT ![Mine(w)].status = "dead_lettered"]
  /\ deadLetters' = deadLetters \cup {Mine(w)}

FailUnfenced(w) ==
  /\ At(w, "failing")
  /\ IF deliveries[Mine(w)].attempt < MaxAttempts
     THEN SaveStatus(w, "queued", "failed") /\ UNCHANGED deadLetters
     ELSE DeadLetter(w)
  /\ Leave(w)
  /\ UNCHANGED <<open, keys, admissions, expired, committed, faults,
                 consumers>>

FailAndComplete(w) ==
  /\ At(w, "failing") /\ ActiveClaim(w)
  /\ IF deliveries[Mine(w)].attempt < MaxAttempts
     THEN SaveStatus(w, "queued", "failed") /\ UNCHANGED deadLetters
     ELSE DeadLetter(w)
  /\ CompleteContinuation(deliveries[Mine(w)].admitted)
  /\ Leave(w)
  /\ UNCHANGED <<committed, faults, consumers>>

(* The catch block of a run: another attempt, or the dead letters.         *)
Fail(w) ==
  /\ At(w, "failing") /\ ActiveClaim(w)
  /\ IF deliveries[Mine(w)].attempt < MaxAttempts
     THEN SaveStatus(w, "queued", "failed") /\ UNCHANGED deadLetters
     ELSE DeadLetter(w)
  /\ Leave(w)
  /\ UNCHANGED <<open, keys, admissions, expired, committed, faults,
                 consumers>>

Refuse(w) ==
  /\ At(w, "refused") /\ ActiveClaim(w)
  /\ DeadLetter(w)
  /\ Leave(w)
  /\ UNCHANGED <<open, keys, admissions, expired, committed, faults,
                 consumers>>

(* cancelRun while a run is active.  The try block of the run meets the    *)
(* abort and saves a cancelled delivery, and so do the resolution of the   *)
(* authority before it and the catch block at its start.  In what else     *)
(* comes before that try block, in the catch block's reconciliation and in *)
(* the recovery of a completion the abort ends among the dead letters.     *)
Cancel(w) ==
  /\ workers[w].pc \notin {"idle", "claimed", "refused"}
  /\ ActiveClaim(w)
  /\ \/ /\ workers[w].pc \in {"invoking", "failing", "recovering"}
        /\ DeadLetter(w)
     \/ /\ workers[w].pc # "recovering"
        /\ SaveStatus(w, "cancelled", "failed") /\ UNCHANGED deadLetters
  /\ Leave(w)
  /\ UNCHANGED <<open, keys, admissions, expired, committed, faults,
                 consumers>>

(* A worker without its claim: every save throws, the catch block's too.   *)
Lost(w) ==
  /\ workers[w].pc \notin {"idle", "committing", "confirming"}
  /\ ~ActiveClaim(w)
  /\ Leave(w)
  /\ UNCHANGED <<store, faults>>

Crash(w) ==
  /\ ~At(w, "idle")
  /\ Fault
  /\ Leave(w)
  /\ UNCHANGED store
-----------------------------------------------------------------------------
Attempt(w) ==
  \/ Proceed(w) \/ Admit(w) \/ AdmissionRefused(w)
  \/ Invoke(w) \/ TargetEnds(w) \/ Register(w)
  \/ SaveFinalizing(w) \/ Complete(w) \/ CompleteFails(w) \/ Exhaust(w)
  \/ CommitAcknowledged(w) \/ CommitUnacknowledged(w) \/ CommitFails(w)
  \/ Confirm(w) \/ Fail(w) \/ Refuse(w) \/ Lost(w)

Init ==
  /\ deliveries = [d \in Links |->
       Fresh(IF d[1] \in Wakes /\ d[2] = 0 THEN "queued" ELSE "absent")]
  /\ open = {} /\ admissions = {} /\ expired = {} /\ deadLetters = {}
  /\ keys = [k \in Keys |-> None]
  /\ committed = [d \in Links |-> 0]
  /\ workers = [w \in Workers |-> Idle]
  /\ faults = 0
  /\ consumers = {}

Next ==
  \/ Publish \/ Expire
  \/ \E d \in Links : LeaseExpires(d) \/ Redrive(d)
  \/ \E w \in Workers : Claim(w) \/ Attempt(w) \/ Cancel(w) \/ Crash(w)

Spec == Init /\ [][Next]_vars

(* The loops claim while there is work, a run's promises settle, and the   *)
(* clock passes the lease of a delivery nobody renews.                     *)
Fairness ==
  /\ \A w \in Workers : WF_vars(Claim(w)) /\ WF_vars(Attempt(w))
  /\ \A d \in Links :
       WF_vars(LeaseExpires(d) /\ ~\E w \in Workers : Holds(w, d))
FairSpec == Spec /\ Fairness
-----------------------------------------------------------------------------
(* Properties.                                                             *)

(* Every variable has its type, and a delivery is within its attempts.     *)
TypeOK ==
  /\ deliveries \in [Links -> Delivery]
  /\ open \subseteq Continuations
  /\ keys \in [Keys -> Continuations \cup {None}]
  /\ admissions \subseteq Continuations \X Links
  /\ expired \subseteq open
  /\ committed \in [Links -> 0..MaxToken]
  /\ deadLetters \subseteq Links
  /\ \A w \in Workers : workers[w].pc \in Steps
  /\ faults \in 0..MaxFaults
  /\ consumers \subseteq Continuations \X Links

(* A continuation is consumed by one delivery, whatever is retried,        *)
(* redriven, expired or delivered twice: EVENT_RUNTIME.md promises that    *)
(* one continuation binds to only one delivery.                            *)
OneShot ==
  \A a, b \in consumers : a[1] = b[1] => a[2] = b[2]

(* The key index and the continuations agree: what is open can be found    *)
(* under its key, and no key is held by what is closed.  Closing an        *)
(* expired continuation late must not free the key of its replacement.     *)
KeysAgree ==
  /\ \A c \in open : keys[KeyOf(c)] = c
  /\ \A k \in Keys : keys[k] # None => keys[k] \in open /\ KeyOf(keys[k]) = k

(* An admission names an open continuation and the delivery whose record   *)
(* carries it; a delivery whose continuation is open still holds it.       *)
AdmissionsAgree ==
  /\ \A a \in admissions : a[1] \in open
  /\ \A c \in open, d \in Links :
    <<c, d>> \in admissions <=> deliveries[d].admitted = c

(* However continuations are closed, late, expired or replaced, the index  *)
(* of keys and the admissions keep naming the same open continuations.     *)
IndexesAgree == KeysAgree /\ AdmissionsAgree

(* A resumed delivery that ended well left nothing to resume again.        *)
ResumeConsumes ==
  \A d \in Links :
    deliveries[d].status \in {"succeeded", "waiting_event"}
      => deliveries[d].admitted \notin open

(* A verifier chain is one line of work: at most one of its deliveries is  *)
(* to be run, and that one finds the continuation its parent handed over.  *)
OneLiveLink ==
  \A root \in Roots :
    Cardinality({d \in Links : d[1] = root /\ deliveries[d].status \in Live})
      <= 1

LiveLinkResumable ==
  \A d \in Links :
    d[2] > 0 /\ deliveries[d].status \in Live => Verifier(d) \in open

(* The shape of a chain: well typed, one line, and each link resumable.    *)
OneLineOfWork == TypeOK /\ OneLiveLink /\ LiveLinkResumable

(* A committed handover stands: no lost acknowledgement, late worker or    *)
(* cancellation takes its parent out of waiting_event.                     *)
ParentNotRegressed ==
  [][\A d \in Links :
       d[2] > 0 /\ committed[d] # 0
         => deliveries'[<<d[1], d[2] - 1>>].status = "waiting_event"]_vars

(* The snapshot of the continuation a delivery was admitted to survives    *)
(* retries, recovery and redrives.                                         *)
BindingKept ==
  [][\A d \in Links :
       deliveries[d].admitted # None
         => deliveries'[d].admitted = deliveries[d].admitted]_vars

(* Every delivery is settled: no retry, confirmation or handover goes on   *)
(* for ever.                                                               *)
DeliveriesSettle ==
  \A d \in Links :
    deliveries[d].status \in Live ~> deliveries[d].status \in Ended
=============================================================================
