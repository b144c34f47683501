-------------------------- MODULE SessionRegistry --------------------------
(***************************************************************************)
(* The registry of a root of retained agent sessions                       *)
(* (src/ax/agent/retainedSessions.ts): one snapshot that the store         *)
(* compares and sets as a whole.  This module is the mutations: operators  *)
(* from a snapshot to the snapshot that is saved.                          *)
(*                                                                         *)
(* A message is named by its admission number, a session by its first      *)
(* message.  Of usage the total number of tokens is kept; capabilities are *)
(* the epoch they are rotated with.  Inputs, results, state and artifacts  *)
(* are left out, and so are registration keys (every key is authorized).   *)
(***************************************************************************)
EXTENDS Integers, FiniteSets, FiniteSetsExt

CONSTANTS
  MaxChildren, MaxDepth, MaxConcurrency,     \* AxAgentSessionLimits
  MaxPendingMessages, MaxRetainedMessages,
  MaxTokens, MaxTokensPerMessage, MaxSubcalls

ASSUME LimitsAssumption ==
  /\ {MaxChildren, MaxDepth, MaxConcurrency, MaxPendingMessages,
      MaxRetainedMessages, MaxTokens, MaxTokensPerMessage, MaxSubcalls}
       \subseteq Nat \ {0}
  /\ MaxTokensPerMessage <= MaxTokens

Ids == 1..MaxSubcalls
Root == 0          \* the parent of the root's children
NoMessage == 0     \* no active message
NoUsage == -1      \* no confirmed usage

EmptyRegistry ==
  [epoch |-> 1, status |-> "active",
   session |-> [s \in {} |-> {}], mail |-> [m \in {} |-> {}],
   admittedChildren |-> 0, admittedSubcalls |-> 0, retiredSubcalls |-> 0,
   usage |-> 0, retiredUsage |-> 0,
   reserved |-> 0, unknown |-> 0, retiredUnknown |-> 0, budget |-> "none"]
-----------------------------------------------------------------------------
Sessions(r) == DOMAIN r.session
Mailbox(r, s) == {m \in DOMAIN r.mail : r.mail[m].session = s}
InStatus(r, status) == {m \in DOMAIN r.mail : r.mail[m].status = status}
Pending(r, s) == Mailbox(r, s) \cap InStatus(r, "pending")
Busy(r) == {s \in Sessions(r) : r.session[s].active # NoMessage}
Children(r, p) == {s \in Sessions(r) : r.session[s].parent = p}

(* A session with all that it admitted, directly or not.                   *)
Under(r, top) ==
  LET under[s \in Sessions(r)] ==
        LET p == r.session[s].parent
        IN  s = top \/ p = top \/ (p # Root /\ under[p])
  IN  {s \in Sessions(r) : under[s]}

(* A queued steer goes before every queued follow-up.                      *)
NextPending(r, s) ==
  LET steers == {m \in Pending(r, s) : r.mail[m].mode = "steer"}
  IN  Min(IF steers # {} THEN steers ELSE Pending(r, s))

Durable(r) == r.usage + r.unknown
Committed(r) == Durable(r) + r.reserved
Exhausted(r) == Durable(r) + MaxTokensPerMessage > MaxTokens

ExpectedBudget(r) ==
  IF Exhausted(r) THEN "tokens"
  ELSE IF r.admittedSubcalls >= MaxSubcalls THEN "subcalls" ELSE "none"

Reconciled(r) == [r EXCEPT !.budget = ExpectedBudget(r)]
-----------------------------------------------------------------------------
MayReserveSubcall(r) ==
  /\ ~(r.budget = "tokens" /\ Exhausted(r))
  /\ r.admittedSubcalls < MaxSubcalls

NewMessage(r, s, mode) ==
  [session |-> s, mode |-> mode, status |-> "pending", cancel |-> FALSE,
   job |-> r.epoch, started |-> FALSE, reserved |-> FALSE,
   usage |-> NoUsage]

With(f, x, value) ==
  [y \in DOMAIN f \cup {x} |-> IF y = x THEN value ELSE f[y]]

Depth(r, p) == IF p = Root THEN 0 ELSE r.session[p].depth

MayAdmitChild(r, p) ==
  /\ r.status # "cancelled"
  /\ p # Root => r.session[p].status \notin {"cancelling", "cancelled"}
  /\ Depth(r, p) < MaxDepth
  /\ r.admittedChildren < MaxChildren
  /\ MayReserveSubcall(r)

Spawned(r, p) ==
  LET s == r.admittedSubcalls + 1
  IN  [r EXCEPT
        !.admittedSubcalls = s,
        !.admittedChildren = @ + 1,
        !.session = With(@, s,
          [parent |-> p, depth |-> Depth(r, p) + 1, status |-> "queued",
           active |-> NoMessage, usage |-> 0, descendantUsage |-> 0,
           retired |-> 0]),
        !.mail = With(@, s, NewMessage(r, s, "follow-up"))]

MaySend(r, s) ==
  /\ r.status # "cancelled"
  /\ Cardinality(Pending(r, s)) < MaxPendingMessages
  /\ Cardinality(Mailbox(r, s)) < MaxRetainedMessages
  /\ MayReserveSubcall(r)

Sent(r, s, mode) ==
  LET m == r.admittedSubcalls + 1
      active == r.session[s].active
      mail == With(r.mail, m, NewMessage(r, s, mode))
      steers == mode = "steer" /\ active # NoMessage
  IN  [r EXCEPT
        !.admittedSubcalls = m,
        !.mail = IF steers THEN [mail EXCEPT ![active].cancel = TRUE]
                 ELSE mail,
        !.session[s].status = IF steers THEN "cancelling"
                              ELSE IF active = NoMessage THEN "queued"
                              ELSE @]
-----------------------------------------------------------------------------
(* cancelInSnapshot: everything under the target.                          *)
CancelledUnder(r, target) ==
  LET S == Under(r, target)
      hit(m) == r.mail[m].session \in S
  IN  [r EXCEPT
        !.status = IF target = Root THEN "cancelled" ELSE @,
        !.mail = [m \in DOMAIN @ |->
          IF ~hit(m) THEN @[m]
          ELSE IF @[m].status = "pending"
               THEN [@[m] EXCEPT !.status = "cancelled"]
          ELSE IF @[m].status = "running" THEN [@[m] EXCEPT !.cancel = TRUE]
          ELSE @[m]],
        !.session = [s \in DOMAIN @ |->
          IF s \notin S THEN @[s]
          ELSE [@[s] EXCEPT !.status = IF r.session[s].active # NoMessage
                                       THEN "cancelling" ELSE "cancelled"]]]

ReservedBy(r, M) ==
  MaxTokensPerMessage * Cardinality({m \in M : r.mail[m].reserved})

(* Wrong: what is unknown of a disposed session is charged but not retired.*)
DisposedInPart(r, target) ==
  LET S == Under(r, target)
      gone == {m \in DOMAIN r.mail : r.mail[m].session \in S}
      running == ReservedBy(r, gone \cap InStatus(r, "running"))
  IN  [r EXCEPT
        !.session = [s \in DOMAIN @ \ S |-> @[s]],
        !.mail = [m \in DOMAIN @ \ gone |-> @[m]],
        !.admittedChildren = @ - Cardinality(S),
        !.retiredSubcalls = @ + Cardinality(gone),
        !.reserved = @ - running,
        !.unknown = @ + running,
        !.retiredUnknown = @ + running]

(* dispose: the sessions leave, what they were charged stays.              *)
Disposed(r, target) ==
  LET S == Under(r, target)
      gone == {m \in DOMAIN r.mail : r.mail[m].session \in S}
      parent == r.session[target].parent
      spent == r.session[target].usage + r.session[target].descendantUsage
      running == ReservedBy(r, gone \cap InStatus(r, "running"))
      unknown == ReservedBy(r, gone \cap InStatus(r, "outcome_unknown"))
  IN  [r EXCEPT
        !.session = [s \in DOMAIN @ \ S |->
          IF s = parent
          THEN [r.session[s] EXCEPT !.retired = @ + spent]
          ELSE r.session[s]],
        !.mail = [m \in DOMAIN @ \ gone |-> @[m]],
        !.retiredUsage = IF parent = Root THEN @ + spent ELSE @,
        !.admittedChildren = @ - Cardinality(S),
        !.retiredSubcalls = @ + Cardinality(gone),
        !.reserved = @ - running,
        !.unknown = @ + running,
        !.retiredUnknown = @ + running + unknown]
-----------------------------------------------------------------------------
(* Wrong: a claim that counts what is spent, and not what is reserved.     *)
MayClaimUnreserved(r, m, epoch) ==
  /\ r.epoch = epoch
  /\ m \in DOMAIN r.mail
  /\ r.mail[m].status = "pending" /\ r.mail[m].job = epoch
  /\ r.session[r.mail[m].session].active = NoMessage
  /\ NextPending(r, r.mail[m].session) = m
  /\ Cardinality(Busy(r)) < MaxConcurrency
  /\ ~Exhausted(r)

(* dispatchControlled: the claim of a pending message.                     *)
MayClaim(r, m, epoch) ==
  /\ r.epoch = epoch
  /\ m \in DOMAIN r.mail
  /\ r.mail[m].status = "pending" /\ r.mail[m].job = epoch
  /\ r.session[r.mail[m].session].active = NoMessage
  /\ NextPending(r, r.mail[m].session) = m
  /\ Cardinality(Busy(r)) < MaxConcurrency
  /\ Committed(r) + MaxTokensPerMessage <= MaxTokens

Claimed(r, m) ==
  [r EXCEPT
    !.mail[m] = [@ EXCEPT !.status = "running", !.started = TRUE,
                          !.reserved = TRUE],
    !.reserved = @ + MaxTokensPerMessage,
    !.session[r.mail[m].session] = [@ EXCEPT !.active = m, !.status = "running"]]

(* What waits is cancelled, and what runs elsewhere is asked to stop, when *)
(* the confirmed tokens leave no room for another message.                 *)
StopExhausted(r) ==
  LET idle(s) == /\ r.session[s].active = NoMessage
                 /\ r.session[s].status = "queued"
  IN  [r EXCEPT
        !.mail = [m \in DOMAIN @ |->
          IF @[m].status = "pending"
          THEN [@[m] EXCEPT !.status = "cancelled"]
          ELSE IF @[m].status = "running" THEN [@[m] EXCEPT !.cancel = TRUE]
          ELSE @[m]],
        !.session = [s \in DOMAIN @ |->
          [r.session[s] EXCEPT !.status =
            IF r.session[s].active # NoMessage THEN "cancelling"
            ELSE IF idle(s) THEN "cancelled" ELSE @]]]

(* dispatchControlled: the completion of a running message.                *)
Settled(r, m, outcome, tokens) ==
  LET s == r.mail[m].session
      ended ==
        [r EXCEPT
          !.mail[m] = [@ EXCEPT !.status = outcome, !.reserved = FALSE,
                                !.usage = tokens],
          !.reserved = @ - MaxTokensPerMessage,
          !.usage = @ + tokens,
          !.session = [t \in DOMAIN @ |->
            IF t = s
            THEN [r.session[t] EXCEPT
                   !.active = NoMessage, !.usage = @ + tokens,
                   !.status = IF outcome # "cancelled" THEN outcome
                              ELSE IF Pending(r, s) # {} THEN "queued"
                              ELSE "cancelled"]
            ELSE IF s \in Under(r, t)
                 THEN [r.session[t] EXCEPT !.descendantUsage = @ + tokens]
            ELSE r.session[t]]]
  IN  IF Exhausted(ended) THEN StopExhausted(ended) ELSE ended
-----------------------------------------------------------------------------
(* Wrong: what a lost worker ran waits again.                              *)
Requeued(r) ==
  LET running == InStatus(r, "running")
  IN  [r EXCEPT
        !.mail = [m \in DOMAIN @ |->
          IF m \in running
          THEN [@[m] EXCEPT !.status = "pending", !.reserved = FALSE]
          ELSE @[m]],
        !.reserved = @ - ReservedBy(r, running),
        !.session = [s \in DOMAIN @ |-> [@[s] EXCEPT !.active = NoMessage]]]

(* interruptRunning: a recovery fences what a lost worker may have run.    *)
Interrupted(r) ==
  LET running == InStatus(r, "running")
      fenced ==
        [r EXCEPT
          !.mail = [m \in DOMAIN @ |->
            IF m \in running
            THEN [@[m] EXCEPT !.status = "outcome_unknown", !.cancel = FALSE]
            ELSE @[m]],
          !.reserved = @ - ReservedBy(r, running),
          !.unknown = @ + ReservedBy(r, running),
          !.session = [s \in DOMAIN @ |->
            IF Mailbox(r, s) \cap running = {} THEN @[s]
            ELSE [@[s] EXCEPT !.active = NoMessage,
                              !.status = "interrupted"]]]
      marked == [fenced EXCEPT !.status = "interrupted"]
  IN  IF running = {} \/ r.status = "cancelled" THEN fenced
      ELSE IF Committed(marked) + MaxTokensPerMessage > MaxTokens
           THEN StopExhausted(marked)
      ELSE marked

(* rotateExecutionAuthority: a new epoch, new jobs for what still waits.   *)
Rotated(r) ==
  [r EXCEPT
    !.epoch = @ + 1,
    !.mail = [m \in DOMAIN @ |->
      IF @[m].status = "pending" THEN [@[m] EXCEPT !.job = r.epoch + 1]
      ELSE @[m]]]
-----------------------------------------------------------------------------
(* validateSnapshot: what every mutation checks of the snapshot before it  *)
(* saves it.                                                               *)
Used(r, M) ==
  MapThenSumSet(LAMBDA m : r.mail[m].usage,
                {m \in M : r.mail[m].usage # NoUsage})

SubtreeUsage(r, p) ==
  MapThenSumSet(LAMBDA s : r.session[s].usage + r.session[s].descendantUsage,
                Children(r, p))

ValidSession(r, s) ==
  LET record == r.session[s]
      running == Mailbox(r, s) \cap InStatus(r, "running")
  IN  /\ record.parent \in Sessions(r) \cup {Root}
      /\ record.depth = Depth(r, record.parent) + 1
      /\ record.depth <= MaxDepth
      /\ Cardinality(Mailbox(r, s)) <= MaxRetainedMessages
      /\ Cardinality(Pending(r, s)) <= MaxPendingMessages
      /\ running = {record.active} \ {NoMessage}
      /\ running # {} <=> record.status \in {"running", "cancelling"}
      /\ record.usage = Used(r, Mailbox(r, s))
      /\ record.descendantUsage = record.retired + SubtreeUsage(r, s)

ValidMessage(r, m) ==
  LET message == r.mail[m]
  IN  /\ message.usage # NoUsage
           <=> \/ message.status \in {"completed", "failed"}
               \/ message.status = "cancelled" /\ message.started
      /\ message.reserved
           <=> message.status \in {"running", "outcome_unknown"}

ValidSnapshot(r) ==
  /\ r.admittedChildren = Cardinality(Sessions(r))
  /\ r.admittedChildren <= MaxChildren
  /\ \A s \in Sessions(r) : ValidSession(r, s)
  /\ \A m \in DOMAIN r.mail :
       r.mail[m].session \in Sessions(r) /\ ValidMessage(r, m)
  /\ r.admittedSubcalls = Cardinality(DOMAIN r.mail) + r.retiredSubcalls
  /\ r.admittedSubcalls <= MaxSubcalls
  /\ r.reserved = ReservedBy(r, InStatus(r, "running"))
  /\ r.unknown = r.retiredUnknown
                  + ReservedBy(r, InStatus(r, "outcome_unknown"))
  /\ Cardinality(InStatus(r, "running")) <= MaxConcurrency
  /\ r.usage = r.retiredUsage + SubtreeUsage(r, Root)
  /\ r.budget = ExpectedBudget(r)
=============================================================================
