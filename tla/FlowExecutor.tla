----------------------------- MODULE FlowExecutor -----------------------------
(***************************************************************************)
(* One call of AxFlow.forward() (src/ax/flow): a while loop whose body is  *)
(* grouped by the planner (executionPlanner.ts) and run group by group by  *)
(* executeFlowSteps (executor.ts).  The steps of a group all start from    *)
(* the state at the start of the group, run concurrently in batches, and   *)
(* their results are merged in the order of the flow.  A step may fail or  *)
(* start a remote task, and the caller may stop the flow at any moment.    *)
(*                                                                         *)
(* A state of the flow is a partial function from fields to values.  The   *)
(* value a step computes is symbolic: in which pass of the loop, by which  *)
(* step, from which values of the fields it reads.                         *)
(*                                                                         *)
(* CanShareGroupIgnoringReads and the other operators named for a mistake  *)
(* are not part of the specification: each stands beside the definition    *)
(* it would replace in a faulty executor, to test the properties.          *)
(***************************************************************************)
EXTENDS Naturals, FiniteSetsExt, Functions

CONSTANTS
    Inputs,         \* fields of the input of the flow
    Outputs,        \* fields the steps write
    Length,         \* number of steps in the body of the loop
    BatchSize,      \* batchSize: at least Length when none is configured
    MaxIterations,  \* maxIterations of the loop
    Rewrites,       \* whether two steps, or two passes, write the same field
    MaxReads,       \* bound on the fields one node reads
    HiddenReads     \* whether a step reads fields beside those it declares

Fields == Inputs \union Outputs

ASSUME ConstantsAssumption ==
    /\ Inputs \intersect Outputs = {}
    /\ Length \in Nat \ {0} /\ BatchSize \in Nat \ {0} /\ MaxIterations \in Nat
    /\ MaxReads \in Nat
    /\ Rewrites \in BOOLEAN /\ HiddenReads \in BOOLEAN

\* What a step is: the fields its function reads, those the planner knows of,
\* the field it writes, and whether its result keeps the rest of the state.
Step == [kind: {"execute", "derive", "map", "returns"}, reads: SUBSET Fields,
         declared: SUBSET Fields, writes: Outputs]

\* A mapping the analyser sees nothing of declares no field.  A derive declares
\* its one input; its transform is also handed the whole state.
Declarable(s) ==
    CASE s.kind = "execute" ->
           /\ Cardinality(s.reads) <= MaxReads
           /\ \/ s.declared = s.reads
              \/ s.declared = {}
              \/ (HiddenReads /\ s.declared \subseteq s.reads)
      [] s.kind = "derive" ->
           /\ Cardinality(s.declared) = 1
           /\ s.declared = s.reads \/ (HiddenReads /\ s.declared \subseteq s.reads)
      [] OTHER -> s.reads = Fields /\ s.declared = {}

Steps == {s \in Step : Declarable(s)}

VARIABLES
    flow,       \* the steps of the body
    parallel,   \* useAutoParallel
    pc,         \* loop, group, running, sweeping, returned, thrown
    pass,       \* iterations of the loop so far
    next,       \* first step that has not run in this pass
    state,      \* the state of the flow
    initial,    \* the state executeFlowSteps was called with in this pass
    running,    \* steps in flight
    results,    \* results of the steps of the group that have settled
    tasks,      \* remote tasks, by the pass and the step that started them
    snapshot,   \* tasks known when the group started
    late,       \* tasks started after those of the group were cancelled
    stopped     \* an abort signal has fired

vars == <<flow, parallel, pc, pass, next, state, initial, running, results,
          tasks, snapshot, late, stopped>>

Indices == 1..Length
Empty == [f \in {} |-> {}]
TaskIds == (1..MaxIterations) \X Indices

-------------------------------------------------------------------------------
(* The planner.                                                             *)

\* Reads the analyser cannot see make an execute step a barrier.
IsBarrier(s) ==
    \/ s.kind \in {"map", "returns"}
    \/ s.kind = "execute" /\ s.declared = {} /\ s.reads # {}

\* The fields a step declares to write: a map and returns declare none.
Produces(s) == IF s.kind \in {"map", "returns"} THEN {} ELSE {s.writes}

Intersects(a, b) == a \intersect b # {}

CanShareGroupIgnoringReads(currentGroup, s) ==
    /\ ~IsBarrier(s)
    /\ Produces(s) # {}
    /\ \A t \in currentGroup : ~IsBarrier(t) /\ ~Intersects(Produces(t), Produces(s))
CanShareGroup(currentGroup, s) ==
    /\ ~IsBarrier(s)
    /\ Produces(s) # {}
    /\ \A t \in currentGroup :
        /\ ~IsBarrier(t)
        /\ ~Intersects(s.declared, Produces(t))
        /\ ~Intersects(t.declared, Produces(s))
        /\ ~Intersects(Produces(t), Produces(s))

\* GroupStarts(b)[i] is the first step of the group of step i of body b.
GroupStarts(b) ==
    LET start[i \in Indices] ==
            IF i = 1 THEN 1
            ELSE IF CanShareGroup({b[j] : j \in start[i - 1]..(i - 1)}, b[i])
                 THEN start[i - 1] ELSE i
    IN  start

\* The group that starts at step next; without the planner, the step alone.
Group ==
    IF parallel THEN {i \in Indices : GroupStarts(flow)[i] = next} ELSE {next}
Shared == Cardinality(Group) > 1

-------------------------------------------------------------------------------
(* What a step computes.                                                    *)

\* The fields of set fs that state s has, with their values.
Seen(s, fs) == {<<f, s[f]>> : f \in fs \intersect DOMAIN s}
Value(n, i, s) == <<n, i, Seen(s, flow[i].reads)>>

\* The state step i returns when it starts from s in pass n: only returns()
\* drops what was there.
Result(n, i, s) ==
    LET kept == IF flow[i].kind = "returns" THEN {} ELSE DOMAIN s
    IN  [f \in kept \union {flow[i].writes} |->
            IF f = flow[i].writes THEN Value(n, i, s) ELSE s[f]]

\* derive refuses an input field that is not there.
CanSucceed(i) == flow[i].kind = "derive" => flow[i].declared \subseteq DOMAIN state

\* {...state, ...result} for each result in the order of the flow: a field is
\* taken from the last result that has it.
Merge(s, rs) ==
    LET having(f) == {i \in DOMAIN rs : f \in DOMAIN rs[i]}
    IN  [f \in DOMAIN s \union UNION {DOMAIN rs[i] : i \in DOMAIN rs} |->
            IF having(f) = {} THEN s[f] ELSE rs[Max(having(f))][f]]
-------------------------------------------------------------------------------
(* The loop around the body.                                                *)

Init ==
    /\ flow \in {b \in [Indices -> Steps] :
                    Rewrites \/ \A i, j \in Indices :
                                    i # j => b[i].writes # b[j].writes}
    /\ parallel \in BOOLEAN
    /\ pc = "loop" /\ pass = 0 /\ next = 1
    /\ state = [f \in Inputs |-> <<0, 0, {}>>] /\ initial = state
    /\ running = {} /\ results = Empty
    /\ tasks = [t \in TaskIds |-> "none"] /\ snapshot = {} /\ late = {}
    /\ stopped = FALSE

Unstarted == UNCHANGED <<running, results, tasks, snapshot, late, stopped>>

\* The condition of the loop holds and the body is executed once more.
EnterLoop ==
    /\ pc = "loop" /\ pass < MaxIterations /\ ~stopped
    /\ pc' = "group" /\ pass' = pass + 1 /\ next' = 1 /\ initial' = state
    /\ Unstarted /\ UNCHANGED <<flow, parallel, state>>

\* The condition no longer holds.
LeaveLoop ==
    /\ pc = "loop"
    /\ pc' = "returned"
    /\ Unstarted /\ UNCHANGED <<flow, parallel, pass, next, state, initial>>

\* The condition still holds after the last iteration allowed.
ExceedLoop ==
    /\ pc = "loop" /\ pass = MaxIterations
    /\ pc' = "thrown"
    /\ Unstarted /\ UNCHANGED <<flow, parallel, pass, next, state, initial>>

\* checkAbort, before an iteration and before a group.
AbortedBetween ==
    /\ stopped
    /\ (pc = "loop" /\ pass < MaxIterations) \/ (pc = "group" /\ next \in Indices)
    /\ pc' = "thrown"
    /\ Unstarted /\ UNCHANGED <<flow, parallel, pass, next, state, initial>>

EndBody ==
    /\ pc = "group" /\ next > Length
    /\ pc' = "loop"
    /\ Unstarted /\ UNCHANGED <<flow, parallel, pass, next, state, initial>>

\* stop(), or the caller's signal.
Stop ==
    /\ ~stopped /\ pc \notin {"returned", "thrown"}
    /\ stopped' = TRUE
    /\ UNCHANGED <<flow, parallel, pc, pass, next, state, initial, running,
                   results, tasks, snapshot, late>>

-------------------------------------------------------------------------------
(* A group.                                                                 *)

\* The batch that starts at step i of the group.
Batch(i) == {j \in Group : i <= j /\ j < i + BatchSize}

KnownTasks == {t \in TaskIds : tasks[t] # "none"}

StartGroupForgettingTasks ==
    /\ pc = "group" /\ next \in Indices /\ ~stopped
    /\ pc' = "running" /\ running' = Batch(next)
    /\ results' = Empty /\ snapshot' = {}
    /\ UNCHANGED <<flow, parallel, pass, next, state, initial, tasks, late, stopped>>

\* captureRemoteTasks, and the first batch starts at once.
StartGroup ==
    /\ pc = "group" /\ next \in Indices /\ ~stopped
    /\ pc' = "running" /\ running' = Batch(next)
    /\ results' = Empty /\ snapshot' = KnownTasks
    /\ UNCHANGED <<flow, parallel, pass, next, state, initial, tasks, late, stopped>>

\* What is left of the group once a batch has settled.
Remaining == Group \ DOMAIN results
BatchSettledAnyway == pc \in {"running", "sweeping"} /\ running = {}
BatchSettled == pc = "running" /\ running = {}

\* The steps of the next batch start.  A node checks the signal first, so on
\* a stopped flow it fails at once; a derive does not look.
NextBatch ==
    /\ BatchSettled /\ Remaining # {}
    /\ LET batch == Batch(Min(Remaining))
           refused == {i \in batch : stopped /\ flow[i].kind = "execute"}
       IN  /\ running' = batch \ refused
           /\ pc' = IF refused = {} THEN "running" ELSE "sweeping"
    /\ UNCHANGED <<flow, parallel, pass, next, state, initial, results, tasks,
                   snapshot, late, stopped>>

\* Step i returns.  Nobody waits for it any more once the group has failed.
Finish(i) ==
    /\ i \in running /\ CanSucceed(i)
    /\ running' = running \ {i}
    /\ results' = IF pc = "running"
                  THEN [j \in DOMAIN results \union {i} |->
                            IF j = i THEN Result(pass, i, state) ELSE results[j]]
                  ELSE results
    /\ UNCHANGED <<flow, parallel, pc, pass, next, state, initial, tasks,
                   snapshot, late, stopped>>

\* Step i throws: the first to do so aborts the rest of its group.  A step
\* that is alone has no group to abort.
Fail(i) ==
    /\ i \in running
    /\ running' = running \ {i}
    /\ pc' = IF pc # "running" THEN pc ELSE IF Shared THEN "sweeping" ELSE "thrown"
    /\ UNCHANGED <<flow, parallel, pass, next, state, initial, results, tasks,
                   snapshot, late, stopped>>

\* cancelRemoteTasksSince: the tasks known now and not when the group started.
Sweep ==
    /\ pc = "sweeping"
    /\ pc' = "thrown"
    /\ tasks' = [t \in TaskIds |->
                    IF t \notin snapshot /\ tasks[t] = "working"
                    THEN "cancelled" ELSE tasks[t]]
    /\ UNCHANGED <<flow, parallel, pass, next, state, initial, running, results,
                   snapshot, late, stopped>>

\* The results are merged and the next group is due.
EndGroup ==
    /\ BatchSettled /\ Remaining = {}
    /\ state' = IF Shared THEN Merge(state, results) ELSE results[next]
    /\ pc' = "group" /\ next' = Max(Group) + 1 /\ results' = Empty
    /\ UNCHANGED <<flow, parallel, pass, initial, running, tasks, snapshot, late,
                   stopped>>

-------------------------------------------------------------------------------
(* Remote tasks, which outlive the steps that start them.                   *)

CreateTask(i) ==
    /\ i \in running /\ flow[i].kind = "execute" /\ tasks[<<pass, i>>] = "none"
    /\ tasks' = [tasks EXCEPT ![<<pass, i>>] = "working"]
    /\ late' = IF pc = "thrown" THEN late \union {<<pass, i>>} ELSE late
    /\ UNCHANGED <<flow, parallel, pc, pass, next, state, initial, running,
                   results, snapshot, stopped>>

CompleteTask(t) ==
    /\ tasks[t] = "working"
    /\ tasks' = [tasks EXCEPT ![t] = "completed"]
    /\ UNCHANGED <<flow, parallel, pc, pass, next, state, initial, running,
                   results, snapshot, late, stopped>>

\* The call has settled, and so has everything it started.
Settled ==
    /\ pc \in {"returned", "thrown"} /\ running = {}
    /\ UNCHANGED vars

Next ==
    \/ EnterLoop \/ LeaveLoop \/ ExceedLoop \/ AbortedBetween \/ EndBody \/ Stop
    \/ StartGroup \/ NextBatch \/ Sweep \/ EndGroup
    \/ \E i \in Indices : Finish(i) \/ Fail(i) \/ CreateTask(i)
    \/ \E t \in TaskIds : CompleteTask(t)
    \/ Settled

Spec == Init /\ [][Next]_vars

-------------------------------------------------------------------------------
(* Properties.                                                              *)

\* The states of this pass if its steps had run one after the other.
Sequentially ==
    LET after[i \in 0..Length] ==
            IF i = 0 THEN initial ELSE Result(pass, i, after[i - 1])
    IN  after

\* Running the steps of a group concurrently is not observable: between two
\* groups the state is the one the steps would have built one by one, each
\* from all those before it (canShareGroup, and the merge of the results).
SequentialResult ==
    pc = "group" => state = Sequentially[next - 1]

\* A failure of a group ends the tasks its steps started, whichever step
\* failed and whichever had started one, and no task started before the group
\* (cancelRemoteTasksSince with the snapshot of the group's start).  A task
\* that a sibling starts after the cancellation escapes it: late.
AbandonedTasksSwept ==
    pc = "thrown" =>
        \A t \in TaskIds :
            LET ofGroup == t[1] = pass /\ t[2] \in Group
            IN  /\ ofGroup /\ next <= Length /\ Shared /\ t \notin late
                    => tasks[t] # "working"
                /\ tasks[t] = "cancelled" => ofGroup

\* Nothing begins once a step has failed or the flow is stopped, except that a
\* derive of a later batch does not look at the signal: no node is invoked.
NoNodeAfterFailure ==
    [][\A i \in running' \ running :
            /\ pc = "running" \/ pc = "group"
            /\ ~(stopped /\ flow[i].kind = "execute")]_vars
===============================================================================
