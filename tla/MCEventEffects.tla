---------------------------- MODULE MCEventEffects ----------------------------
(* Instances of EventEffects for TLC.                                      *)
EXTENDS EventEffects, TLC

CONSTANTS charge, notify, c1, c2

\* An effect-aware target with a resolver, under crashes and every redrive.
Aware ==
    [retrySafety |-> "effect-aware", operations |-> {charge}, digests |-> {1},
     settlements |-> {"succeeded"}, resolver |-> TRUE, floating |-> FALSE,
     crashes |-> TRUE, sinkRedrive |-> TRUE, tokens |-> 4]

\* A target of unknown safety that returns before its calls do, and declares
\* conflicting requests.
Unknown ==
    [retrySafety |-> "unknown", operations |-> {charge}, digests |-> {1, 2},
     settlements |-> {"succeeded", "failed"}, resolver |-> FALSE, floating |-> TRUE,
     crashes |-> TRUE, sinkRedrive |-> TRUE, tokens |-> 2]

\* An effect-aware target of two operations, no crash between two saves and no
\* redrive of sinks.
Steady == [Aware EXCEPT !.operations = Operations, !.crashes = FALSE,
                        !.sinkRedrive = FALSE, !.tokens = 2]

\* The unknown target again, of one request, without those faults.
Careless == [Unknown EXCEPT !.digests = {1}, !.crashes = FALSE, !.sinkRedrive = FALSE]

AllTargets == {Aware, Unknown, Steady, Careless}

CallerSymmetry == Permutations(Callers)
===============================================================================
