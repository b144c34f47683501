----------------------------- MODULE MCEventStore -----------------------------
(* Instances of EventStore for TLC: who publishes what, and on which routes. *)
EXTENDS EventStore, TLC

CONSTANTS p1, p2, p3, e1, e2, e3, w1, w2

\* Every call publishes an event of its own.
DistinctEvents ==
    [p \in Publishers |-> CASE p = p1 -> e1 [] p = p2 -> e2 [] OTHER -> e3]
\* p3 publishes the event of p2 once more.
RepeatedEvents == [p \in Publishers |-> IF p = p1 THEN e3 ELSE e2]
\* Two events with one dedupe key conflict; the other keys are distinct.
DistinctKeys == e1 :> 1 @@ e2 :> 2 @@ e3 :> 3
ConflictingKeys == e1 :> 1 @@ e2 :> 2 @@ e3 :> 2

EveryRoute == [e \in Events |-> Routes]
\* Only e2 takes every route.
OneFanout == [e \in Events |-> IF e = e2 THEN Routes ELSE {1}]

\* One target instance for everything.
OneLane == [r \in Routes |-> [e \in Events |-> 0]]

NoDebounce == [r \in Routes |-> 0]
DebounceOne == [r \in Routes |-> 1]
EqualSizes == [e \in Events |-> 1]
MixedSizes == e1 :> 1 @@ e2 :> 1 @@ e3 :> 2

WorkerSymmetry == Permutations(Workers)
===============================================================================
