---------------------------- MODULE MCEventRuntime ----------------------------
(* Instances of EventRuntime for TLC: one observe route, an event per call. *)
EXTENDS EventRuntime, TLC

CONSTANTS p1, p2, e1, e2, w1, w2

DistinctEvents == [p \in Publishers |-> IF p = p1 THEN e1 ELSE e2]
DistinctKeys == [e \in Events |-> e]
EveryRoute == [e \in Events |-> Routes]
LanePerEvent == [r \in Routes |-> [e \in Events |-> e]]
NoDebounce == [r \in Routes |-> 0]
EqualSizes == [e \in Events |-> 1]

WorkerSymmetry == Permutations(Workers)
===============================================================================
