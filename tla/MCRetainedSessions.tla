------------------------- MODULE MCRetainedSessions -------------------------
(* Instances of RetainedSessions for TLC.                                  *)
EXTENDS RetainedSessions, TLC

(* Two regimes in one run: hosts take a root of two messages over from one *)
(* another, and a root of three messages stays with one host.              *)
Bystander(h) ==
  /\ h \notin closed /\ owned[h] = 0 /\ recovery[h] = NoRecovery
  /\ queue[h] = {} /\ attempts[h] = NoAttempts /\ calls[h] = {}
Regimes ==
  registry.admittedSubcalls <= 2 \/ \E h \in Hosts : Bystander(h)

Symmetry == Permutations(Hosts)

=============================================================================
