------------------------ MODULE MCEventContinuations ------------------------
(* Instances of EventContinuations for TLC.                                *)
EXTENDS EventContinuations, TLC

WorkerSymmetry == Permutations(Workers)
ActorSymmetry == Permutations(Workers) \cup Permutations(Resumes)
=============================================================================
