---------------------------- MODULE MCFlowExecutor ----------------------------
(* Instances of FlowExecutor for TLC. *)
EXTENDS FlowExecutor, TLC

OutputSymmetry == Permutations(Outputs)
===============================================================================
