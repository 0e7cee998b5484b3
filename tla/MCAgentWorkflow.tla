-------------------------- MODULE MCAgentWorkflow --------------------------
(* Instances of AgentWorkflow for TLC.                                     *)
EXTENDS AgentWorkflow, TLC
CONSTANTS w1, w2
TwoWorkers == {w1, w2}
WorkerSymmetry == Permutations(TwoWorkers)
=============================================================================
