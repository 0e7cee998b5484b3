---------------------------- MODULE MCDeployLock ----------------------------
(* Instances of DeployLock for TLC, and the promise of StateHistory.       *)
EXTENDS DeployLock, TLC

CONSTANTS r1, r2, r3

TwoRuns == {r1, r2}
ThreeRuns == {r1, r2, r3}

RunSymmetry == Permutations(Runs)
=============================================================================
