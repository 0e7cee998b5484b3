-------------------------- MODULE MCLocalScheduler --------------------------
(* The instance of LocalScheduler that TLC checks.                         *)
EXTENDS LocalScheduler
CONSTANTS e1, e2
TwoEvents == {e1, e2}
=============================================================================
