-------------------------- MODULE MCQueueForwarder --------------------------
(* The instance of QueueForwarder that TLC checks.                         *)
EXTENDS QueueForwarder

\* Delays that grow, and of which the last one repeats.
TwoDelays == <<1, 2>>
=============================================================================
