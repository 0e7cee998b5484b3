--------------------------- MODULE MCQueueRuntime ---------------------------
(* Instances of QueueRuntime for TLC.                                      *)
EXTENDS QueueRuntime, TLC

CONSTANTS k, l, t, g

TwoKeys == {k, l}
OneTenant == {t}
OneGroup == {g}
OnlyLong == {2}
OneDelay == {1}

Slotted ==
  [fifo |-> FALSE, batchAck |-> FALSE, idempotent |-> TRUE, max |-> 1, parallelism |-> 1, batchSize |-> 1,
   timeout |-> 1, handler |-> {}, lag |-> 0, sends |-> 2, faults |-> 1, ticks |-> 3]
SlottedLonger == [Slotted EXCEPT !.timeout = 2, !.faults = 0, !.ticks = 4]
Deferring ==
  [fifo |-> FALSE, batchAck |-> FALSE, idempotent |-> FALSE, max |-> 0, parallelism |-> 1, batchSize |-> 2,
   timeout |-> 1, handler |-> {"retry", "defer"}, lag |-> 0, sends |-> 2, faults |-> 1, ticks |-> 3]
DeferringOnce == [Deferring EXCEPT !.batchSize = 1, !.idempotent = TRUE, !.sends = 1, !.lag = 1]
Fifo ==
  [fifo |-> TRUE, batchAck |-> FALSE, idempotent |-> TRUE, max |-> 0, parallelism |-> 2, batchSize |-> 2,
   timeout |-> 1, handler |-> {"retry"}, lag |-> 0, sends |-> 2, faults |-> 1, ticks |-> 3]
FifoBatch ==
  [fifo |-> TRUE, batchAck |-> TRUE, idempotent |-> FALSE, max |-> 0, parallelism |-> 1, batchSize |-> 2,
   timeout |-> 1, handler |-> {"retry"}, lag |-> 1, sends |-> 2, faults |-> 1, ticks |-> 3]

AllSubscriptions == {Slotted, SlottedLonger, Deferring, DeferringOnce, Fifo, FifoBatch}
JustSlots == {[Slotted EXCEPT !.idempotent = FALSE, !.faults = 0]}

KeySymmetry == Permutations(TwoKeys)
=============================================================================
