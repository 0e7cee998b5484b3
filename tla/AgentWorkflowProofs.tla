------------------------ MODULE AgentWorkflowProofs ------------------------
(***************************************************************************)
(* The safety of a workflow run, for any number of executions, steps and   *)
(* failures.                                                               *)
(***************************************************************************)
EXTENDS AgentWorkflow, TLAPS

-----------------------------------------------------------------------------
(* The inductive invariant                                                 *)

\* The events that have advanced the run: all before the one it waits for, or all up to the last.
Consumed(k) == k < run.step \/ (Ended /\ k <= run.step)

\* A run that waits for step n was advanced by event n - 1.
RunShape ==
  /\ run.status = "none" => run = NoRun
  /\ run.status = "running" => run.step \in Ids /\ run.trigger = run.step - 1

AppliedIsConsumed == \A k \in Keys : applied[k] = IF Consumed(k) THEN 1 ELSE 0

\* Envelopes, tasks, results that were sent and messages are all of steps that the run has recorded.
StepsAreRecorded ==
  /\ \A i \in Ids : envelope[i] # "none" \/ task[i] # "none" \/ i \in sent => i <= run.step
  /\ \A m \in messages : m <= run.step

\* What an execution has found when it writes: no run and the start, or a run that waits for its event.
MayWrite(w) ==
  \/ worker[w].seen = NoRun /\ worker[w].msg = Start
  \/ worker[w].seen.status = "running" /\ worker[w].seen.step = worker[w].msg

Invokes(w) == worker[w].pc \in {"envelope", "runTask", "arn", "putFailed", "putDeadline"}

\* An execution's message is there until its event has advanced the run; it invokes the agent that the event led to, and
\* ends with the envelope in place, or with the run ended.
WorkerOK(w) ==
  /\ worker[w].pc # "idle" => worker[w].msg <= run.step /\ (Consumed(worker[w].msg) \/ worker[w].msg \in messages)
  /\ worker[w].pc = "write" => MayWrite(w)
  /\ Invokes(w) => worker[w].id \in Ids /\ worker[w].id <= run.step /\ worker[w].id = worker[w].msg + 1
  /\ Invokes(w) /\ worker[w].pc # "envelope" => envelope[worker[w].id] # "none"
  /\ worker[w].pc = "done" =>
       \/ Ended
       \/ worker[w].msg + 1 \in Ids /\ worker[w].msg + 1 <= run.step /\ envelope[worker[w].msg + 1] # "none"

WorkerInv == \A w \in Workers : WorkerOK(w)

DispatchInv ==
  /\ marker \subseteq sent
  /\ \A d \in Dispatchers :
       /\ disp[d].pc # "idle" => disp[d].id \in Ids /\ disp[d].id <= run.step
       /\ disp[d].pc = "mark" => disp[d].id \in sent

\* A result that the run waits for is not lost once it was sent, and the agent that it waits for is invoked.
NotLost ==
  run.status = "running" =>
    /\ run.step \in sent => run.step \in messages
    /\ run.trigger \in messages \/ envelope[run.step] # "none"

IInv ==
  /\ WorkflowTypeOK
  /\ RunShape
  /\ AppliedIsConsumed
  /\ StepsAreRecorded
  /\ WorkerInv
  /\ DispatchInv
  /\ NotLost

-----------------------------------------------------------------------------
(* The inductive step                                                      *)

\* What the constants are, and that the initial values are of their types.
LEMMA Constants ==
  /\ MaxSteps \in Nat \ {0} /\ MaxFaults \in Nat
  /\ Ids \subseteq Keys /\ Start \in Keys
  /\ NoRun \in Run /\ Idle \in Worker /\ NoDispatch \in Dispatch
  BY WorkflowAssumption DEF Ids, Keys, Start, NoRun, Run, Idle, Worker, NoDispatch, Dispatch

\* The executions that a step is not about: all it may do to them is to put envelopes and to delete messages whose event
\* has advanced the run.
LEMMA OtherWorkers ==
  ASSUME IInv, NEW v \in Workers, worker'[v] = worker[v], run' = run,
         \A i \in Ids : envelope[i] # "none" => envelope'[i] # "none",
         \A m \in messages \ messages' : Consumed(m)
  PROVE  WorkerOK(v)'
<1>1. WorkerOK(v) /\ worker[v].msg \in Keys
  BY DEF IInv, WorkerInv, WorkflowTypeOK, Worker
<1> QED
  BY <1>1 DEF WorkerOK, MayWrite, Invokes, Consumed, Ended

\* A message may go once its event has advanced the run and, if it is the last one, the envelope of its agent is there.
MayGo(m) == Consumed(m) /\ (run.status = "running" /\ m = run.trigger => envelope[run.step] # "none")

\* One execution moves, and does not write the run: what is left to show is about its own state, the objects it puts
\* and the message it deletes.
LEMMA WorkerMoves ==
  ASSUME IInv, NEW w \in Workers, NEW x \in Worker, worker' = [worker EXCEPT ![w] = x], WorkerOK(w)',
         UNCHANGED <<run, applied, refused, dispatchVars>>, faults' \in 0..MaxFaults,
         messages' \subseteq messages, \A m \in messages \ messages' : MayGo(m),
         envelope' \in [Ids -> {"none", "bare", "traced"}], task' \in [Ids -> {"none", "running", "stopped", "gone"}],
         \A i \in Ids : /\ envelope[i] # "none" => envelope'[i] # "none"
                        /\ envelope'[i] # "none" => envelope[i] # "none" \/ i <= run.step
                        /\ task'[i] # "none" => task[i] # "none" \/ i <= run.step,
         result' \subseteq Ids
  PROVE  IInv'
<1>1. WorkflowTypeOK'
  BY DEF IInv, WorkflowTypeOK, dispatchVars, sweepVars
<1>2. RunShape' /\ AppliedIsConsumed' /\ DispatchInv'
  BY DEF IInv, RunShape, AppliedIsConsumed, Consumed, Ended, DispatchInv, dispatchVars, sweepVars
<1>3. StepsAreRecorded'
  BY DEF IInv, StepsAreRecorded, dispatchVars, sweepVars
<1>4. NotLost'
  BY DEF IInv, WorkflowTypeOK, RunShape, NotLost, MayGo, Consumed, Ended, Ids, dispatchVars, sweepVars
<1>5. ASSUME NEW v \in Workers, v # w
      PROVE  WorkerOK(v)'
  BY <1>5, OtherWorkers DEF IInv, WorkflowTypeOK, MayGo
<1> QED
  BY <1>1, <1>2, <1>3, <1>4, <1>5 DEF IInv, WorkerInv

\* A received message is of a step that the run has recorded.
LEMMA ReceiveStep ==
  ASSUME IInv, NEW w \in Workers, NEW m \in messages, Receive(w, m)
  PROVE  IInv'
<1>1. /\ worker[w] \in Worker /\ worker'[w] \in Worker
      /\ worker' = [worker EXCEPT ![w] = worker'[w]]
  BY Constants DEF IInv, WorkflowTypeOK, Worker, Run, Receive
<1>2. WorkerOK(w)
  BY DEF IInv, WorkerInv
<1>3. WorkerOK(w)'
  BY <1>1, <1>2, Constants DEF IInv, WorkflowTypeOK, WorkerOK, Invokes, Consumed, Ended, Worker, Idle,
       StepsAreRecorded, runVars, Receive
<1> QED
  BY <1>1, <1>2, <1>3, WorkerMoves, Constants DEF IInv, WorkflowTypeOK, runVars, Receive

\* So is one that is received twice.
LEMMA ReceiveTwiceStep ==
  ASSUME IInv, NEW w \in Workers, NEW m \in messages, ReceiveTwice(w, m)
  PROVE  IInv'
<1>1. /\ worker[w] \in Worker /\ worker'[w] \in Worker
      /\ worker' = [worker EXCEPT ![w] = worker'[w]]
  BY Constants DEF IInv, WorkflowTypeOK, Worker, Run, ReceiveTwice
<1>2. WorkerOK(w)
  BY DEF IInv, WorkerInv
<1>3. WorkerOK(w)'
  BY <1>1, <1>2, Constants DEF IInv, WorkflowTypeOK, WorkerOK, Invokes, Consumed, Ended, Worker, Idle,
       StepsAreRecorded, runVars, ReceiveTwice
<1>4. faults' \in 0..MaxFaults
  BY Constants DEF IInv, WorkflowTypeOK, ReceiveTwice
<1> QED
  BY <1>1, <1>2, <1>3, <1>4, WorkerMoves, Constants DEF IInv, WorkflowTypeOK, runVars, ReceiveTwice

\* An execution invokes the agent of the last event again, or has found what its event is for.
LEMMA ReadRunStep ==
  ASSUME IInv, NEW w \in Workers, ReadRun(w)
  PROVE  IInv'
<1>1. /\ worker[w] \in Worker /\ worker'[w] \in Worker
      /\ worker' = [worker EXCEPT ![w] = worker'[w]]
  BY Constants DEF IInv, WorkflowTypeOK, Worker, Run, ReadRun
<1>2. WorkerOK(w)
  BY DEF IInv, WorkerInv
<1>3. WorkerOK(w)'
  <2>1. CASE IsLastEvent(worker[w].msg)
    <3>1. /\ worker'[w].pc = "envelope" /\ worker'[w].msg = worker[w].msg /\ worker'[w].id = run.step
          /\ run.step \in Ids /\ run.step = worker[w].msg + 1
      BY <1>1, <2>1, Constants DEF IInv, WorkflowTypeOK, RunShape, Worker, Run, Keys, Ids, ReadRun, IsLastEvent
    <3> QED
      BY <1>2, <3>1, Constants DEF IInv, WorkflowTypeOK, WorkerOK, MayWrite, Invokes, Consumed, Ended, Run, Keys, Ids, runVars, ReadRun
  <2>2. CASE ~IsLastEvent(worker[w].msg)
    <3>1. /\ worker'[w].pc = "write" /\ worker'[w].msg = worker[w].msg /\ worker'[w].seen = run
          /\ ~IsIgnored(worker[w].msg)
      BY <1>1, <2>2 DEF IInv, WorkflowTypeOK, Worker, ReadRun
    <3>2. MayWrite(w)'
      BY <1>1, <3>1 DEF IInv, WorkflowTypeOK, RunShape, MayWrite, Worker, Run, Start, IsIgnored, WaitingFor
    <3> QED
      BY <1>2, <3>1, <3>2 DEF WorkerOK, Invokes, Consumed, Ended, runVars, ReadRun
  <2> QED
    BY <2>1, <2>2
<1> QED
  BY <1>1, <1>2, <1>3, WorkerMoves, Constants DEF IInv, WorkflowTypeOK, runVars, ReadRun

\* An ignored event has advanced the run before, and is not the last one of a run that waits.
LEMMA IgnoreEventStep ==
  ASSUME IInv, NEW w \in Workers, IgnoreEvent(w)
  PROVE  IInv'
<1>1. /\ worker[w] \in Worker /\ worker'[w] \in Worker
      /\ worker' = [worker EXCEPT ![w] = worker'[w]]
  BY Constants DEF IInv, WorkflowTypeOK, Worker, Run, IgnoreEvent
<1>2. WorkerOK(w)
  BY DEF IInv, WorkerInv
<1>3. WorkerOK(w)'
  BY <1>1, <1>2, Constants DEF IInv, WorkflowTypeOK, WorkerOK, Invokes, Consumed, Ended, Worker, Idle, IgnoreEvent
<1>4. \A m \in messages \ messages' : Consumed(m)
  <2> DEFINE m == worker[w].msg
  <2>1. m \in Nat /\ m <= run.step /\ IsIgnored(m) /\ ~IsLastEvent(m) /\ messages' = messages \ {m}
    BY <1>1, <1>2 DEF WorkerOK, Worker, Keys, IgnoreEvent
  <2>2. run.step \in Nat /\ run.status \in {"none", "running", "completed", "failed"}
    BY DEF IInv, WorkflowTypeOK, Run, Keys
  <2> HIDE DEF m
  <2>3. CASE run.status = "none"
    BY <2>1, <2>3 DEF IInv, RunShape, NoRun, IsIgnored, WaitingFor, Start
  <2>4. CASE run.status = "running"
    <3>1. m # run.step
      BY <2>1, <2>2, <2>4 DEF IInv, RunShape, Ids, IsIgnored, WaitingFor, Start
    <3> QED
      BY <2>1, <2>2, <3>1 DEF Consumed
  <2>5. CASE run.status \in {"completed", "failed"}
    BY <2>1, <2>5 DEF Consumed, Ended
  <2> QED
    BY <2>2, <2>3, <2>4, <2>5
<1> QED
  BY <1>1, <1>2, <1>3, <1>4, WorkerMoves, Constants DEF IInv, WorkflowTypeOK, MayGo, IsLastEvent, IgnoreEvent

\* The write: the event of the execution is the one that the run was waiting for, and is consumed by it.
LEMMA WriteRunStep ==
  ASSUME IInv, NEW w \in Workers, NEW next \in {"complete", "invoke", "refused"}, WriteRun(w, next)
  PROVE  IInv'
<1> DEFINE written == Written(w, next)
<1>1. /\ worker[w] \in Worker /\ worker[w].pc = "write" /\ run = worker[w].seen /\ run' = written
      /\ MaxSteps \in Nat
  BY Constants DEF IInv, WorkflowTypeOK, WriteRun
<1>2. WorkerOK(w) /\ run \in Run /\ worker[w].msg \in Keys
  BY <1>1 DEF IInv, WorkerInv, WorkflowTypeOK, Worker
\* The event of the write is the one that the run was waiting for.
<1>3. /\ run.status \in {"none", "running"}
      /\ worker[w].msg = run.step
      /\ run.step \in 0..MaxSteps
  BY <1>1, <1>2 DEF IInv, RunShape, WorkerOK, MayWrite, NoRun, Start, Run, Keys
<1>4. \/ written.status = "running" /\ written.step = run.step + 1 /\ run.step + 1 \in Ids
      \/ written.status \in {"completed", "failed"} /\ written.step = run.step
  BY <1>1, <1>2, <1>3 DEF Written, Run, Ids
<1>5. written \in Run /\ written.trigger = run.step
  <2>1. CASE next = "complete"
    <3>1. written = [run EXCEPT !.status = "completed", !.trigger = run.step]
      BY <1>1, <1>3, <2>1 DEF Written
    <3> QED
      BY <1>2, <1>3, <3>1 DEF Run, Keys
  <2>2. CASE next # "complete" /\ run.step + 1 > MaxSteps
    <3>1. written = [run EXCEPT !.status = "failed", !.trigger = run.step]
      BY <1>1, <1>3, <2>2 DEF Written
    <3> QED
      BY <1>2, <1>3, <3>1 DEF Run, Keys
  <2>3. CASE next # "complete" /\ ~(run.step + 1 > MaxSteps)
    <3>1. written = [status |-> "running", step |-> run.step + 1, trigger |-> run.step]
      BY <1>1, <1>3, <2>3 DEF Written
    <3>2. run.step + 1 \in 0..MaxSteps
      BY <1>1, <1>3, <2>3
    <3> QED
      BY <1>3, <3>1, <3>2 DEF Run, Keys
  <2> QED
    BY <2>1, <2>2, <2>3
<1>6. /\ worker'[w] \in Worker
      /\ worker' = [worker EXCEPT ![w] = worker'[w]]
      /\ worker'[w].msg = worker[w].msg
      /\ written.status = "running" => worker'[w].pc = "envelope" /\ worker'[w].id = written.step
      /\ written.status # "running" => worker'[w].pc = "done"
  BY <1>1, <1>5, Constants DEF IInv, WorkflowTypeOK, Worker, Run, WriteRun, AfterWrite
<1>7. WorkflowTypeOK'
  BY <1>1, <1>2, <1>5, <1>6 DEF IInv, WorkflowTypeOK, dispatchVars, sweepVars, WriteRun, Refuses
<1>8. RunShape'
  BY <1>1, <1>3, <1>4, <1>5 DEF RunShape, Ids
<1>9. \A k \in Keys : Consumed(k)' <=> Consumed(k) \/ k = worker[w].msg
  BY <1>1, <1>3, <1>4 DEF Consumed, Ended, Keys
<1>10. AppliedIsConsumed'
  <2>1. ~Consumed(worker[w].msg)
    BY <1>3 DEF Consumed, Ended
  <2> QED
    BY <1>2, <1>9, <2>1 DEF IInv, WorkflowTypeOK, AppliedIsConsumed, WriteRun
<1>11. StepsAreRecorded' /\ DispatchInv'
  <2>1. run.step <= run'.step /\ run.step \in Nat /\ run'.step \in Nat
    BY <1>1, <1>3, <1>4
  <2>2. \A i \in Nat : i <= run.step => i <= run'.step
    BY <2>1
  <2>3. Ids \subseteq Nat /\ messages \subseteq Nat
    BY DEF IInv, WorkflowTypeOK, Keys, Ids
  <2>4. StepsAreRecorded'
    BY <2>2, <2>3 DEF IInv, StepsAreRecorded, dispatchVars, sweepVars, WriteRun
  <2>5. DispatchInv'
    BY <2>2, <2>3 DEF IInv, DispatchInv, dispatchVars, sweepVars, WriteRun
  <2> QED
    BY <2>4, <2>5
<1>12. worker[w].msg \in messages
  BY <1>1, <1>2, <1>3 DEF WorkerOK, Consumed, Ended
<1>13. NotLost'
  BY <1>1, <1>3, <1>4, <1>5, <1>12 DEF IInv, NotLost, StepsAreRecorded, Ids, dispatchVars, sweepVars, WriteRun
<1>14. WorkerOK(w)'
  BY <1>1, <1>2, <1>3, <1>4, <1>6, <1>12 DEF WorkerOK, MayWrite, Invokes, Consumed, Ended, Ids, Keys, WriteRun
<1>15. ASSUME NEW v \in Workers, v # w
       PROVE  WorkerOK(v)'
  <2>1. /\ worker'[v] = worker[v] /\ worker[v] \in Worker /\ WorkerOK(v)
        /\ envelope' = envelope /\ messages' = messages
    BY <1>6, <1>15 DEF IInv, WorkflowTypeOK, WorkerInv, WriteRun
  <2>2. run.step <= run'.step /\ run'.step \in Nat /\ run.step \in Nat /\ ~Ended
    BY <1>1, <1>3, <1>4 DEF Ended
  <2> QED
    BY <1>9, <2>1, <2>2 DEF WorkerOK, MayWrite, Invokes, Ended, Worker, Keys, Ids
<1> QED
  BY <1>7, <1>8, <1>10, <1>11, <1>13, <1>14, <1>15 DEF IInv, WorkerInv

\* A conflict changes nothing.
LEMMA WriteConflictStep ==
  ASSUME IInv, NEW w \in Workers, WriteConflict(w)
  PROVE  IInv'
<1>1. /\ worker[w] \in Worker /\ worker'[w] \in Worker
      /\ worker' = [worker EXCEPT ![w] = worker'[w]]
  BY Constants DEF IInv, WorkflowTypeOK, Worker, Run, WriteConflict
<1>2. WorkerOK(w)
  BY DEF IInv, WorkerInv
<1>3. WorkerOK(w)'
  BY <1>1, <1>2, Constants DEF IInv, WorkflowTypeOK, WorkerOK, Invokes, Consumed, Ended, Worker, Idle, WriteConflict
<1> QED
  BY <1>1, <1>2, <1>3, WorkerMoves, Constants DEF IInv, WorkflowTypeOK, runVars, WriteConflict

\* A function that has returned leaves the envelope of its agent, or a run that has ended.
LEMMA DeleteMessageStep ==
  ASSUME IInv, NEW w \in Workers, DeleteMessage(w)
  PROVE  IInv'
<1>1. /\ worker[w] \in Worker /\ worker'[w] \in Worker
      /\ worker' = [worker EXCEPT ![w] = worker'[w]]
  BY Constants DEF IInv, WorkflowTypeOK, Worker, Run, DeleteMessage
<1>2. WorkerOK(w)
  BY DEF IInv, WorkerInv
<1>3. WorkerOK(w)'
  BY <1>1, <1>2, Constants DEF IInv, WorkflowTypeOK, WorkerOK, Invokes, Consumed, Ended, Worker, Idle, DeleteMessage
<1>4. \A m \in messages \ messages' : MayGo(m)
  <2> DEFINE m == worker[w].msg
  <2>1. m \in Nat /\ m <= run.step /\ run.step \in Nat /\ messages' = messages \ {m}
    BY <1>1, <1>2 DEF IInv, WorkflowTypeOK, WorkerOK, Worker, Run, Keys, DeleteMessage
  <2>2. Ended \/ (m + 1 <= run.step /\ envelope[m + 1] # "none")
    BY <1>2 DEF WorkerOK, DeleteMessage
  <2>3. run.status = "running" => run.trigger = run.step - 1 /\ ~Ended
    BY DEF IInv, RunShape, Ended
  <2> HIDE DEF m
  <2>4. Consumed(m)
    BY <2>1, <2>2 DEF Consumed
  <2>5. ASSUME run.status = "running", m = run.trigger
        PROVE  envelope[run.step] # "none"
    <3>1. m + 1 = run.step
      BY <2>1, <2>3, <2>5
    <3> QED
      BY <2>2, <2>3, <2>5, <3>1
  <2> QED
    BY <2>1, <2>4, <2>5 DEF MayGo
<1> QED
  BY <1>1, <1>2, <1>3, <1>4, WorkerMoves, Constants DEF IInv, WorkflowTypeOK, MayGo, DeleteMessage

\* An execution that fails leaves its message.
LEMMA WorkerFailsStep ==
  ASSUME IInv, NEW w \in Workers, WorkerFails(w)
  PROVE  IInv'
<1>1. /\ worker[w] \in Worker /\ worker'[w] \in Worker
      /\ worker' = [worker EXCEPT ![w] = worker'[w]]
  BY Constants DEF IInv, WorkflowTypeOK, Worker, Run, WorkerFails
<1>2. WorkerOK(w)
  BY DEF IInv, WorkerInv
<1>3. WorkerOK(w)'
  BY <1>1, <1>2, Constants DEF IInv, WorkflowTypeOK, WorkerOK, Invokes, Consumed, Ended, Worker, Idle, WorkerFails
<1>4. faults' \in 0..MaxFaults
  BY Constants DEF IInv, WorkflowTypeOK, WorkerFails
<1> QED
  BY <1>1, <1>2, <1>3, <1>4, WorkerMoves, Constants DEF IInv, WorkflowTypeOK, runVars, WorkerFails

\* A refused input leaves the message.
LEMMA InvokeRefusedStep ==
  ASSUME IInv, NEW w \in Workers, InvokeRefused(w)
  PROVE  IInv'
<1>1. /\ worker[w] \in Worker /\ worker'[w] \in Worker
      /\ worker' = [worker EXCEPT ![w] = worker'[w]]
  BY Constants DEF IInv, WorkflowTypeOK, Worker, Run, InvokeRefused
<1>2. WorkerOK(w)
  BY DEF IInv, WorkerInv
<1>3. WorkerOK(w)'
  BY <1>1, <1>2, Constants DEF IInv, WorkflowTypeOK, WorkerOK, Invokes, Consumed, Ended, Worker, Idle, InvokeRefused
<1> QED
  BY <1>1, <1>2, <1>3, WorkerMoves, Constants DEF IInv, WorkflowTypeOK, runVars, InvokeRefused

\* The envelope is of the step that the execution has written.
LEMMA PutEnvelopeStep ==
  ASSUME IInv, NEW w \in Workers, PutEnvelope(w)
  PROVE  IInv'
<1>1. /\ worker[w] \in Worker /\ worker'[w] \in Worker
      /\ worker' = [worker EXCEPT ![w] = worker'[w]]
  BY Constants DEF IInv, WorkflowTypeOK, Worker, Run, PutEnvelope
<1>2. WorkerOK(w)
  BY DEF IInv, WorkerInv
<1>3. WorkerOK(w)'
  BY <1>1, <1>2, Constants DEF IInv, WorkflowTypeOK, WorkerOK, Invokes, Consumed, Ended, Worker, MayWrite, runVars,
       PutEnvelope
<1> QED
  BY <1>1, <1>2, <1>3, WorkerMoves, Constants DEF IInv, WorkflowTypeOK, WorkerOK, Invokes, runVars, PutEnvelope

\* So is the task.
LEMMA RunTaskStep ==
  ASSUME IInv, NEW w \in Workers, RunTask(w)
  PROVE  IInv'
<1>1. /\ worker[w] \in Worker /\ worker'[w] \in Worker
      /\ worker' = [worker EXCEPT ![w] = worker'[w]]
  BY Constants DEF IInv, WorkflowTypeOK, Worker, Run, RunTask
<1>2. WorkerOK(w)
  BY DEF IInv, WorkerInv
<1>3. WorkerOK(w)'
  BY <1>1, <1>2, Constants DEF IInv, WorkflowTypeOK, WorkerOK, Invokes, Consumed, Ended, Worker, MayWrite, runVars,
       RunTask
<1> QED
  BY <1>1, <1>2, <1>3, WorkerMoves, Constants DEF IInv, WorkflowTypeOK, WorkerOK, Invokes, runVars, RunTask

\* A task that is not placed changes nothing.
LEMMA RunTaskFailsStep ==
  ASSUME IInv, NEW w \in Workers, RunTaskFails(w)
  PROVE  IInv'
<1>1. /\ worker[w] \in Worker /\ worker'[w] \in Worker
      /\ worker' = [worker EXCEPT ![w] = worker'[w]]
  BY Constants DEF IInv, WorkflowTypeOK, Worker, Run, RunTaskFails
<1>2. WorkerOK(w)
  BY DEF IInv, WorkerInv
<1>3. WorkerOK(w)'
  BY <1>1, <1>2, Constants DEF IInv, WorkflowTypeOK, WorkerOK, Invokes, Consumed, Ended, Worker, MayWrite, runVars,
       RunTaskFails
<1> QED
  BY <1>1, <1>2, <1>3, WorkerMoves, Constants DEF IInv, WorkflowTypeOK, WorkerOK, Invokes, runVars, RunTaskFails

\* The envelope is put again.
LEMMA PutTaskArnStep ==
  ASSUME IInv, NEW w \in Workers, PutTaskArn(w)
  PROVE  IInv'
<1>1. /\ worker[w] \in Worker /\ worker'[w] \in Worker
      /\ worker' = [worker EXCEPT ![w] = worker'[w]]
  BY Constants DEF IInv, WorkflowTypeOK, Worker, Run, PutTaskArn
<1>2. WorkerOK(w)
  BY DEF IInv, WorkerInv
<1>3. WorkerOK(w)'
  BY <1>1, <1>2, Constants DEF IInv, WorkflowTypeOK, WorkerOK, Invokes, Consumed, Ended, Worker, MayWrite, runVars,
       PutTaskArn
<1> QED
  BY <1>1, <1>2, <1>3, WorkerMoves, Constants DEF IInv, WorkflowTypeOK, WorkerOK, Invokes, runVars, PutTaskArn

\* The result is of the same step.
LEMMA PutFailedResultStep ==
  ASSUME IInv, NEW w \in Workers, PutFailedResult(w)
  PROVE  IInv'
<1>1. /\ worker[w] \in Worker /\ worker'[w] \in Worker
      /\ worker' = [worker EXCEPT ![w] = worker'[w]]
  BY Constants DEF IInv, WorkflowTypeOK, Worker, Run, PutFailedResult
<1>2. WorkerOK(w)
  BY DEF IInv, WorkerInv
<1>3. WorkerOK(w)'
  BY <1>1, <1>2, Constants DEF IInv, WorkflowTypeOK, WorkerOK, Invokes, Consumed, Ended, Worker, MayWrite, runVars,
       PutFailedResult
<1> QED
  BY <1>1, <1>2, <1>3, WorkerMoves, Constants DEF IInv, WorkflowTypeOK, WorkerOK, Invokes, runVars, PutFailedResult

\* The envelope is put once more.
LEMMA PutPastDeadlineStep ==
  ASSUME IInv, NEW w \in Workers, PutPastDeadline(w)
  PROVE  IInv'
<1>1. /\ worker[w] \in Worker /\ worker'[w] \in Worker
      /\ worker' = [worker EXCEPT ![w] = worker'[w]]
  BY Constants DEF IInv, WorkflowTypeOK, Worker, Run, PutPastDeadline
<1>2. WorkerOK(w)
  BY DEF IInv, WorkerInv
<1>3. WorkerOK(w)'
  BY <1>1, <1>2, Constants DEF IInv, WorkflowTypeOK, WorkerOK, Invokes, Consumed, Ended, Worker, MayWrite, runVars,
       PutPastDeadline
<1> QED
  BY <1>1, <1>2, <1>3, WorkerMoves, Constants DEF IInv, WorkflowTypeOK, WorkerOK, Invokes, runVars, PutPastDeadline

\* A task reports for its own step.
LEMMA TaskReportsStep ==
  ASSUME IInv, NEW i \in Ids, TaskReports(i)
  PROVE  IInv'
<1>1. WorkflowTypeOK'
  BY Constants DEF IInv, WorkflowTypeOK, DispatchInv, Dispatchers, Dispatch, runVars, dispatchVars, sweepVars, TaskReports
<1>2. WorkerInv'
  BY OtherWorkers DEF IInv, WorkerInv, runVars, TaskReports
<1>3. RunShape' /\ AppliedIsConsumed' /\ StepsAreRecorded' /\ NotLost'
  BY Constants DEF IInv, WorkflowTypeOK, RunShape, AppliedIsConsumed, StepsAreRecorded, DispatchInv, NotLost,
       Consumed, Ended, runVars, dispatchVars, sweepVars, TaskReports
<1>4. DispatchInv'
  BY Constants DEF IInv, WorkflowTypeOK, StepsAreRecorded, DispatchInv, Dispatchers, Dispatch, NoDispatch, runVars,
       dispatchVars, sweepVars, TaskReports
<1> QED
  BY <1>1, <1>2, <1>3, <1>4 DEF IInv

\* A task dies.
LEMMA TaskDiesStep ==
  ASSUME IInv, NEW i \in Ids, TaskDies(i)
  PROVE  IInv'
<1>1. WorkflowTypeOK'
  BY Constants DEF IInv, WorkflowTypeOK, DispatchInv, Dispatchers, Dispatch, runVars, dispatchVars, sweepVars, TaskDies
<1>2. WorkerInv'
  BY OtherWorkers DEF IInv, WorkerInv, runVars, TaskDies
<1>3. RunShape' /\ AppliedIsConsumed' /\ StepsAreRecorded' /\ NotLost'
  BY Constants DEF IInv, WorkflowTypeOK, RunShape, AppliedIsConsumed, StepsAreRecorded, DispatchInv, NotLost,
       Consumed, Ended, runVars, dispatchVars, sweepVars, TaskDies
<1>4. DispatchInv'
  BY Constants DEF IInv, WorkflowTypeOK, StepsAreRecorded, DispatchInv, Dispatchers, Dispatch, NoDispatch, runVars,
       dispatchVars, sweepVars, TaskDies
<1> QED
  BY <1>1, <1>2, <1>3, <1>4 DEF IInv

\* ECS forgets a task of a recorded step ...
LEMMA TaskForgottenStep ==
  ASSUME IInv, NEW i \in Ids, TaskForgotten(i)
  PROVE  IInv'
<1>1. WorkflowTypeOK'
  BY Constants DEF IInv, WorkflowTypeOK, DispatchInv, Dispatchers, Dispatch, NoDispatch, runVars, dispatchVars, sweepVars,
       TaskForgotten
<1>2. WorkerInv'
  BY OtherWorkers DEF IInv, WorkerInv, runVars, TaskForgotten
<1>3. RunShape' /\ AppliedIsConsumed' /\ StepsAreRecorded' /\ NotLost'
  BY Constants DEF IInv, WorkflowTypeOK, RunShape, AppliedIsConsumed, StepsAreRecorded, DispatchInv, NotLost,
       Consumed, Ended, runVars, dispatchVars, sweepVars, TaskForgotten
<1>4. DispatchInv'
  BY Constants DEF IInv, WorkflowTypeOK, StepsAreRecorded, DispatchInv, Dispatchers, Dispatch, NoDispatch, runVars,
       dispatchVars, sweepVars, TaskForgotten
<1> QED
  BY <1>1, <1>2, <1>3, <1>4 DEF IInv

\* ... or one of another invocation.
LEMMA OtherForgottenStep ==
  ASSUME IInv, OtherForgotten
  PROVE  IInv'
<1>1. WorkflowTypeOK'
  BY Constants DEF IInv, WorkflowTypeOK, DispatchInv, Dispatchers, Dispatch, NoDispatch, runVars, dispatchVars, sweepVars,
       OtherForgotten
<1>2. WorkerInv'
  BY OtherWorkers DEF IInv, WorkerInv, runVars, OtherForgotten
<1>3. RunShape' /\ AppliedIsConsumed' /\ StepsAreRecorded' /\ NotLost'
  BY Constants DEF IInv, WorkflowTypeOK, RunShape, AppliedIsConsumed, StepsAreRecorded, DispatchInv, NotLost,
       Consumed, Ended, runVars, dispatchVars, sweepVars, OtherForgotten
<1>4. DispatchInv'
  BY Constants DEF IInv, WorkflowTypeOK, StepsAreRecorded, DispatchInv, Dispatchers, Dispatch, NoDispatch, runVars,
       dispatchVars, sweepVars, OtherForgotten
<1> QED
  BY <1>1, <1>2, <1>3, <1>4 DEF IInv

\* The dispatcher takes a task of a recorded step ...
LEMMA DispatchTaskStoppedStep ==
  ASSUME IInv, NEW i \in Ids, DispatchTaskStopped(i)
  PROVE  IInv'
<1>1. WorkflowTypeOK'
  BY Constants DEF IInv, WorkflowTypeOK, DispatchInv, Dispatchers, Dispatch, runVars, dispatchVars, sweepVars, ToSend,
       DispatchTaskStopped
<1>2. WorkerInv'
  BY OtherWorkers DEF IInv, WorkerInv, runVars, DispatchTaskStopped
<1>3. RunShape' /\ AppliedIsConsumed' /\ StepsAreRecorded' /\ NotLost'
  BY Constants DEF IInv, WorkflowTypeOK, RunShape, AppliedIsConsumed, StepsAreRecorded, DispatchInv, NotLost,
       Consumed, Ended, runVars, dispatchVars, sweepVars, ToSend, DispatchTaskStopped
<1>4. DispatchInv'
  BY Constants DEF IInv, WorkflowTypeOK, StepsAreRecorded, DispatchInv, Dispatchers, Dispatch, NoDispatch, runVars,
       dispatchVars, sweepVars, ToSend, DispatchTaskStopped
<1> QED
  BY <1>1, <1>2, <1>3, <1>4 DEF IInv

\* The sweep lists envelopes ...
LEMMA StartSweepStep ==
  ASSUME IInv, NEW S \in SUBSET Ids, StartSweep(S)
  PROVE  IInv'
<1>1. WorkflowTypeOK'
  BY Constants DEF IInv, WorkflowTypeOK, DispatchInv, Dispatchers, Dispatch, NoDispatch, runVars, dispatchVars, sweepVars,
       StartSweep
<1>2. WorkerInv'
  BY OtherWorkers DEF IInv, WorkerInv, runVars, StartSweep
<1>3. RunShape' /\ AppliedIsConsumed' /\ StepsAreRecorded' /\ NotLost'
  BY Constants DEF IInv, WorkflowTypeOK, RunShape, AppliedIsConsumed, StepsAreRecorded, DispatchInv, NotLost,
       Consumed, Ended, runVars, dispatchVars, sweepVars, StartSweep
<1>4. DispatchInv'
  BY Constants DEF IInv, WorkflowTypeOK, StepsAreRecorded, DispatchInv, Dispatchers, Dispatch, NoDispatch, runVars,
       dispatchVars, sweepVars, StartSweep
<1> QED
  BY <1>1, <1>2, <1>3, <1>4 DEF IInv

\* ... and takes those of a recorded step.
LEMMA SweepEnvelopeStep ==
  ASSUME IInv, NEW i \in Ids, SweepEnvelope(i)
  PROVE  IInv'
<1>1. WorkflowTypeOK'
  BY Constants DEF IInv, WorkflowTypeOK, DispatchInv, Dispatchers, Dispatch, runVars, dispatchVars, sweepVars, SweepTakes,
       SweepEnvelope
<1>2. WorkerInv'
  BY OtherWorkers DEF IInv, WorkerInv, runVars, SweepEnvelope
<1>3. RunShape' /\ AppliedIsConsumed' /\ StepsAreRecorded' /\ NotLost'
  BY Constants DEF IInv, WorkflowTypeOK, RunShape, AppliedIsConsumed, StepsAreRecorded, DispatchInv, NotLost,
       Consumed, Ended, runVars, dispatchVars, sweepVars, SweepTakes, SweepEnvelope
<1>4. DispatchInv'
  BY Constants DEF IInv, WorkflowTypeOK, StepsAreRecorded, DispatchInv, Dispatchers, Dispatch, NoDispatch, runVars,
       dispatchVars, sweepVars, SweepTakes, SweepEnvelope
<1> QED
  BY <1>1, <1>2, <1>3, <1>4 DEF IInv

\* The sweep has asked ECS to stop the task.
LEMMA StopTaskStep ==
  ASSUME IInv, StopTask
  PROVE  IInv'
<1>1. WorkflowTypeOK'
  BY Constants DEF IInv, WorkflowTypeOK, DispatchInv, Dispatchers, Dispatch, NoDispatch, runVars, dispatchVars, sweepVars,
       StopTask
<1>2. WorkerInv'
  BY OtherWorkers DEF IInv, WorkerInv, runVars, StopTask
<1>3. RunShape' /\ AppliedIsConsumed' /\ StepsAreRecorded' /\ NotLost'
  BY Constants DEF IInv, WorkflowTypeOK, RunShape, AppliedIsConsumed, StepsAreRecorded, DispatchInv, NotLost,
       Consumed, Ended, runVars, dispatchVars, sweepVars, StopTask
<1>4. DispatchInv'
  BY Constants DEF IInv, WorkflowTypeOK, StepsAreRecorded, DispatchInv, Dispatchers, Dispatch, NoDispatch, runVars,
       dispatchVars, sweepVars, StopTask
<1> QED
  BY <1>1, <1>2, <1>3, <1>4 DEF IInv

\* A sweep that aborts leaves no mark.
LEMMA SweepAbortsStep ==
  ASSUME IInv, SweepAborts
  PROVE  IInv'
<1>1. WorkflowTypeOK'
  BY Constants DEF IInv, WorkflowTypeOK, DispatchInv, Dispatchers, Dispatch, NoDispatch, runVars, dispatchVars, sweepVars,
       SweepAborts
<1>2. WorkerInv'
  BY OtherWorkers DEF IInv, WorkerInv, runVars, SweepAborts
<1>3. RunShape' /\ AppliedIsConsumed' /\ StepsAreRecorded' /\ NotLost'
  BY Constants DEF IInv, WorkflowTypeOK, RunShape, AppliedIsConsumed, StepsAreRecorded, DispatchInv, NotLost,
       Consumed, Ended, runVars, dispatchVars, sweepVars, SweepAborts
<1>4. DispatchInv'
  BY Constants DEF IInv, WorkflowTypeOK, StepsAreRecorded, DispatchInv, Dispatchers, Dispatch, NoDispatch, runVars,
       dispatchVars, sweepVars, SweepAborts
<1> QED
  BY <1>1, <1>2, <1>3, <1>4 DEF IInv

\* A failure or a timeout is stored.
LEMMA PutResultStep ==
  ASSUME IInv, NEW d \in Dispatchers, PutResult(d)
  PROVE  IInv'
<1>1. WorkflowTypeOK'
  BY Constants DEF IInv, WorkflowTypeOK, DispatchInv, Dispatchers, Dispatch, runVars, dispatchVars, sweepVars, ToSend,
       PutResult
<1>2. WorkerInv'
  BY OtherWorkers DEF IInv, WorkerInv, runVars, PutResult
<1>3. RunShape' /\ AppliedIsConsumed' /\ StepsAreRecorded' /\ NotLost'
  BY Constants DEF IInv, WorkflowTypeOK, RunShape, AppliedIsConsumed, StepsAreRecorded, DispatchInv, NotLost,
       Consumed, Ended, runVars, dispatchVars, sweepVars, ToSend, PutResult
<1>4. DispatchInv'
  BY Constants DEF IInv, WorkflowTypeOK, StepsAreRecorded, DispatchInv, Dispatchers, Dispatch, NoDispatch, runVars,
       dispatchVars, sweepVars, ToSend, PutResult
<1> QED
  BY <1>1, <1>2, <1>3, <1>4 DEF IInv

\* The queue drops only what was sent before, and what the run waits for is then still in it.
LEMMA SendResultStep ==
  ASSUME IInv, NEW d \in Dispatchers, NEW dropped \in BOOLEAN, SendResult(d, dropped)
  PROVE  IInv'
<1>1. WorkflowTypeOK'
  BY Constants DEF IInv, WorkflowTypeOK, DispatchInv, Dispatchers, Dispatch, runVars, dispatchVars, sweepVars, SendResult
<1>2. WorkerInv'
  BY OtherWorkers DEF IInv, WorkerInv, runVars, SendResult
<1>3. RunShape' /\ AppliedIsConsumed' /\ StepsAreRecorded' /\ NotLost'
  BY Constants DEF IInv, WorkflowTypeOK, RunShape, AppliedIsConsumed, StepsAreRecorded, DispatchInv, NotLost,
       Consumed, Ended, runVars, dispatchVars, sweepVars, SendResult
<1>4. DispatchInv'
  BY Constants DEF IInv, WorkflowTypeOK, StepsAreRecorded, DispatchInv, Dispatchers, Dispatch, NoDispatch, runVars,
       dispatchVars, sweepVars, SendResult
<1> QED
  BY <1>1, <1>2, <1>3, <1>4 DEF IInv

\* Only what was sent is marked.
LEMMA PutMarkerStep ==
  ASSUME IInv, NEW d \in Dispatchers, PutMarker(d)
  PROVE  IInv'
<1>1. WorkflowTypeOK'
  BY Constants DEF IInv, WorkflowTypeOK, DispatchInv, Dispatchers, Dispatch, runVars, dispatchVars, sweepVars, PutMarker
<1>2. WorkerInv'
  BY OtherWorkers DEF IInv, WorkerInv, runVars, PutMarker
<1>3. RunShape' /\ AppliedIsConsumed' /\ StepsAreRecorded' /\ NotLost'
  BY Constants DEF IInv, WorkflowTypeOK, RunShape, AppliedIsConsumed, StepsAreRecorded, DispatchInv, NotLost,
       Consumed, Ended, runVars, dispatchVars, sweepVars, PutMarker
<1>4. DispatchInv'
  BY Constants DEF IInv, WorkflowTypeOK, StepsAreRecorded, DispatchInv, Dispatchers, Dispatch, NoDispatch, runVars,
       dispatchVars, sweepVars, PutMarker
<1> QED
  BY <1>1, <1>2, <1>3, <1>4 DEF IInv

\* A dispatch that fails leaves no mark.
LEMMA DispatchFailsStep ==
  ASSUME IInv, NEW d \in Dispatchers, DispatchFails(d)
  PROVE  IInv'
<1>1. WorkflowTypeOK'
  BY Constants DEF IInv, WorkflowTypeOK, DispatchInv, Dispatchers, Dispatch, runVars, dispatchVars, sweepVars, DispatchFails
<1>2. WorkerInv'
  BY OtherWorkers DEF IInv, WorkerInv, runVars, DispatchFails
<1>3. RunShape' /\ AppliedIsConsumed' /\ StepsAreRecorded' /\ NotLost'
  BY Constants DEF IInv, WorkflowTypeOK, RunShape, AppliedIsConsumed, StepsAreRecorded, DispatchInv, NotLost,
       Consumed, Ended, runVars, dispatchVars, sweepVars, DispatchFails
<1>4. DispatchInv'
  BY Constants DEF IInv, WorkflowTypeOK, StepsAreRecorded, DispatchInv, Dispatchers, Dispatch, NoDispatch, runVars,
       dispatchVars, sweepVars, DispatchFails
<1> QED
  BY <1>1, <1>2, <1>3, <1>4 DEF IInv

\* The run has not started: nothing is recorded.
LEMMA InitialStates == WorkflowInit => IInv
<1> SUFFICES ASSUME WorkflowInit PROVE IInv
  OBVIOUS
<1>1. WorkflowTypeOK
  <2>1. othersGone \in BOOLEAN
    BY DEF WorkflowInit
  <2>2. applied \in [Keys -> Nat] /\ faults \in 0..MaxFaults /\ messages \subseteq Keys
    BY Constants DEF WorkflowInit
  <2> QED
    BY <2>1, <2>2, Constants DEF WorkflowInit, WorkflowTypeOK
<1>2. RunShape /\ AppliedIsConsumed /\ StepsAreRecorded /\ NotLost
  BY Constants DEF WorkflowInit, RunShape, AppliedIsConsumed, StepsAreRecorded, NotLost, Consumed, Ended, NoRun, Start,
       Keys, Ids
<1>3. WorkerInv /\ DispatchInv
  BY Constants DEF WorkflowInit, WorkerInv, WorkerOK, Invokes, DispatchInv, Idle, NoDispatch
<1> QED
  BY <1>1, <1>2, <1>3 DEF IInv

\* Every step keeps the invariant.
LEMMA InductiveStep == IInv /\ [WorkflowNext]_vars => IInv'
<1> SUFFICES ASSUME IInv, [WorkflowNext]_vars
             PROVE  IInv'
  OBVIOUS
<1>1. ASSUME NEW w \in Workers, WorkerStep(w)
      PROVE  IInv'
  BY <1>1, ReadRunStep, IgnoreEventStep, WriteRunStep, WriteConflictStep, DeleteMessageStep, PutEnvelopeStep, RunTaskStep,
     RunTaskFailsStep, InvokeRefusedStep, PutTaskArnStep, PutFailedResultStep, PutPastDeadlineStep DEF WorkerStep
<1>2. ASSUME NEW w \in Workers, WorkerFails(w) \/ \E m \in messages : Receive(w, m) \/ ReceiveTwice(w, m)
      PROVE  IInv'
  BY <1>2, WorkerFailsStep, ReceiveTwiceStep, ReceiveStep
<1>3. ASSUME NEW i \in Ids, TaskReports(i) \/ TaskDies(i) \/ TaskForgotten(i) \/ DispatchTaskStopped(i)
      PROVE  IInv'
  BY <1>3, TaskReportsStep, TaskDiesStep, TaskForgottenStep, DispatchTaskStoppedStep
<1>4. ASSUME NEW d \in Dispatchers, DispatchStep(d) \/ DispatchFails(d)
      PROVE  IInv'
  BY <1>4, PutResultStep, SendResultStep, PutMarkerStep, DispatchFailsStep DEF DispatchStep
<1>6. CASE OtherForgotten \/ \E S \in SUBSET Ids : StartSweep(S)
  BY <1>6, OtherForgottenStep, StartSweepStep
<1>7. CASE SweepStep
  <2>1. "sweep" \in Dispatchers
    BY DEF Dispatchers
  <2> QED
    BY <1>4, <1>7, <2>1, SweepEnvelopeStep, StopTaskStep, SweepAbortsStep DEF SweepStep, StopTaskThrows, StopOtherThrows
<1>8. CASE DispatchStep("event")
  BY <1>4, <1>8 DEF Dispatchers
<1>5. CASE UNCHANGED vars
  BY <1>5 DEF vars, IInv, WorkflowTypeOK, RunShape, AppliedIsConsumed, StepsAreRecorded, WorkerInv, WorkerOK, MayWrite, Invokes,
       DispatchInv, NotLost, Consumed, Ended
<1> QED
  BY <1>1, <1>2, <1>3, <1>4, <1>5, <1>6, <1>7, <1>8 DEF WorkflowNext

-----------------------------------------------------------------------------
(* The theorems                                                            *)

\* The invariant holds throughout.
LEMMA Invariance == WorkflowSafety => []IInv
  BY InitialStates, InductiveStep, PTL DEF WorkflowSafety

\* The variables of the workflow function, the dispatcher and the stores keep their types, failures included.
THEOREM WorkflowTyped == WorkflowSafety => []WorkflowTypeOK
<1>1. IInv => WorkflowTypeOK
  BY DEF IInv
<1> QED
  BY <1>1, Invariance, PTL

\* However many executions overlap, and however often events are delivered, no event advances the run twice
\* (runWorkflowStep).
THEOREM AtMostOnce == WorkflowSafety => []EventsApplyOnce
<1>1. IInv => EventsApplyOnce
  BY DEF IInv, AppliedIsConsumed, EventsApplyOnce
<1> QED
  BY <1>1, Invariance, PTL

\* In every state in which the run waits for an agent, a message or an envelope that the sweeps take will bring it on
\* (runWorkflowStep, dispatchResult).
THEOREM NeverStranded == WorkflowSafety => []RunIsNotStranded
<1>1. IInv => RunIsNotStranded
  BY DEF IInv, NotLost, DispatchInv, RunIsNotStranded
<1> QED
  BY <1>1, Invariance, PTL
=============================================================================
