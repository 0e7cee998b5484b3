--------------------------- MODULE AgentWorkflow ---------------------------
(***************************************************************************)
(* A workflow run and the agents it invokes, on AWS.                       *)
(*                                                                         *)
(* The workflow function takes a message (the start of the run, or an      *)
(* agent's result), reads the run from S3, asks the step handler what is   *)
(* next, writes the run on the condition that nobody else has, and then    *)
(* invokes the next agent: an envelope in S3, an ECS task, and the task's  *)
(* ARN in the envelope.  The task writes its result to S3 and stops.  The  *)
(* dispatcher, called for every stopped task and by a schedule that sweeps *)
(* the envelopes, sends stored results to the queue of the workflow and    *)
(* marks them as dispatched.  The sweep is one loop, which ends where a    *)
(* request throws.                                                         *)
(*                                                                         *)
(* Every request may fail or lose its answer, every execution may be       *)
(* killed, messages and events come more than once, and tasks die or hang. *)
(*                                                                         *)
(* Data.  Each write of the run that invokes an agent also counts a step,  *)
(* so step n stands for the invocation id of step n, and for the key of    *)
(* its result event; the key of the start event is 0.  A message is its    *)
(* key.  A run is never written back to an earlier value, so the value     *)
(* stands for its ETag.  Of a result the model keeps that it is stored:    *)
(* what the task reports, a failure to start or to finish it, or a timeout *)
(* all advance the run.  Timeouts are chosen by the project, and calls     *)
(* take any time, so every envelope may be found overdue.  The bucket also *)
(* has the envelopes of other invocations: of these the model keeps whether*)
(* the sweep can get past them.                                            *)
(***************************************************************************)
EXTENDS Naturals, FiniteSets

CONSTANTS
  Workers,    \* executions of the workflow function at the same time
  MaxSteps,   \* EZ4_WORKFLOW_MAX_STEPS
  MaxFaults   \* executions that fail or are killed, messages delivered twice at once, and tasks that ECS forgets

ASSUME WorkflowAssumption ==
  /\ IsFiniteSet(Workers)
  /\ MaxSteps \in Nat \ {0}
  /\ MaxFaults \in Nat

VARIABLES
  run,       \* the stored run
  messages,  \* messages of the start and results queues, the ones in flight included
  worker,    \* executions of the workflow function
  envelope,  \* invocations/<agent>/<id>.json
  task,      \* ECS tasks
  result,    \* results/<agent>/<id>.json
  marker,    \* dispatched/<agent>/<id>
  sent,      \* the invocations whose result was ever sent
  disp,      \* executions of the dispatcher: one for an event, one for the schedule
  todo,      \* the overdue envelopes that the sweep has yet to come to
  refused,   \* the steps whose input is not of the agent's schema
  othersGone,\* ECS has forgotten the task of another overdue envelope, which has no result
  applied,   \* history: how often the step of each event was written
  faults     \* how many of these came so far

vars == <<run, messages, worker, envelope, task, result, marker, sent, disp, todo, refused, othersGone, applied, faults>>

runVars == <<run, messages, applied, refused>>
sweepVars == <<todo, othersGone>>
dispatchVars == <<marker, sent, disp, sweepVars>>

-----------------------------------------------------------------------------
(* Types                                                                   *)

Ids == 1..MaxSteps
Keys == 0..MaxSteps
Start == 0

Run == [status : {"none", "running", "completed", "failed"}, step : Keys, trigger : Keys]
NoRun == [status |-> "none", step |-> 0, trigger |-> 0]

Worker == [pc : {"idle", "read", "write", "envelope", "runTask", "arn", "putFailed", "putDeadline", "done"},
           msg : Keys, seen : Run, id : Keys]
Idle == [pc |-> "idle", msg |-> Start, seen |-> NoRun, id |-> 0]

Dispatchers == {"event", "sweep"}
Dispatch == [pc : {"idle", "stop", "put", "send", "mark"}, id : Keys]
NoDispatch == [pc |-> "idle", id |-> 0]

\* "traced" is an envelope with its task's ARN, "gone" a stopped task that ECS no longer knows.
WorkflowTypeOK ==
  /\ run \in Run
  /\ messages \subseteq Keys
  /\ worker \in [Workers -> Worker]
  /\ envelope \in [Ids -> {"none", "bare", "traced"}]
  /\ task \in [Ids -> {"none", "running", "stopped", "gone"}]
  /\ result \subseteq Ids
  /\ marker \subseteq Ids /\ sent \subseteq Ids
  /\ disp \in [Dispatchers -> Dispatch]
  /\ todo \subseteq Ids /\ refused \subseteq Ids /\ othersGone \in BOOLEAN
  /\ applied \in [Keys -> Nat]
  /\ faults \in 0..MaxFaults

\* WorkflowClient.start has sent its message.
WorkflowInit ==
  /\ run = NoRun
  /\ messages = {Start}
  /\ worker = [w \in Workers |-> Idle]
  /\ envelope = [i \in Ids |-> "none"]
  /\ task = [i \in Ids |-> "none"]
  /\ result = {}
  /\ marker = {} /\ sent = {}
  /\ disp = [d \in Dispatchers |-> NoDispatch]
  /\ todo = {} /\ refused = {} /\ othersGone = FALSE
  /\ applied = [k \in Keys |-> 0]
  /\ faults = 0

-----------------------------------------------------------------------------
(* The workflow function                                                   *)

InFlight(m) == \E w \in Workers : worker[w].pc # "idle" /\ worker[w].msg = m

\* The function is called with one message.
Receive(w, m) ==
  /\ worker[w].pc = "idle"
  /\ m \in messages /\ ~InFlight(m)
  /\ worker' = [worker EXCEPT ![w] = [Idle EXCEPT !.pc = "read", !.msg = m]]
  /\ UNCHANGED <<runVars, envelope, task, result, dispatchVars, faults>>

\* A message comes again while it is in flight: the start queue is a standard queue, and of both queues the visibility
\* timeout is the timeout of the function, counted from an earlier moment.
ReceiveTwice(w, m) ==
  /\ worker[w].pc = "idle"
  /\ m \in messages /\ InFlight(m)
  /\ faults < MaxFaults
  /\ faults' = faults + 1
  /\ worker' = [worker EXCEPT ![w] = [Idle EXCEPT !.pc = "read", !.msg = m]]
  /\ UNCHANGED <<runVars, envelope, task, result, dispatchVars>>

WaitingFor == IF run.status = "running" THEN run.step ELSE 0

\* Rule 3: the event that the run was last advanced by, while its agent is waited for.
IsLastEvent(m) == run.status = "running" /\ run.trigger = m

\* Rules 1, 2, 4 and 5: a result without a run, any event of a run that has ended, a result that is not waited for, a
\* start of a run that exists.
IsIgnored(m) ==
  \/ run.status \in {"completed", "failed"}
  \/ m # Start /\ WaitingFor # m
  \/ m = Start /\ run.status # "none"

\* store.read, and the rules that come before the handler: the agent is invoked again, or the handler asked.
ReadRun(w) ==
  LET m == worker[w].msg
  IN /\ worker[w].pc = "read"
     /\ IsLastEvent(m) \/ ~IsIgnored(m)
     /\ worker' = [worker EXCEPT ![w] = IF IsLastEvent(m) THEN [@ EXCEPT !.pc = "envelope", !.id = run.step]
                                        ELSE [@ EXCEPT !.pc = "write", !.seen = run]]
     /\ UNCHANGED <<runVars, envelope, task, result, dispatchVars, faults>>

\* The event is ignored: the function returns at once, and the message is deleted.
IgnoreEvent(w) ==
  LET m == worker[w].msg
  IN /\ worker[w].pc = "read"
     /\ ~IsLastEvent(m) /\ IsIgnored(m)
     /\ messages' = messages \ {m}
     /\ worker' = [worker EXCEPT ![w] = Idle]
     /\ UNCHANGED <<run, applied, refused, envelope, task, result, dispatchVars, faults>>

\* Mutant: the limit of steps is not looked at.
WrittenWithoutLimit(w, next) ==
  IF next = "complete" THEN [worker[w].seen EXCEPT !.status = "completed", !.trigger = worker[w].msg]
  ELSE [status |-> "running", step |-> worker[w].seen.step + 1, trigger |-> worker[w].msg]

\* The run that rules 7, 8 and 9 write.
Written(w, next) ==
  LET seen == worker[w].seen
  IN CASE next = "complete" -> [seen EXCEPT !.status = "completed", !.trigger = worker[w].msg]
       [] next # "complete" /\ seen.step + 1 > MaxSteps ->
            [seen EXCEPT !.status = "failed", !.trigger = worker[w].msg]
       [] OTHER -> [status |-> "running", step |-> seen.step + 1, trigger |-> worker[w].msg]

\* Where the execution goes on after its write.
AfterWrite(w, written) ==
  [worker EXCEPT ![w] =
     IF written.status = "running" THEN [@ EXCEPT !.pc = "envelope", !.seen = NoRun, !.id = written.step]
     ELSE [@ EXCEPT !.pc = "done", !.seen = NoRun]]

\* The step that is written with an input that the agent's schema refuses.
Refuses(w, next) ==
  {i \in Ids : next = "refused" /\ Written(w, next).status = "running" /\ i = Written(w, next).step}

\* Mutant: the write is not conditional.
WriteRunBlindly(w, next) ==
  /\ worker[w].pc = "write"
  /\ run' = Written(w, next)
  /\ worker' = AfterWrite(w, Written(w, next))
  /\ refused' = refused \cup Refuses(w, next)
  /\ applied' = [applied EXCEPT ![worker[w].msg] = @ + 1]
  /\ UNCHANGED <<messages, envelope, task, result, dispatchVars, faults>>

\* The handler has answered (rules 6 to 9) and the run is written, if it is still the one that was read.
WriteRun(w, next) ==
  /\ worker[w].pc = "write"
  /\ run = worker[w].seen
  /\ run' = Written(w, next)
  /\ worker' = AfterWrite(w, Written(w, next))
  /\ refused' = refused \cup Refuses(w, next)
  /\ applied' = [applied EXCEPT ![worker[w].msg] = @ + 1]
  /\ UNCHANGED <<messages, envelope, task, result, dispatchVars, faults>>

\* WorkflowConflictError: the message comes again.
WriteConflict(w) ==
  /\ worker[w].pc = "write"
  /\ run # worker[w].seen
  /\ worker' = [worker EXCEPT ![w] = Idle]
  /\ UNCHANGED <<runVars, envelope, task, result, dispatchVars, faults>>

\* The function returned: its message is deleted.
DeleteMessage(w) ==
  /\ worker[w].pc = "done"
  /\ messages' = messages \ {worker[w].msg}
  /\ worker' = [worker EXCEPT ![w] = Idle]
  /\ UNCHANGED <<run, applied, refused, envelope, task, result, dispatchVars, faults>>

\* A request failed, the handler threw, or the function was killed, before or after the request was served.  The
\* message becomes visible again.
WorkerFails(w) ==
  /\ worker[w].pc # "idle"
  /\ faults < MaxFaults
  /\ faults' = faults + 1
  /\ worker' = [worker EXCEPT ![w] = Idle]
  /\ UNCHANGED <<runVars, envelope, task, result, dispatchVars>>

-----------------------------------------------------------------------------
(* Client.invoke                                                           *)

\* The input is validated first, after the run was written: the message of a refused one comes again and again.
InvokeRefused(w) ==
  /\ worker[w].pc = "envelope"
  /\ worker[w].id \in refused
  /\ worker' = [worker EXCEPT ![w] = Idle]
  /\ UNCHANGED <<runVars, envelope, task, result, dispatchVars, faults>>

\* The envelope is created, or the one of an earlier attempt taken over; nothing is left to do when it has its task.
PutEnvelope(w) ==
  LET i == worker[w].id
  IN /\ worker[w].pc = "envelope"
     /\ i \notin refused
     /\ envelope' = [envelope EXCEPT ![i] = IF @ = "none" THEN "bare" ELSE @]
     /\ worker' = [worker EXCEPT ![w].pc = IF envelope[i] = "traced" THEN "done" ELSE "runTask"]
     /\ UNCHANGED <<runVars, task, result, dispatchVars, faults>>

\* RunTask: the client token makes a second request return the first one's task.
RunTask(w) ==
  /\ worker[w].pc = "runTask"
  /\ task' = [task EXCEPT ![worker[w].id] = IF @ = "none" THEN "running" ELSE @]
  /\ worker' = [worker EXCEPT ![w].pc = "arn"]
  /\ UNCHANGED <<runVars, envelope, result, dispatchVars, faults>>

\* No task could be placed.
RunTaskFails(w) ==
  /\ worker[w].pc = "runTask"
  /\ task[worker[w].id] = "none"
  /\ worker' = [worker EXCEPT ![w].pc = "putFailed"]
  /\ UNCHANGED <<runVars, envelope, task, result, dispatchVars, faults>>

\* The envelope is put again, with the ARN.
PutTaskArn(w) ==
  /\ worker[w].pc = "arn"
  /\ envelope' = [envelope EXCEPT ![worker[w].id] = "traced"]
  /\ worker' = [worker EXCEPT ![w].pc = "done"]
  /\ UNCHANGED <<runVars, task, result, dispatchVars, faults>>

\* The failure becomes the result ...
PutFailedResult(w) ==
  /\ worker[w].pc = "putFailed"
  /\ result' = result \cup {worker[w].id}
  /\ worker' = [worker EXCEPT ![w].pc = "putDeadline"]
  /\ UNCHANGED <<runVars, envelope, task, dispatchVars, faults>>

\* ... and the envelope is put again with a deadline that is over, for the next sweep to find it.
PutPastDeadline(w) ==
  /\ worker[w].pc = "putDeadline"
  /\ envelope' = [envelope EXCEPT ![worker[w].id] = "bare"]
  /\ worker' = [worker EXCEPT ![w].pc = "done"]
  /\ UNCHANGED <<runVars, task, result, dispatchVars, faults>>

-----------------------------------------------------------------------------
(* The agent's task                                                        *)

\* runAgentRuntime: whatever the validation, the hooks and the provider lead to, a result is written, and the task stops.
TaskReports(i) ==
  /\ task[i] = "running"
  /\ result' = result \cup {i}
  /\ task' = [task EXCEPT ![i] = "stopped"]
  /\ UNCHANGED <<runVars, worker, envelope, dispatchVars, faults>>

\* The task dies, or is stopped, without a result.  (One that hangs stays as it is.)
TaskDies(i) ==
  /\ task[i] = "running"
  /\ task' = [task EXCEPT ![i] = "stopped"]
  /\ UNCHANGED <<runVars, worker, envelope, result, dispatchVars, faults>>

\* ECS keeps a stopped task for a while.
TaskForgotten(i) ==
  /\ task[i] = "stopped"
  /\ faults < MaxFaults
  /\ faults' = faults + 1
  /\ task' = [task EXCEPT ![i] = "gone"]
  /\ UNCHANGED <<runVars, worker, envelope, result, dispatchVars>>

\* So it does with the tasks of other invocations.
OtherForgotten ==
  /\ ~othersGone
  /\ faults < MaxFaults
  /\ faults' = faults + 1
  /\ othersGone' = TRUE
  /\ UNCHANGED <<runVars, worker, envelope, task, result, marker, sent, disp, todo>>

-----------------------------------------------------------------------------
(* The dispatcher                                                          *)

\* dispatchResult, up to its check of the marker.
ToSend(i) == IF i \in marker THEN NoDispatch ELSE [pc |-> "send", id |-> i]

\* dispatchTaskStopped: the stored result, or a failure that is stored first.  The event may come again.
DispatchTaskStopped(i) ==
  /\ disp["event"].pc = "idle"
  /\ task[i] \in {"stopped", "gone"}
  /\ disp' = [disp EXCEPT !["event"] = IF i \in result THEN ToSend(i) ELSE [pc |-> "put", id |-> i]]
  /\ UNCHANGED <<runVars, worker, envelope, task, result, marker, sent, sweepVars, faults>>

\* Mutant: a stored result is taken for a dispatched one.
SweepTakesUnstored(i) == envelope[i] # "none" /\ i \notin marker /\ i \notin result

\* The envelope is overdue, and its result was not dispatched.
SweepTakes(i) == envelope[i] # "none" /\ i \notin marker

\* dispatchScheduledSweep lists the envelopes: S are the overdue ones that were not dispatched, the others leave no trace.
StartSweep(S) ==
  /\ disp["sweep"].pc = "idle" /\ todo = {}
  /\ S # {} /\ \A i \in S : SweepTakes(i)
  /\ todo' = S
  /\ UNCHANGED <<runVars, worker, envelope, task, result, marker, sent, disp, othersGone, faults>>

\* One turn of its loop: a stored result is dispatched, an invocation without one timed out, its task stopped before
\* when the envelope has its ARN.
SweepEnvelope(i) ==
  /\ disp["sweep"].pc = "idle" /\ i \in todo
  /\ todo' = todo \ {i}
  /\ disp' = IF SweepTakes(i)
             THEN [disp EXCEPT !["sweep"] =
                     [pc |-> CASE i \in result -> "send" [] envelope[i] = "traced" -> "stop" [] OTHER -> "put",
                      id |-> i]]
             ELSE disp
  /\ UNCHANGED <<runVars, worker, envelope, task, result, marker, sent, othersGone, faults>>

\* The sweep ends where it is, and what is left of its list waits for the next one.
SweepAborts ==
  /\ disp' = [disp EXCEPT !["sweep"] = NoDispatch]
  /\ todo' = {}
  /\ UNCHANGED <<runVars, worker, envelope, task, result, marker, sent, othersGone, faults>>

\* stopTask: the task may report or die until the request takes effect.
StopTask ==
  /\ disp["sweep"].pc = "stop" /\ task[disp["sweep"].id] # "gone"
  /\ disp' = [disp EXCEPT !["sweep"].pc = "put"]
  /\ UNCHANGED <<runVars, worker, envelope, task, result, marker, sent, sweepVars, faults>>

\* Nobody catches the error of ECS about a task it does not know.
StopTaskThrows ==
  /\ disp["sweep"].pc = "stop" /\ task[disp["sweep"].id] = "gone"
  /\ SweepAborts

\* So does the sweep when it comes to such a task of another invocation.
StopOtherThrows ==
  /\ disp["sweep"].pc = "idle" /\ todo # {} /\ othersGone
  /\ SweepAborts

\* The failure or the timeout is stored, over a result that came since.
PutResult(d) ==
  /\ disp[d].pc = "put"
  /\ result' = result \cup {disp[d].id}
  /\ disp' = [disp EXCEPT ![d] = ToSend(disp[d].id)]
  /\ UNCHANGED <<runVars, worker, envelope, task, marker, sent, sweepVars, faults>>

\* Mutant: the result is marked before it is sent.
MarkBeforeSend(d, dropped) ==
  /\ disp[d].pc = "send"
  /\ marker' = marker \cup {disp[d].id}
  /\ disp' = [disp EXCEPT ![d].pc = "mark"]
  /\ UNCHANGED <<runVars, worker, envelope, task, result, sent, sweepVars, faults>>

\* The FIFO queue drops a message whose id it has seen within five minutes, and takes it later.
SendResult(d, dropped) ==
  LET i == disp[d].id
  IN /\ disp[d].pc = "send"
     /\ dropped => i \in sent
     /\ messages' = IF dropped THEN messages ELSE messages \cup {i}
     /\ sent' = sent \cup {i}
     /\ disp' = [disp EXCEPT ![d].pc = "mark"]
     /\ UNCHANGED <<run, applied, refused, worker, envelope, task, result, marker, sweepVars, faults>>

PutMarker(d) ==
  /\ disp[d].pc = "mark"
  /\ marker' = marker \cup {disp[d].id}
  /\ disp' = [disp EXCEPT ![d] = NoDispatch]
  /\ UNCHANGED <<runVars, worker, envelope, task, result, sent, sweepVars, faults>>

\* A request failed, or the function was killed.  The dispatcher has no retries (retryAttempts 0): the event is gone, and
\* so is the rest of the sweep's list, until the next sweep.
DispatchFails(d) ==
  /\ disp[d].pc # "idle" \/ (d = "sweep" /\ todo # {})
  /\ faults < MaxFaults
  /\ faults' = faults + 1
  /\ disp' = [disp EXCEPT ![d] = NoDispatch]
  /\ todo' = IF d = "sweep" THEN {} ELSE todo
  /\ UNCHANGED <<runVars, worker, envelope, task, result, marker, sent, othersGone>>

-----------------------------------------------------------------------------
(* Specification                                                           *)

WorkerStep(w) ==
  \/ ReadRun(w) \/ IgnoreEvent(w)
  \/ \E next \in {"complete", "invoke", "refused"} : WriteRun(w, next)
  \/ WriteConflict(w) \/ DeleteMessage(w)
  \/ InvokeRefused(w) \/ PutEnvelope(w) \/ RunTask(w) \/ RunTaskFails(w) \/ PutTaskArn(w)
  \/ PutFailedResult(w) \/ PutPastDeadline(w)

DispatchStep(d) ==
  PutResult(d) \/ (\E dropped \in BOOLEAN : SendResult(d, dropped)) \/ PutMarker(d)

\* The sweep goes on, with one envelope after another.
SweepStep ==
  \/ \E i \in Ids : SweepEnvelope(i)
  \/ StopTask \/ StopTaskThrows \/ StopOtherThrows
  \/ DispatchStep("sweep")

WorkflowNext ==
  \/ \E w \in Workers :
       \/ WorkerStep(w) \/ WorkerFails(w)
       \/ \E m \in messages : Receive(w, m) \/ ReceiveTwice(w, m)
  \/ \E i \in Ids : TaskReports(i) \/ TaskDies(i) \/ TaskForgotten(i) \/ DispatchTaskStopped(i)
  \/ OtherForgotten
  \/ \E S \in SUBSET Ids : StartSweep(S)
  \/ SweepStep \/ DispatchStep("event")
  \/ \E d \in Dispatchers : DispatchFails(d)

WorkflowSafety == WorkflowInit /\ [][WorkflowNext]_vars

\* The queues deliver their messages, and executions that are not killed go on.  Sweeps come again and again, and once
\* the deadline of an envelope is over they find it overdue; in which order a sweep takes its envelopes, and where it
\* aborts, is not up to fairness.  Tasks and their events are not relied on: a task may hang, and its event may be lost.
WorkflowFairness ==
  /\ \A w \in Workers : WF_vars(WorkerStep(w))
  /\ WF_vars(\E w \in Workers, m \in messages : Receive(w, m))
  /\ \A i \in Ids : SF_vars(\E S \in SUBSET Ids : i \in S /\ StartSweep(S))
  /\ WF_vars(SweepStep)

WorkflowSpec == WorkflowSafety /\ WorkflowFairness

-----------------------------------------------------------------------------
(* Properties                                                              *)

\* No event advances the run twice, however often it is delivered, dispatched or timed out, and whichever executions
\* overlap (runWorkflowStep: rules 3 and 4, the conditional write).
EventsApplyOnce == \A k \in Keys : applied[k] <= 1

\* A run that waits for an agent is not forgotten: the message that makes the function invoke the agent (again) is still
\* there, or the agent's envelope is, and the sweeps still list it or its result waits in the queue (runWorkflowStep:
\* written FIRST, then invoked; dispatchResult: sent, then marked).
RunIsNotStranded ==
  run.status = "running" =>
    \/ run.trigger \in messages
    \/ envelope[run.step] # "none" /\ (run.step \in marker => run.step \in messages)

Ended == run.status \in {"completed", "failed"}

\* The run waits for an agent that refuses its input, or no sweep gets past a task that ECS no longer knows: the one
\* that the run waits for, or one of another invocation.
Blocked ==
  \/ othersGone
  \/ run.status = "running" /\ run.step \in refused
  \/ run.status = "running" /\ task[run.step] = "gone" /\ run.step \notin result

\* A run ends, although executions are killed, sweeps abort, events are lost and tasks hang, unless it is blocked for
\* good by a refused input or by a forgotten task (dispatchScheduledSweep, Client.invoke).
RunsEndUnlessBlocked == <>Ended \/ <>[]Blocked
=============================================================================
