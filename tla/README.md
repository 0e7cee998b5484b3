# TLA+ verification of EZ4

EZ4 turns a TypeScript project into infrastructure: contracts (HTTP gateways, queues, topics, schedulers, databases,
storage, ...) are read from the source by reflection, become a map of *entries* (resources with dependencies), and a
provider deploys the map to AWS, emulates it on the developer's machine, or documents it. This directory holds the
TLA+ specifications of the parts of EZ4 whose correctness depends on the order of steps: what is interleaved, retried,
interrupted, or half done. Source paths below are relative to the repository root.

## 1. Inventory

| Component | Source | State it keeps | Operations | What is hard |
|---|---|---|---|---|
| Deploy engine | `foundation/state/src/state` | old and new entry maps, step list, succeeded / failed maps, post-action batches | `planSteps`, `applySteps`, `hydrateState` | one of many steps failing; keeping a state that can be loaded again; order of deletions; post actions that fail after everything else succeeded |
| Deploy protocol | `foundation/project/src/{deploy,utils/state.ts,terminal/commands}`, `providers/aws/aws-common/src/common` | lock item, stored state, checksum of the plan | load, lock, check, apply, save, unlock, shutdown handler | concurrent runs, signals with requests in flight, crashes, retried conditional writes |
| Local queue service | `providers/local/local-queue/src/service` | messages with visibility and receipts, deduplication windows, claims, waiters | send, receive, delete, change visibility, poll, stop | receipts against timeouts, group order, redelivery, dead letters, draining at shutdown |
| Queue batch runtime (local) | `providers/local/local-queue/src/handlers/lambda.ts` | per-batch turns, acknowledgements, claims | process a batch of records | partial failure, a deadline racing a late acknowledgement, key slots, idempotency |
| Queue runtime (deployed) | `providers/aws/aws-queue/lib/message.ts` | DynamoDB claims, per-invocation turns | the same over SQS and DynamoDB | a dead invocation, leases that expire while a handler runs, claim writes that fail |
| Queue forwarder | `providers/local/local-queue/src/client/remote.ts` | ordered buffer of messages to another project, a retry timer, time waited | enqueue, send one at a time, retry, drop, stop | order kept over retries, a give-up time per message, a stop during a request |
| Local scheduler | `providers/local/local-scheduler/src` | events and timer handles by identifier, runs under way | set, create, update and delete events, fire, retry, reload | an event replaced, deleted or reloaded while its handler runs or waits for its retry |
| Local topic | `providers/local/local-topic/src` | subscriptions | publish, fan out | one subscriber failing |
| Local storage, cache, database, gateway, distribution, agent, encryption | `providers/local/*` | in-memory or file stores, sockets | CRUD, requests, connections | mostly request/response |
| Project serve, reload, proxy | `foundation/project/src/{serve,emulator,proxy}` | emulators, routes, port ownership | start, reload, stop, route, elect a proxy daemon | restart while requests are in flight, port races |
| Agent workflows, invocation and dispatch | `providers/aws/aws-agent/src/{workflow,dispatch,client.ts,runtime/main.ts}` | S3 objects: the run, envelopes, results, dispatch markers; messages in two queues; ECS tasks | start a run, advance it by an event, invoke an agent, report, dispatch a result, sweep | concurrent executions, crashes between two writes, doubled and lost events, tasks that hang |
| Agent task internals | `providers/aws/aws-agent/src/{runtime,workspace}` | a shared git cache with a lock and leases | check out, run the provider, publish | stale locks, pruning against publishing; mostly I/O |
| PostgreSQL client and migrations | `libraries/{pgclient,pgmigration,pgsql}`, `providers/aws/aws-aurora`, `providers/raw` | transactions, repositories | query building, transactions, schema diffs | pure translation; transaction nesting |
| Resource handlers | `providers/aws/*/src/**/{handler,client}.ts` | none of their own | create, update, replace, delete of one resource | external API behaviour |
| Contracts, reflection, schema, transform, validator, common, utils, logger | `contracts/*`, `foundation/*` | none (pure) | metadata, types, validation | data shapes, no concurrency |
| Documentation generators, VS Code extension, CI actions | `providers/docs`, `extensions/vscode`, `.github` | none | text output | out of scope |

The properties that make them correct:

* **Deploy engine**: whatever handlers do, the state that is saved can be loaded by the next deploy (every dependency of
  a saved entry is saved); a resource is never created before, nor deleted while something deployed still
  needs, what it depends on; a finished deploy leaves no resource the state does not know of, and no entry is let go
  before its resource is gone.
* **Deploy protocol**: one run applies at a time; a save replaces exactly the state the plan was made from; locks are
  given back, and only by their owner.
* **Queues**: a message that was not acknowledged comes back; a deleted one never does; an acknowledgement with an
  expired receipt has no effect; messages of one group are handled one at a time and in order; a message goes to the
  dead-letter queue after exactly the configured attempts; a key marked done is not handled again within its window.
* **Agent workflows**: an event advances its run once, however often it comes; a run that waits for an agent can always go
  on; a started run ends, unless its agent refuses its input or a forgotten task stops the sweeps.
* **Queue forwarder**: messages reach their owner in the order they were sent; none waits for longer than its delays allow,
  and each is settled.
* **Local scheduler**: only the event that is there runs; it is pending exactly once, and done some time.

## 2. Modules

| Module | What it is |
|---|---|
| `DeployLock` | the deploy protocol: runs, lock table, state store, messages in flight |
| `StateHistory` | its promise: the stored state is a linear history |
| `DeployLockProofs` | the proofs about `DeployLock`, and that it implements `StateHistory` |
| `DeployState` | the deploy engine: plan, apply, post actions, save, over any sequence of deploys |
| `DeployStateProofs`, `DeployLiveProofs` | the proofs about `DeployState`: the saved state and the order of cleanups; the state against the infrastructure |
| `LocalQueue` | the emulator's queue service, its pollers, clients and drain waiters |
| `LocalQueueProofs` | the proofs about `LocalQueue` |
| `QueueRuntime` | the deployed runtime of a queue subscription over SQS and the claims table |
| `QueueRuntimeProofs` | the proofs about `QueueRuntime` |
| `AgentWorkflow` | a workflow run: the step function, the invocation of agents, their tasks, the dispatcher and the sweep |
| `AgentWorkflowProofs` | the proofs about `AgentWorkflow` |
| `QueueForwarder` | the forwarder of a local project to a queue that another one owns |
| `QueueForwarderProofs` | the proofs about `QueueForwarder` |
| `LocalScheduler` | the emulator's scheduler: events, timers, runs and retries |
| `LocalSchedulerProofs` | the proofs about `LocalScheduler` |
| `MC*` | the instances TLC checks: small sets, and the projects and subscriptions considered |

A definition written next to another one with the comment *Mutant* is a plausible bug of that definition. It is used by
no specification: replacing the definition by it must break the property PROJECT.json names, which shows that the
property depends on that line of the code.

### 2.1 `DeployLock` (deploy protocol)

One run of `ez4 deploy` or `ez4 destroy` is a pair of control points: `main[r]` for the command's flow (load and plan,
confirm, `performDeploy`, put the lock, `assertStateUnchanged`, apply, save, release) and `proc[r]` for its process
(running, or how far `handleShutdown` is). A signal does not stop the main flow: both go on until the handler's release
is answered and it exits, exactly as in `perform.ts`. The DynamoDB table and the S3 bucket are `lock` and `stored`;
`requests` and `replies` are what is in flight between a run and them.

| Code | Actions |
|---|---|
| `deploy.ts`, `destroy.ts`: load, plan, confirm | `Load`, `Abort`, `EnterPerform` |
| `perform.ts`: acquire, callback, release | `SendLock`, `OnLockReply`, `Check`, `SendSave`, `ApplyThrows`, `OnSaveReply`, `OnUnlockReply` |
| `perform.ts`: `handleShutdown` | `Signal`, `SendRelease`, `OnReleaseReply` |
| the process is killed | `Crash` |
| `lock.ts`, `state.ts` at the services | `TakeLock`, `TakeUnlock`, `TakeSave` |
| the clients' retries (`maxAttempts: 10`) | `LoseReply`: the request took effect, its reply is lost, it is sent again |

A stored state is identified by the run that wrote it, since a save always has its own `lastUpdate` and so its own
checksum. What a run applies is `DeployState`'s subject; here it either reaches its save or throws.

### 2.2 `DeployState` (deploy engine)

`saved` is the state in the store, `live` the infrastructure (what exists and what each resource relies on). An entry is
reduced to whether it is there, its dependencies (a change of which also stands for any change of its configuration)
and its `partial` flag.

| Code | Actions |
|---|---|
| `plan.ts`, `hydrate.ts`: changes in dependency layers, then removals | `StartDeploy`, `PlanPendingChanges`, `HydrateState`, `PlanPendingRemoval`, `PlanReady`, `PlanThrows` |
| `apply.ts`: `applyPendingStep` and its early returns | `SkipStep`, `NoopStep`, `CallHandler`, `HandlerNotFound`, `HandlerReturns`, `HandlerThrows` |
| `apply.ts`: folding a layer into the succeeded and failed maps | `FoldLayer`, `StepsDone` |
| `apply.ts`: post actions, batch after batch, nested ones behind | `NextBatch`, `SkipPost`, `CallPost`, `PostReturns`, `PostThrows` |
| the command: save, or end without saving | `SaveResult`, `EndRejected` |

Handlers of one layer run concurrently, up to `Concurrency` (`Tasks.run`), and each one returns, returns with a warning
(a partial result) or throws, having registered post actions or not, deletions as well as changes. A handler makes
several requests (`aws-function`'s creates the function and then sets its concurrency, retries and loop detection), so one
that throws has left its resource as it was or half way (`HalfDone`): created or changed, or already removed. Such a
resource is marked in `live[i].partial`, which is the truth about the infrastructure; the engine knows nothing of it. What
handlers may do is part of the setup chosen in the initial state. Every deploy starts from what the last one saved.

### 2.3 `LocalQueue` (local queue service)

One step is one turn of the event loop. Messages are numbered in sending order, and the n-th receive of a message hands
out receipt n. What a batch does with its messages is open: it deletes them, hands them back, or forgets them, in any
order and at any time, also after their visibility timeout. `delay` is the queue's own delay, fixed when it is created;
a message of a standard queue may have another one, a message of a FIFO queue may not (`assertMessageDelay`).

| Code | Actions |
|---|---|
| `queue.ts`: send, receive, delete, change visibility | `Send`, `ReceiveMessages` (part of every poll), `Ack`, `HandBack` |
| `queue.ts`: wake-up timer, listeners, expiry, dead letters | `WakeUp`, `Notify`, `GetDeadLetterMessages` |
| `poller.ts`: poll, batching window, end of a batch | `PollQueue`, `WindowTimer`, `EndBatch` |
| `queue.ts`, `local.ts`: clients that poll, waiters for the drain | `PollMessages`, `ClientWoken`, `WaitForDrain`, `CheckDrain` |
| shutdown | `Shutdown` |

Listeners run once per turn that changed something, one after another with nothing in between (`notifying`, `due`), and
timers fire late at will: `WakeUp` is enabled from its time on, and any other step may come first.

### 2.4 `QueueRuntime` (deployed queue runtime)

Several invocations of one subscription run at once. A record is at one of the places of `Places`, and one step of it is
one request to SQS or DynamoDB, or one call of the handler or a hook. A request fails without effect, takes effect and
is answered, or takes effect and its answer is lost. An invocation may die at any time and is stopped when its timeout
passes; what it wrote stays. `sub` (chosen in the initial state) is what the subscription declares.

| Code (`message.ts`) | Actions |
|---|---|
| `processAllRecords`: turns, groups, time left | `HasTurn`, `Skip`, `Begins`, `End` |
| `processRecord` up to the handler | `WaitAgain`, `Invalid`, `TakeClaim`, `BeginWithoutClaim`, `TakeSlot`, `WaitForSlot`, `Unclaim`, `Consume` |
| the handler, `retry`, `defer` | `HandlerRetries`, `HandlerDefers`, `HandlerEnds`, `HandlerThrows` |
| after it: claim, acknowledgement, hooks, `finally` | `Settle`, `AckMessage`, `OnDone`, `Leave`, `Free` |
| `catch`, `failRecord` | `Catch`, `KeepUnknown`, `FailRelease`, `RetryMessage` |
| `takeClaim`, `keepClaim`, `releaseClaim` | `IsFree`, `Take`, `Keep`, `Release` |
| `sqsEntryPoint`: the batch response or a failed invocation | `Return`, `Die` |
| SQS and the event source mapping (external) | `Batches`, `Invoke`, `IsCurrent` |

Time is counted in fractions of a second (`Second` ticks each), because leases are counted in whole seconds
(`getEpochSeconds`) and the function's timeout is not.

### 2.5 `AgentWorkflow` (agent workflows on AWS)

One run of a workflow: the message that starts it, the executions of the workflow function, the agents it invokes one
after another, and the dispatcher. Everything durable is an object in S3 or a message: `run`, `envelope` (with the task's
ARN or without), `result`, `marker`, `messages`. The control points are those of the executions (`worker[w].pc`, between
two requests) and of the two ways into the dispatcher (`disp["event"]`, `disp["sweep"]`).

| Code | Actions |
|---|---|
| `workflow/client.ts`: `start` | `WorkflowInit` |
| `workflow/handler.ts`: `handleWorkflowEvent`, called by SQS | `Receive`, `ReceiveTwice` (any message, since the visibility timeouts are the function's timeout), `DeleteMessage`, `WorkerFails` |
| `workflow/runtime.ts`: `runWorkflowStep`, rules 1 to 5 | `ReadRun`, `IgnoreEvent` |
| rules 6 to 9, the conditional write | `WriteRun`, `WriteConflict` |
| `client.ts`: `Client.invoke` | `InvokeRefused` (the input is not of the agent's schema), `PutEnvelope`, `RunTask`, `RunTaskFails`, `PutTaskArn`, `PutFailedResult`, `PutPastDeadline` |
| `runtime/main.ts`: `runAgentRuntime` | `TaskReports`; `TaskDies`, `TaskForgotten`, `OtherForgotten` are ECS |
| `dispatch/handler.ts`: `dispatchTaskStopped` | `DispatchTaskStopped`, `PutResult` |
| `dispatchScheduledSweep` | `StartSweep`, `SweepEnvelope`, `StopTask`, `StopTaskThrows`, `StopOtherThrows`, `PutResult` |
| `dispatchResult` | `SendResult`, `PutMarker`; `DispatchFails` |

Step n of the run stands for the id of its invocation and the key of its result event, and the value of the run for its
ETag (no write restores an earlier value). Every kind of result advances the run alike, so `result` only says which are
stored. A failing request, a lost answer and a killed execution all look the same to what is left behind, and are one
action per actor. Time is left out: any envelope may be overdue, also one whose agent is about to answer.

A sweep is one loop over the envelopes it listed (`todo`), in any order, and ends where a request throws (`SweepAborts`).
`stopTask` throws for a task that ECS has forgotten; the bucket has the envelopes of other invocations too, and of them
the model keeps whether such a task is among them (`othersGone`). A step may be written with an input that its agent
refuses (`refused`): its message then comes back for ever, as the queues have no dead-letter queue.

### 2.6 `QueueForwarder`

One step is what runs between two awaits of `sendPendingMessages`. The variables are those of `createQueueForwarder`;
`request` is the message of a request on its way, which may no longer be in the buffer.

| Code (`client/remote.ts`) | Actions |
|---|---|
| `forwardMessage` | `ForwardMessage` |
| `sendMessage` answers: taken or refused; unavailable | `Sent`; `Unavailable` (the owner may have taken the message) |
| `dropExpiredMessages`, the retry timer | `DropExpiredMessages`, `Retry` |
| `stop` | `Stop` |

### 2.7 `LocalScheduler`

Each event that is scheduled is an object of its own; the model numbers them (`versions`), as `isCurrentEvent` compares
objects. `timers` holds handles, also of timeouts that have fired; `timeouts` are the ones that will. A reload is
`DeleteScheduler` and then `CreateScheduler`, with runs of the old one still under way.

| Code | Actions |
|---|---|
| `provider/local.ts`: bootstrap, shutdown | `CreateScheduler`, `DeleteScheduler` |
| `scheduler.ts`: `setEvent`, `createEvent`, `updateEvent`, `deleteEvent` | `ScheduleEvent`, `DeleteEvent` |
| `scheduleEvent`, `createTimer`, `handlers/timer.ts`: timeouts fire | `FireTimeout`, `FireTimer` |
| `runHandler` | `HandlerReturns`, `HandlerRetries`, `HandlerGivesUp`, `HandlerAbandoned` |

## 3. What TLC checks

Every property is commented in its module with the code it is about. Distinct states are those of the runs as configured.

| Run | Instance | Distinct states | Shows |
|---|---|---|---|
| `lock_safety` | 3 runs, signals, crashes, 1 lost reply | 1,072,258 | runs that were not interrupted exclude each other (`MutualExclusion`); the state a run has checked stays in place under its lock, unless an interrupted run saves over it (`CheckedStateStands`); until an interruption a save replaces the state its plan was made from (`SavesExtendTheirPlan`) |
| `lock_liveness` | 3 runs, no signals | 6,678 | locks are released, runs end, the store is a linear history (`StateIsLinear`, the refinement of `StateHistory`) |
| `lock_orphan` | 2 runs, signals | violation | see finding 1 |
| `state_engine` | all graphs of 3 entries; 3 layered projects with nested post actions; chains with handlers that throw half way; all graphs of 2 entries, cycles and dangling ones too, with handlers that throw half way or after registering a post action, for changes or for deletions | 1,540,367 | the saved state loads, resources come and go in dependency order, nothing deployed is forgotten, no entry is let go before its resource is gone, entries describe their resources; cleanups wait for all rollouts and never run while code that failed to be replaced still relies on what they remove |
| `state_adverse` | all graphs of 2 entries; handlers that register and throw; post actions of deletions; a missing provider | 181,068 | every deploy ends |
| `state_unhandled` | a deletion with no handler | violation | see finding 2 |
| `queue_service` | standard and FIFO queue, with and without a delay, 2 messages, 2 attempts, batches of 2 | 1,426,592 | receipts, group exclusion and order, timers, wake-ups and the drain |
| `queue_runtime` | 6 subscriptions, 2 invocations | 1,041,918 | keys and slots are exclusive, kept keys stay kept, nothing is lost, groups run in order, what ran is deleted, every way out gives its claims back |
| `queue_lease` | a slot limit of 1, no failures | violation | see finding 3 |
| `agent_workflow` | 2 executions, 2 steps, 1 failure, doubled delivery or forgotten task; refused inputs; tasks that die, hang or report late | 389,855 | events apply once, a run that waits can go on, every run ends unless it is blocked for good |
| `forwarder_retries` | 4 messages, 2 delays, an owner that takes, refuses, misses or loses its answer; a stop | 53,060 | messages arrive in order, wait for a bounded time and settle |
| `scheduler_events` | a static or a dynamic scheduler, a reload, events replaced and deleted, 1 retry | 41,886 | only the current event runs, it is pending once, and done some time |

### Bounds, and why they are enough

* **Deploy protocol.** Three runs: one that holds the lock, one that lost it to a signal or a crash, one that comes next.
  One lost reply makes every kind of request be taken twice; the proofs remove both bounds. Runs are interchangeable
  (symmetry); the liveness run uses no symmetry.
* **Deploy engine.** Three entries give chains, forks, joins, replaced dependencies and removals of inner nodes; any
  number of deploys may follow each other, since the state between two of them is only `saved` and `live`. Two handlers
  at once interleave every pair. `MaxNesting = 1` is a cleanup registered by a rollout, the deepest the providers use.
  Handlers that throw half way or after they registered a post action, post actions of deletions, cycles and dangling
  dependencies come together on graphs of two entries: one that depends on the other is enough for every such hardship
  to meet every other. A setup, chosen in the initial state, says which projects are deployed and what handlers may do;
  the setups are closed under permutations of the entries, so symmetry is sound.
* **Local queue.** Two messages are an earlier and a later one of a group; two attempts reach the dead-letter queue;
  `MaxTime = 3` passes the visibility timeout once, the deduplication interval once and the retention once. One poller
  with two batches plus one client are the consumers that compete. The branch of `receiveMessages` for a message of a
  FIFO group that is not visible yet (`queue.ts:274`) is in the model and never decides alone: the queue's delay is one for
  all its messages, so while an earlier message waits for it the later ones wait too, and a message that was handed back
  counts as in flight. What orders a group are the messages in flight and the order in which a receive goes through them.
* **Deployed queue runtime.** Two invocations overlap, or the second takes over what the first left. The six
  subscriptions are: key and slot (with a failure, and again with a timeout of two seconds, so that a handler is seen
  well before and close to the end of its lease), deferring with and without a key, FIFO with two workers and each
  record acknowledged, FIFO acknowledged by the batch. One failure at a time, at any request or hook; `MaxMessages = 3` leaves room for one copy of two
  messages, or two of one. `CHECK_DEADLOCK FALSE`: an empty queue, or the end of the bounded clock, is a proper end.
* **Agent workflows.** Two executions are two deliveries of one event, or an old event and the next one. Two steps are a
  result that continues and one that ends the run, and the limit of steps is reached. The proofs remove all three bounds
  for the safety properties. The one fault is a failed request or a killed execution, a doubled delivery or a task that ECS forgot, at any
  point; dying and hanging tasks, lost events and refused inputs are not counted. Sweeps come for ever. `CHECK_DEADLOCK FALSE`: a run that has ended leaves nothing to do.
* **Queue forwarder.** Four messages: one on its way, two that wait since different times, one that comes while they do. Two delays are a first
  one and the last one, which repeats. A forwarder that has settled everything rests.
* **Local scheduler.** Two identifiers and four versions are events that are replaced, deleted and created again beside
  each other; two instances are a reload. One retry puts a second timeout under an identifier that already had one. A
  static scheduler has three dates: one whose run is still retried, one that is due, one that comes.

### Fairness

* `DeployLock!Spec`: weak fairness of a run's steps inside `performDeploy`, of its shutdown handler and of the services:
  a process that is not killed continues after each await, and the services answer. Nothing makes a user start, confirm
  or interrupt a run. `ApplyThrows` needs none, since a save is always possible instead.
* `DeployState!Spec`: weak fairness of the engine as a whole: handlers and callbacks return or throw. Nobody has to start a
  deploy. That post actions end rests on `MaxNesting`: a callback that registers another one for ever never ends.
* `AgentWorkflow!WorkflowSpec`: weak fairness of the executions and of the delivery of messages (Lambda and SQS), and of
  the steps of a sweep that has started. Strong fairness is of the start of sweeps alone: the schedule comes every 15
  minutes, and once an envelope's deadline is over each sweep lists it. In which order a sweep takes its envelopes and
  where it aborts is not up to fairness, so an envelope that always throws starves the others: `RunsEndUnlessBlocked`
  says that nothing else does. Neither tasks nor the events of stopped tasks have any fairness: they hang and get lost.
* `QueueForwarder!ForwarderSpec`: requests end and timers fire. `LocalScheduler!SchedulerSpec`: timers fire and handlers end.
* `LocalQueue` and `QueueRuntime` state no liveness; `DrainIsNoticed` and `TimerCoversMessages` say as invariants
  that whoever should be called has a call pending, `PollersDontSleep` that no step takes it away from a poller.

## 4. What is proved

`DeployLockProofs`, checked by TLAPS for any set of runs, any number of lost replies, with and without signals and
crashes (the only assumption is `ConstantsAssumption`):

* `TypeCorrect`: `Safety => []TypeOK`.
* `LockExcludes`: `Safety => []MutualExclusion`.
* `NoLostUpdate`: `Safety => SavesExtendTheirPlan`.
* `OwnerReleases`: `Safety => OnlyTheOwnerReleases`.
* `CheckedStands`: `Safety => []CheckedStateStands`.
* `ImplementsHistory`: if no signal reaches a run, `Safety => StateIsLinear`, with the checksum a run loads as the base of
  its plan. The hypothesis is needed: an interrupted run may save after its lock is gone (section 5).

`MutualExclusion` is not inductive: it says nothing of what is in flight. The inductive invariant `IInv` adds

* `CriticalHoldsLock`, the reason for exclusion: a run in its callback owns the item until it is interrupted;
* `PutInFlight` and `OneReply`: a grant on its way is backed by the lock, and a run waits for one answer only. Without
  them a reply to an earlier attempt could let a run in after its lock is gone;
* `ReleaseInFlight`, `ReleaseAnswered`: a release is only in flight once its run is past the callback. Replies are
  constrained like requests, because a lost reply turns into its request again;
* `SignalMessages`: only an interrupted run has releases of the shutdown handler in flight;
* `SaveInFlight`: a save is only in flight while its run waits for it, so none lands after the release;
* `PlanIsCurrent`: from its check to its save, a run's plan is of the state in the store. This gives `NoLostUpdate`, and
  the commit steps of `ImplementsHistory`.

`InductiveStep` has one case per action; `StoreStep` shows that every step plans, commits or stutters.
`CheckedStateStands` is inductive on top of `IInv`: a save in flight is of a run in its callback, which has the lock or was
interrupted.

`AgentWorkflowProofs`, for any finite set of executions, any limit of steps and any number of failures
(`WorkflowAssumption`):

* `WorkflowTyped`: `WorkflowSafety => []WorkflowTypeOK`.
* `AtMostOnce`: `WorkflowSafety => []EventsApplyOnce`.
* `NeverStranded`: `WorkflowSafety => []RunIsNotStranded`.

Neither property is inductive. `EventsApplyOnce` counts writes and says nothing of who may write next;
`RunIsNotStranded` says nothing of an execution that is about to delete the message it rests on. The inductive
invariant `IInv` adds

* `RunShape`: a run that waits for step n was advanced by event n - 1, so at any time there is one event to wait for;
* `AppliedIsConsumed`: the events that were applied are exactly those before it (all, once the run has ended);
* `StepsAreRecorded`: envelopes, tasks, sent results and messages are all of steps the run has recorded (it is written
  first), so a step that is written next finds none of its own;
* `WorkerInv`: an execution keeps its message until its event is consumed, may only write what it has read, invokes the
  agent that its event led to, and ends with the agent's envelope in place or the run ended;
* `DispatchInv`: what is marked was sent, and what is dispatched is of a recorded step;
* `NotLost`: a result that the run waits for is in the queue once it was sent, because only a consumed event is deleted.

`WorkerMoves` is the common part of all steps in which an execution does not write the run; `WriteRunStep` is the
conditional write, where the run an execution has read is the run as it is.

`DeployStateProofs` and `DeployLiveProofs`, for any finite set of entries, any setups and any number of deploys, handlers
at once and levels of nested post actions (`ConstantsAssumption`, `SetupsAssumption`):

* `TypeCorrect`, `StateLoads` (`Safety => []SavedStateLoads`), `CleanupsLast` (`Safety => []CleanupsAfterRollouts`),
  `LetGoOnceGone` (`Safety => KnownUntilGone`): no hypothesis on handlers. `SavedStateLoads` itself excepts the entries marked
  partial where deletions register post actions (section 5).
* `NothingForgotten`, `StateDescribes`, `OldCodeSpared`: `NothingIsForgotten`, `StateDescribesResources` and
  `CleanupSparesOldCode` where every entry has a handler (`AllHandled`). Without it `applySteps` rejects and none of them
  holds (finding 2). The properties except resources that a handler left half way, of which the state knows nothing
  (section 5); `KnownUntilGone` says what still holds of those.
* `DependenciesDeployed`: `DeployedDependenciesExist` where every entry has a handler. The property itself is about systems
  with `TidyPosts`: no handler registers a post action and then throws, and no deletion registers one. Either leaves an entry of a resource that may not be there, and a later change
  would be let through by it.

`SavedStateLoads` speaks of the state between deploys only, so the invariant follows one deploy. `PlanInv` is about the
plan: steps fit the entries they are for (`StepsFitEntries`), a change comes in a later layer than what it depends on
(`ChangesInOrder`), a removal in a later one than what depends on it (`RemovalsInOrder`), and removals come after all
changes (`RemovalsLast`, `NoGaps`, `PlanProgress`). `ApplyInv` is about the layers that are folded: only their entries are
in the result (`OnlyFoldedAreKept`), and the dependencies of an entry that succeeded, or that failed and is kept, are
in the result or still to come (`SucceededDepsKept`, `FailedDepsKept`, `SavedChangesKept`); when the last layer is folded
nothing is to come, and that is loadability. A post action of a change that fails later moves an entry whose dependencies
are there, one of a deletion puts back an entry that is partial (`RegisteredBySteps`, `QueuedBySteps`, `PutBack`). `NestInv` keeps the batches
of first-level post actions before the nested ones. `LiveInv` says which entry describes a resource at each moment: the
saved one until its step is done, the step's outcome, then the folded result. `GoneInv`, for `LetGoOnceGone`, says that an old
entry the result will not have is of a resource that is gone: the only step that ends so is a deletion that returned
without a warning.

`LocalQueueProofs`, for any pollers, clients, groups, limits and numbers of messages (`ConstantsAssumption`; `MaxDelay`
bounds the delays a client may ask for, as SQS does): `TypeCorrect`, `TimerCovers`, `GroupsAreExclusive`, `GroupsReceivedInOrder`,
`NothingIsLost`, `DrainNoticed` and `NoPollerSleeps`, every property of the run. The invariants are

* `TypeInv`: with the types, that what a message counts is of the past (`MessagesInBounds`), and that a poller fills a batch
  only when it has room for it (`PollerInv`);
* `ReceiptsInv`: a receipt is held in one place and was handed out in the past, so a receive never hands out one that is
  held;
* `GroupInv`: the good receipts of a FIFO group are all in one place. `Continues` says what every step does to messages, and
  that no receipt becomes good again;
* `DrainInv`: whoever makes the condition of a waiter true leaves a notification behind;
* `PolledOut`: while a notification goes from poller to poller, those it has called left nothing they had capacity for. A
  poller that still has capacity after its poll has taken every message there is for it (`TakesAll`), so its own receive,
  though it moves the timer, leaves nobody asleep; `SleepStep` then goes through the steps, and the receive of a client is
  the one that is left.

`QueueForwarderProofs`, for any delays that do not shrink (`ForwarderAssumption`), any positive time limit
(`WaitAssumption`) and any number of messages: `ArrivalOrder` (`ForwarderSpec => []ArrivesInOrder`) and `BoundedWait`
(`ForwarderSpec => []WaitIsBounded`). The
invariant orders the buffer and puts all that arrived before it, and says that while the timer runs no message has
reached the limit: the delay that comes is the only one it can be late by.

`LocalSchedulerProofs`, for any events, dates, retries and reloads (`SchedulerAssumption`): `CurrentRuns`
(`SchedulerSpec => OnlyCurrentRuns`) and `ScheduledOnce` (`SchedulerSpec => []ScheduledIsPending`). They rest on two facts
about handles: a timeout that waits is the one under its key (`WaitingIsArmed`), so whoever replaces or deletes the key
cancels it; and a run that is still active has no timeout beside it (`ActiveIsAlone`), so its retry replaces nothing.

`QueueRuntimeProofs`, for any subscriptions, keys, tenants, groups, delays and timeouts, any length of a second in ticks and
any number of invocations, messages and failures (`RuntimeAssumption`): `TypeCorrect`, `KeyHeld` (`RunningHoldsKey`),
`SlotsBounded` (`SlotsBound`), `NothingIsLost` (`NothingLost`), `OrderWithinGroups` (`GroupsInOrder`), `HandledAreDeleted`
(`HandledIsDeleted`), `ClaimsAllComeBack` (`ClaimsComeBack`) and `KeptKeysStay` (`KeptForTtl`): every property of the run
`queue_runtime`. `AtMostMaxAtOnce` is not among them: without the last second left aside it fails (finding 3), and
`Late` in the invariant is where. The invariant `RuntimeInv` is made of

* `Flags`: what a record's flags say about its place, the reason why the catch block knows whether it still has a key, a slot
  or a copy on its way;
* the leases of `RecordInv`: a record at a place where it has its key or a slot owns the item, and the lease lasts to the last
  second of its invocation (`Leases`), or this second has come (`Late`). A lease is counted from the second it is taken in,
  and an item is taken only when its lease has passed, so nobody takes it before that;
* `Doomed` and `MayLeave`: a record that is on its way out of the queue is of a message whose work is settled, or that has a
  later copy in the queue. What leaves is never the last message of its origin (`LastStays`), so nothing is lost although
  a copy may itself be copied and deleted by another invocation at any time;
* `GroupInv`: what precedes a message of a FIFO group is in its batch, and settled once its record starts;
* `OwnerInv`: an item is owned by a record that has begun; what is kept is the key of a message that ran and its owner is past
  the place where it settles; as long as nothing fails, an owner's record still says what it holds.

All nineteen steps of a record are brought into one form first, `RecordGoes`: how the record moves (`RecordMoves`), what becomes
of its key and slot (`ClaimsMove`), and what becomes of its message (`QueueMoves`). `RecordStepGoes` proves that; the
preservation of each part of the invariant is then shown once, for this form. `OthersKeep` is the same for the steps that
are not of a record (invoke, return, die, the clock).

Only model-checked: liveness (`LockIsReleased`, `RunsEnd`, `DeploysEnd`, `MessagesSettle`, `EventsAreDone`, `RunsEndUnlessBlocked`), which under
fairness is beyond the prover used here. Every invariant and action property of the passing runs is proved, under the hypotheses
named above; `TypeOK` and `OnlyTheOwnerReleases` of `DeployLock` are proved without a run.

## 5. Findings

1. **A lock can outlive its interrupted run** (`lock_orphan`). The shutdown handler's release and the put it undoes are in
   flight together; if the table takes the delete first, the put is accepted for a process that has exited.
   `perform.ts` says the lock is "released either way".
2. **A deletion without a handler discards a whole apply** (`state_unhandled`). `getEntryHandler` throws outside of the try
   block and `applySteps` rejects: what earlier layers deployed is in no state.
3. **A key's lease can end before its invocation** (`queue_lease`). Both ends of a lease are floored to seconds, so it may
   be up to a second short of the timeout, and `max` is exceeded by one for that long. `RunningHoldsKey` and `SlotsBound`
   are therefore stated for handlers that are at least a second from their timeout.

Seen while modelling, without a run of their own. For the first five, a property of a passing run makes an exception of
exactly the case, and fails without it:

* The state can change under a lock. An interrupted run's handler releases the lock and exits a round trip later; its
  save, sent before or in between, may be taken when the next run has already checked the state. `utils/state.ts:59` says
  "Checked under the lock, the state can't change again until the lock is released." (`CheckedStateStands`)
* A failed post action of a deletion makes the state unloadable: it puts its entry back after what the entry depends on
  was deleted, which the check of the delete step is there to prevent (`apply.ts:265`: "so it stays as well or the state
  can't be loaded"). No handler of the repository registers a post action when it deletes; the engine's tests have one
  that does (`post-actions.spec.ts:441`). (`SavedStateLoads`)
* An apply that failed half way is not marked partial. Only a failed post action sets the flag that is said to tell
  "whether or not the last apply was partial" (`types/entry.ts:26`); a handler that throws after some of its requests
  leaves the old entry as it was, and a deploy of the old configuration finds nothing to restore; a creation that failed
  half way is in no state. (`StateDescribesResources`, `NothingIsForgotten`)
* A client's receive can take a poller's wake-up. When it comes between a message's visible time and the timer, the timer
  is moved on without notifying (`queue.ts:305`); with the client's limit reached, a visible message waits beside a poller
  that idles, until the next change. (`PollersDontSleep`, which excepts this receive and no other step)
* A forgotten task stops every sweep. `stopTask` (`dispatch/handler.ts:96`) is awaited with nothing to catch its error,
  before the timeout is stored. For a task that died, whose event was lost and which ECS no longer knows, it throws in
  every sweep; neither this envelope nor those listed after it are ever recovered, which is what the sweep is for
  (`aws-agent/README.md:70`). That ECS forgets stopped tasks and answers so is external. (`RunsEndUnlessBlocked`)
* A step whose input its agent refuses is written before the agent is asked (`client.ts:35`): its message fails and comes
  back until its retention is over, and the run then waits for ever. `RunsEndUnlessBlocked` excepts it.
* `aws-agent/README.md:72` says of a failed send of a result that "Lambda retries it". The dispatcher is deployed with
  `retryAttempts: 0`, so only the next sweep sends it, once the deadline is over; `RunsEndUnlessBlocked` needs no more than that.
* The sweep stores a timeout over a result that was reported after it looked, and a task's report replaces a timeout that
  was dispatched: the stored result may differ from the one the run was advanced by.
* A message behind one that the owner of a queue does not take may be dropped without ever having been sent: the waiting
  time counts from its own send.
* Two tasks that find the git cache's lock stale may both remove it, the second one a new owner's lock
  (`workspace/runtime.ts:76`); waiters give up after 5 minutes while a lock is stale after 10. A published ref is pushed
  before its lease is written, and a cache refresh in between may prune it (`workspace/runtime.ts:351`).
* A lock put that is retried after a lost reply is refused by the item its first attempt wrote; the run reports that the
  lock is held, and the lock stays until it is removed by hand.
* A post action that requires its dependents runs although a dependent's creation failed. That dependent was never
  deployed, so nothing old relies on what is cleaned up.
* `queue-subscriptions.md:117` says a dead execution frees its key "once its message is visible again". The lease starts
  when the key is claimed, after the receive, so the message can be visible first, and goes back once more.
* Messages skipped behind a failing one of their FIFO group spend an attempt without running.

## 6. Not modelled

Message contents, schemas, traces, logs and reports are left out everywhere. Delays are taken from small sets instead of
computed (`Wait.delay`, `getWindowDelay`). Handlers, hooks, AWS and the network are external: each may answer, fail, or
lose its answer; of a deploy handler that fails half way the model keeps that its resource is changed or gone, not which
of its requests were served, and what the provider's next create or update makes of it. Retention of messages in SQS, and a second `start` with the id of an existing run, are not part of
`AgentWorkflow`. The dead-letter queue of SQS is the queue's own and not part of `QueueRuntime`. Resource handlers,
SQL builders, reflection, schemas and documentation generators are translations without ordering or failure of their own;
PROJECT.json lists every part with its reason.

The emulator's batch runtime (`handlers/lambda.ts`) repeats the record logic of `QueueRuntime` with in-memory claims; what is
its own, a deadline that abandons handlers which go on, is first in the plan. The lock and the leases of the agents' git
cache, the election of the proxy's owner and the reload of emulators have interleavings worth modelling, and come after it.
The local consumer of DynamoDB streams (`aws-dynamodb/src/local/stream.ts`) is one sequential loop over shard cursors; what
can go wrong lies in the service's shards and iterators, of which the code shows too little to model. What the local stores promise is the behaviour of a file system, Valkey or PostgreSQL.

## 7. Plan

Done: `DeployLock`, `StateHistory`, `DeployState`, `LocalQueue`, `QueueRuntime`, `AgentWorkflow`, `QueueForwarder`,
`LocalScheduler`, and the proofs of section 4.

Next, in this order:

1. `LocalQueueRuntime`: the emulator's batch runtime, composed with the receipts of `LocalQueue`.
2. The lock and the leases of the agents' git cache.
3. Proxy election and reload (`proxy`, `emulator`).
4. An abstract at-least-once queue that `LocalQueue` implements, and `QueueForwarder` in front of it.
