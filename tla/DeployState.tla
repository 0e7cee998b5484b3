---------------------------- MODULE DeployState ----------------------------
(***************************************************************************)
(* The deploy engine: planSteps and applySteps over entry maps, one deploy *)
(* after another.                                                          *)
(*                                                                         *)
(* A deploy takes the entries of the last saved state and the desired      *)
(* ones, plans layers of steps (creations and updates with dependencies    *)
(* first, then deletions with dependents first), runs the handlers of a    *)
(* layer concurrently, folds their results into the succeeded and failed   *)
(* maps, runs the post actions the handlers registered, batch after batch, *)
(* and returns the map that is saved.                                      *)
(*                                                                         *)
(* Of an entry the model keeps what the engine decides on: whether it is   *)
(* there, its dependencies (which also stand for its configuration) and    *)
(* the partial flag.  `live` is the infrastructure itself: what is         *)
(* deployed, and on what each deployed resource relies; of a resource,     *)
(* partial says that a handler left it half way.                           *)
(***************************************************************************)
EXTENDS Naturals, Sequences, FiniteSets

CONSTANTS
  Ids,                \* entry identifiers
  Concurrency,        \* handlers running at the same time (applySteps, Tasks.run)
  MaxNesting,         \* how deep post actions register post actions
  Projects,           \* families of projects, by name: the entry maps that a system may deploy
  Setups              \* the systems to explore: their projects, handlers and providers

ASSUME ConstantsAssumption ==
  /\ IsFiniteSet(Ids)
  /\ Concurrency \in Nat \ {0}
  /\ MaxNesting \in Nat

VARIABLES
  setup,       \* what this system deploys, and how its handlers behave
  saved,       \* the stored entry map (oldEntries)
  live,        \* what is deployed
  desired,     \* newEntries
  force,       \* the --force option
  phase,       \* idle, planning, applying, running post actions
  steps,       \* the planned step of each entry
  order,       \* the layer being planned, then the layer being applied
  status,      \* of the steps of the current layer: pending, running, done
  outcome,     \* what applyPendingStep returned for each step
  succeeded,   \* succeededEntries
  failed,      \* failedEntries
  registered,  \* post actions registered by the current layer, or the current batch
  batches,     \* allPostActions: batches still to run
  posts        \* the current batch: each post action pending or running

vars == <<setup, saved, live, desired, force, phase, steps, order, status, outcome, succeeded, failed,
          registered, batches, posts>>
planVars == <<phase, steps, order>>
applyVars == <<status, outcome, succeeded, failed, registered, batches, posts>>

-----------------------------------------------------------------------------
(* Entry maps                                                              *)

Entry == [in : BOOLEAN, deps : SUBSET Ids, partial : BOOLEAN]
EntryMap == [Ids -> Entry]

NoEntry == [in |-> FALSE, deps |-> {}, partial |-> FALSE]
EmptyMap == [i \in Ids |-> NoEntry]
EntryWith(deps) == [in |-> TRUE, deps |-> deps, partial |-> FALSE]

In(map) == {i \in Ids : map[i].in}

\* The entries of a project are built afresh by every run, so none is partial.  Any graph may come out of the
\* project's contracts: linkEntryDependency refuses no cycle of more than two entries, and no one checks the rest.
IsProject(map) == map \in EntryMap /\ \A i \in Ids : ~map[i].partial

\* A setup is the family of the projects that may be deployed, the post actions that the handlers of changes and those of deletions
\* register ("plain", or "require" for requireDependents), whether a handler may throw after it registered one, whether
\* it may throw when some of its requests were already done, and the entries of a type whose provider is not loaded any
\* more.
ASSUME SetupsAssumption ==
  \A s \in Setups :
    /\ DOMAIN s = {"projects", "posts", "deletions", "throws", "halfway", "unhandled"}
    /\ \A map \in Projects[s.projects] : IsProject(map)
    /\ s.posts \subseteq {"plain", "require"} /\ s.deletions \subseteq {"plain", "require"}
    /\ s.throws \in BOOLEAN /\ s.halfway \in BOOLEAN
    /\ s.unhandled \subseteq Ids

\* hydrateState finds every dependency.
Loadable(map) == \A i \in In(map) : map[i].deps \subseteq In(map)

\* No set of entries that all wait for each other.
Acyclic(map) ==
  \A S \in SUBSET In(map) : S # {} => \E i \in S : map[i].deps \cap S = {}

\* combineEntryMaps: the target's entry is prioritized.
CombineEntryMaps(target, source) ==
  [i \in Ids |-> IF target[i].in THEN target[i] ELSE source[i]]

GetEntryDependents(map, i) == {j \in In(map) : i \in map[j].deps}

\* checkAllSucceeded: the dependencies have succeeded, and so have theirs, all the way down.
CheckAllSucceeded(deps) ==
  \E S \in SUBSET In(succeeded) :
    deps \subseteq S /\ \A i \in S : succeeded[i].deps \subseteq S

\* checkAllDependentsSucceeded: nothing that depends on the entry, directly or not, is in the failed map.
CheckAllDependentsSucceeded(i) ==
  LET all == CombineEntryMaps(failed, succeeded)
  IN \E S \in SUBSET (In(all) \ In(failed)) :
       /\ GetEntryDependents(all, i) \subseteq S
       /\ \A j \in S : GetEntryDependents(all, j) \subseteq S

-----------------------------------------------------------------------------
(* Types                                                                   *)

Actions == {"Create", "Update", "Replace", "Delete"}
Step == [action : Actions \cup {"None"}, order : Nat, changed : BOOLEAN]
NoStep == [action |-> "None", order |-> 0, changed |-> FALSE]
PlannedStep(action, changed) == [action |-> action, order |-> order, changed |-> changed]

\* What applyPendingStep returns: an entry or none, with or without an error or warnings.
Outcome == [entry : Entry, issue : BOOLEAN]
NoOutcome == [entry |-> NoEntry, issue |-> FALSE]

\* A post action, identified by its entry and its nesting (a handler registers at most one).
Post == [id : Ids, nest : 0..MaxNesting, require : BOOLEAN]

Phases == {"idle", "planChanges", "planRemoval", "apply", "rejected", "post"}

TypeOK ==
  /\ setup \in Setups
  /\ saved \in EntryMap /\ live \in EntryMap /\ desired \in EntryMap
  /\ force \in BOOLEAN
  /\ phase \in Phases
  /\ steps \in [Ids -> Step]
  /\ order \in Nat
  /\ status \in [Ids -> {"pending", "running", "done"}]
  /\ outcome \in [Ids -> Outcome]
  /\ succeeded \in EntryMap /\ failed \in EntryMap
  /\ registered \in SUBSET Post
  /\ batches \in Seq(SUBSET Post)
  /\ posts \in [pending : SUBSET Post, running : SUBSET Post]

NoPosts == [pending |-> {}, running |-> {}]

Init ==
  /\ setup \in Setups
  /\ saved = EmptyMap /\ live = EmptyMap /\ desired = EmptyMap
  /\ force = FALSE
  /\ phase = "idle"
  /\ steps = [i \in Ids |-> NoStep]
  /\ order = 0
  /\ status = [i \in Ids |-> "pending"]
  /\ outcome = [i \in Ids |-> NoOutcome]
  /\ succeeded = EmptyMap /\ failed = EmptyMap
  /\ registered = {}
  /\ batches = <<>>
  /\ posts = NoPosts

-----------------------------------------------------------------------------
(* Planning                                                                *)

Visited == {i \in Ids : steps[i].action # "None"}

\* The command built the entries of the project; planSteps starts.
StartDeploy(project, forced) ==
  /\ phase = "idle"
  /\ desired' = project
  /\ force' = forced
  /\ phase' = "planChanges"
  /\ UNCHANGED <<saved, live, steps, order>>
  /\ UNCHANGED applyVars

\* findPendingChanges: not visited yet, with all dependencies visited.
FindPendingChanges ==
  {i \in In(desired) \ Visited : desired[i].deps \subseteq Visited}

\* The step of one entry: created when unknown; replaced when its type or identity differs (as its handler
\* sees it); else updated, with a preview that found changes or none.
PlannedFor(i) ==
  IF ~saved[i].in
    THEN {PlannedStep("Create", TRUE)}
    ELSE {PlannedStep("Replace", TRUE), PlannedStep("Update", TRUE), PlannedStep("Update", FALSE)}

\* planPendingChanges: the next creation layer.
PlanPendingChanges ==
  /\ phase = "planChanges"
  /\ FindPendingChanges # {}
  /\ steps' \in [Ids -> (UNION {PlannedFor(i) : i \in FindPendingChanges}) \cup {steps[i] : i \in Ids}]
  /\ \A i \in Ids :
       IF i \in FindPendingChanges THEN steps'[i] \in PlannedFor(i) ELSE steps'[i] = steps[i]
  /\ order' = order + 1
  /\ UNCHANGED <<saved, live, desired, force, phase>>
  /\ UNCHANGED applyVars

Combined == CombineEntryMaps(desired, saved)

\* hydrateState succeeds: on to the removals.
HydrateState ==
  /\ phase = "planChanges"
  /\ FindPendingChanges = {} /\ Visited = In(desired)
  /\ Loadable(Combined)
  /\ phase' = "planRemoval"
  /\ UNCHANGED <<saved, live, desired, force, steps, order>>
  /\ UNCHANGED applyVars

\* The entries to remove.
OldEntryList == In(Combined) \ In(desired)

\* Mutant: removals look at their dependencies instead of their dependents.
DependenciesFirst ==
  {i \in OldEntryList \ Visited : Combined[i].deps \cap OldEntryList \subseteq Visited}

\* findPendingRemoval: all dependents visited.  (A dependent outside the list is never visited.)
FindPendingRemoval ==
  {i \in OldEntryList \ Visited : GetEntryDependents(Combined, i) \subseteq (Visited \ In(desired))}

\* planPendingRemoval: the next deletion layer.
PlanPendingRemoval ==
  /\ phase = "planRemoval"
  /\ FindPendingRemoval # {}
  /\ steps' = [i \in Ids |-> IF i \in FindPendingRemoval THEN PlannedStep("Delete", TRUE) ELSE steps[i]]
  /\ order' = order + 1
  /\ UNCHANGED <<saved, live, desired, force, phase>>
  /\ UNCHANGED applyVars

\* CorruptedStateReferences (entries that wait for one that is not there, or for each other) or
\* DependencyNotFoundError (the state cannot be loaded).
PlanError ==
  \/ phase = "planChanges" /\ FindPendingChanges = {} /\ (Visited # In(desired) \/ ~Loadable(Combined))
  \/ phase = "planRemoval" /\ FindPendingRemoval = {} /\ ~(OldEntryList \subseteq Visited)

\* The plan is complete: applySteps starts with the first layer.
PlanReady ==
  /\ phase = "planRemoval"
  /\ FindPendingRemoval = {} /\ OldEntryList \subseteq Visited
  /\ phase' = "apply"
  /\ order' = 0
  /\ UNCHANGED <<saved, live, desired, force, steps>>
  /\ UNCHANGED applyVars

-----------------------------------------------------------------------------
(* Applying: the steps of one layer run concurrently                       *)

Layer == {i \in Ids : steps[i].action # "None" /\ steps[i].order = order}

Applying == phase \in {"apply", "rejected"}

RunningSteps == {i \in Ids : status[i] = "running"}

\* Tasks.run takes the next task of the layer when a worker is free.
NextTask(i) ==
  /\ Applying
  /\ i \in Layer /\ status[i] = "pending"
  /\ Cardinality(RunningSteps) < Concurrency

Done(i, entry, issue) ==
  /\ status' = [status EXCEPT ![i] = "done"]
  /\ outcome' = [outcome EXCEPT ![i] = [entry |-> entry, issue |-> issue]]

\* SkipFailedEntryDependencyError: a change needs all its dependencies to have succeeded, a deletion that no entry
\* kept by a failure depends on it.
Skips(i) ==
  IF steps[i].action = "Delete"
    THEN GetEntryDependents(failed, i) # {}
    ELSE ~CheckAllSucceeded(desired[i].deps)

\* Update with nothing to do.
IsNoop(i) == steps[i].action = "Update" /\ ~steps[i].changed /\ ~force

HasHandler(i) == ~(steps[i].action = "Delete" /\ i \in setup.unhandled)

\* Mutant: a skipped step returns its error only.
SkipStepWithoutEntry(i) ==
  /\ NextTask(i) /\ HasHandler(i) /\ Skips(i)
  /\ status' = [status EXCEPT ![i] = "done"]
  /\ outcome' = [outcome EXCEPT ![i] = [issue |-> TRUE]]
  /\ UNCHANGED <<saved, live, desired, force, phase, steps, order, succeeded, failed, registered, batches, posts>>

\* The skipped step keeps the old entry, if there is one.
SkipStep(i) ==
  /\ NextTask(i) /\ HasHandler(i) /\ Skips(i)
  /\ Done(i, saved[i], TRUE)
  /\ UNCHANGED <<saved, live, desired, force, phase, steps, order, succeeded, failed, registered, batches, posts>>

\* Mutant: the entry is saved as it was, old dependencies included.
NoopKeepsOldDependencies(i) ==
  /\ NextTask(i) /\ ~Skips(i) /\ IsNoop(i)
  /\ Done(i, saved[i], FALSE)
  /\ UNCHANGED <<saved, live, desired, force, phase, steps, order, succeeded, failed, registered, batches, posts>>

\* The old entry is kept, with the dependencies it has now; what the preview ignores, the resource does not rely on.
\* Nobody looks at the resource: one that was left half way stays so.
NoopStep(i) ==
  /\ NextTask(i) /\ ~Skips(i) /\ IsNoop(i)
  /\ Done(i, [saved[i] EXCEPT !.deps = desired[i].deps], FALSE)
  /\ live' = [live EXCEPT ![i].deps = IF live[i].in /\ ~live[i].partial THEN desired[i].deps ELSE @]
  /\ UNCHANGED <<saved, desired, force, phase, steps, order, succeeded, failed, registered, batches, posts>>

\* The handler of the step is called.
CallHandler(i) ==
  /\ NextTask(i) /\ HasHandler(i) /\ ~Skips(i) /\ ~IsNoop(i)
  /\ status' = [status EXCEPT ![i] = "running"]
  /\ UNCHANGED <<saved, live, desired, force, phase, steps, order, outcome, succeeded, failed, registered, batches, posts>>

\* getEntryHandler throws outside of the try block: the task rejects, and applySteps with it.  The worker of the task
\* ends; the others go on with the layer, but its results go nowhere.
HandlerNotFound(i) ==
  /\ NextTask(i) /\ ~HasHandler(i)
  /\ phase' = "rejected"
  /\ status' = [status EXCEPT ![i] = "done"]
  /\ UNCHANGED <<saved, live, desired, force, steps, order, outcome, succeeded, failed, registered, batches, posts>>

\* newEntries, the folded results included.
NewEntries == In(desired) \cup In(succeeded) \cup In(failed)

\* The dependencies a kept deletion still has.
KeptDependencies(i) == saved[i].deps \cap NewEntries

\* What the handler of a step did to its resource when it returned.
Deployed(i, warned) ==
  CASE steps[i].action = "Delete" /\ ~warned -> NoEntry
    [] steps[i].action = "Delete" /\ warned -> [live[i] EXCEPT !.deps = @ \cap NewEntries]
    [] OTHER -> EntryWith(desired[i].deps)

\* The entry a step whose handler returned leaves: none for a deletion, unless it warned.
ResultOf(i, warned) ==
  CASE steps[i].action = "Delete" /\ ~warned -> NoEntry
    [] steps[i].action = "Delete" /\ warned -> [saved[i] EXCEPT !.deps = KeptDependencies(i)]
    [] OTHER -> EntryWith(desired[i].deps)

Registers(i, post) ==
  registered' = registered \cup (IF post = "none" THEN {} ELSE {[id |-> i, nest |-> 0, require |-> post = "require"]})

\* The post actions that the handler of a step may register, or none.
PostsOf(i) == {"none"} \cup (IF steps[i].action = "Delete" THEN setup.deletions ELSE setup.posts)

\* The handler returned, with or without warnings.  An update of a resource that was never created throws
\* (CorruptedResourceError).
HandlerReturns(i, warned, post) ==
  /\ Applying /\ status[i] = "running"
  /\ steps[i].action = "Update" => live[i].in
  /\ post \in PostsOf(i)
  /\ Done(i, ResultOf(i, warned), warned)
  /\ live' = [live EXCEPT ![i] = Deployed(i, warned)]
  /\ Registers(i, post)
  /\ UNCHANGED <<saved, desired, force, phase, steps, order, succeeded, failed, batches, posts>>

\* What a handler may have done to its resource when it throws: nothing, or (where handlers make several requests, as
\* the handlers of aws-function do) a part of its work.
HalfDone(i) ==
  LET changed == [EntryWith(desired[i].deps) EXCEPT !.partial = TRUE]
      gone == [NoEntry EXCEPT !.partial = TRUE]
  IN {live[i]} \cup
       CASE ~setup.halfway -> {}
         [] steps[i].action = "Create" -> {changed}
         [] steps[i].action = "Update" -> IF live[i].in THEN {changed} ELSE {}
         [] steps[i].action = "Replace" -> {changed, gone}
         [] OTHER -> {gone}

\* Mutant: a failed change is reported with the candidate entry instead of the old one.
HandlerThrowsKeepingCandidate(i, post) ==
  /\ Applying /\ status[i] = "running"
  /\ post \in PostsOf(i) /\ (post = "none" \/ setup.throws)
  /\ Done(i, IF steps[i].action = "Delete" THEN saved[i] ELSE desired[i], TRUE)
  /\ \E resource \in HalfDone(i) : live' = [live EXCEPT ![i] = resource]
  /\ Registers(i, post)
  /\ UNCHANGED <<saved, desired, force, phase, steps, order, succeeded, failed, batches, posts>>

\* The handler threw: the old entry is kept as it is, if there is one, whatever the handler has done by then.
HandlerThrows(i, post) ==
  /\ Applying /\ status[i] = "running"
  /\ post \in PostsOf(i) /\ (post = "none" \/ setup.throws)
  /\ Done(i, saved[i], TRUE)
  /\ \E resource \in HalfDone(i) : live' = [live EXCEPT ![i] = resource]
  /\ Registers(i, post)
  /\ UNCHANGED <<saved, desired, force, phase, steps, order, succeeded, failed, batches, posts>>

LayerDone == \A i \in Layer : status[i] = "done"

\* Mutant: an entry kept by a failure is left out of the result.
FoldDroppingFailed ==
  /\ phase = "apply" /\ Layer # {} /\ LayerDone
  /\ succeeded' = [i \in Ids |-> IF i \in Layer /\ ~outcome[i].issue THEN outcome[i].entry ELSE succeeded[i]]
  /\ batches' = IF registered = {} THEN batches ELSE Append(batches, registered)
  /\ registered' = {}
  /\ order' = order + 1
  /\ status' = [i \in Ids |-> "pending"]
  /\ outcome' = [i \in Ids |-> NoOutcome]
  /\ UNCHANGED <<saved, live, desired, force, phase, steps, failed, posts>>

\* All the tasks of the layer are done: its post actions become a batch and its results are folded in.
FoldLayer ==
  /\ phase = "apply" /\ Layer # {} /\ LayerDone
  /\ succeeded' = [i \in Ids |-> IF i \in Layer /\ ~outcome[i].issue THEN outcome[i].entry ELSE succeeded[i]]
  /\ failed' = [i \in Ids |-> IF i \in Layer /\ outcome[i].issue THEN outcome[i].entry ELSE failed[i]]
  /\ batches' = IF registered = {} THEN batches ELSE Append(batches, registered)
  /\ registered' = {}
  /\ order' = order + 1
  /\ status' = [i \in Ids |-> "pending"]
  /\ outcome' = [i \in Ids |-> NoOutcome]
  /\ UNCHANGED <<saved, live, desired, force, phase, steps, posts>>

\* No step has this order: the post actions start.
StepsDone ==
  /\ phase = "apply" /\ Layer = {}
  /\ phase' = "post"
  /\ UNCHANGED <<saved, live, desired, force, steps, order>>
  /\ UNCHANGED applyVars

-----------------------------------------------------------------------------
(* Post actions                                                            *)

\* The entry the post action was registered with: the step's own copy.  Of a deletion, that is the old entry, with the
\* dependencies that a warning left it.
PostEntry(i) ==
  IF steps[i].action # "Delete" THEN desired[i]
  ELSE IF failed[i].in THEN failed[i] ELSE saved[i]

\* Mutant: batches nested in a batch run before the batches of later layers.
NextBatchNestedFirst ==
  /\ phase = "post" /\ posts = NoPosts
  /\ LET queue == IF registered = {} THEN batches ELSE <<registered>> \o batches
     IN /\ queue # <<>>
        /\ posts' = [pending |-> Head(queue), running |-> {}]
        /\ batches' = Tail(queue)
  /\ registered' = {}
  /\ UNCHANGED <<saved, live, desired, force, phase, steps, order, status, outcome, succeeded, failed>>

\* Mutant: the batch that runs is not taken off the queue.
NextBatchAgain ==
  /\ phase = "post" /\ posts = NoPosts
  /\ LET queue == IF registered = {} THEN batches ELSE Append(batches, registered)
     IN /\ queue # <<>>
        /\ posts' = [pending |-> Head(queue), running |-> {}]
        /\ batches' = queue
  /\ registered' = {}
  /\ UNCHANGED <<saved, live, desired, force, phase, steps, order, status, outcome, succeeded, failed>>

\* The next batch; the post actions that the last one registered are queued behind all the others.
NextBatch ==
  /\ phase = "post" /\ posts = NoPosts
  /\ LET queue == IF registered = {} THEN batches ELSE Append(batches, registered)
     IN /\ queue # <<>>
        /\ posts' = [pending |-> Head(queue), running |-> {}]
        /\ batches' = Tail(queue)
  /\ registered' = {}
  /\ UNCHANGED <<saved, live, desired, force, phase, steps, order, status, outcome, succeeded, failed>>

NextPost(p) ==
  /\ phase = "post" /\ p \in posts.pending
  /\ Cardinality(posts.running) < Concurrency

\* Mutant: requireDependents is ignored.
PostAllowedWithoutDependents(p) ==
  /\ ~failed[p.id].in
  /\ succeeded[p.id].in \/ steps[p.id].action = "Delete"
  /\ succeeded[p.id].in => CheckAllSucceeded(PostEntry(p.id).deps)

\* Its entry has not failed, nor has a dependency, nor a dependent when it requires them.
PostAllowed(p) ==
  /\ ~failed[p.id].in
  /\ succeeded[p.id].in \/ steps[p.id].action = "Delete"
  /\ succeeded[p.id].in => CheckAllSucceeded(PostEntry(p.id).deps)
  /\ p.require => CheckAllDependentsSucceeded(p.id)

\* The catch block: the entry moves to the failed map, as partial.
PostFailed(p) ==
  /\ succeeded' = [succeeded EXCEPT ![p.id] = NoEntry]
  /\ failed' = [failed EXCEPT ![p.id] = [PostEntry(p.id) EXCEPT !.partial = TRUE]]

\* Not allowed: an error without a call.
SkipPost(p) ==
  /\ NextPost(p) /\ ~PostAllowed(p)
  /\ posts' = [posts EXCEPT !.pending = @ \ {p}]
  /\ PostFailed(p)
  /\ UNCHANGED <<saved, live, desired, force, phase, steps, order, status, outcome, registered, batches>>

CallPost(p) ==
  /\ NextPost(p) /\ PostAllowed(p)
  /\ posts' = [pending |-> posts.pending \ {p}, running |-> posts.running \cup {p}]
  /\ UNCHANGED <<saved, live, desired, force, phase, steps, order, status, outcome, succeeded, failed, registered, batches>>

\* The callback returned; it may have registered another post action.
PostReturns(p, post) ==
  /\ phase = "post" /\ p \in posts.running
  /\ posts' = [posts EXCEPT !.running = @ \ {p}]
  /\ registered' = registered \cup
       (IF post = "none" THEN {} ELSE {[id |-> p.id, nest |-> p.nest + 1, require |-> post = "require"]})
  /\ UNCHANGED <<saved, live, desired, force, phase, steps, order, status, outcome, succeeded, failed, batches>>

PostThrows(p) ==
  /\ phase = "post" /\ p \in posts.running
  /\ posts' = [posts EXCEPT !.running = @ \ {p}]
  /\ PostFailed(p)
  /\ UNCHANGED <<saved, live, desired, force, phase, steps, order, status, outcome, registered, batches>>

-----------------------------------------------------------------------------
(* The end of a deploy                                                     *)

\* The per-deploy variables start over.
Reset ==
  /\ phase' = "idle"
  /\ desired' = EmptyMap /\ force' = FALSE
  /\ steps' = [i \in Ids |-> NoStep]
  /\ order' = 0
  /\ status' = [i \in Ids |-> "pending"]
  /\ outcome' = [i \in Ids |-> NoOutcome]
  /\ succeeded' = EmptyMap /\ failed' = EmptyMap
  /\ registered' = {}
  /\ batches' = <<>>
  /\ posts' = NoPosts
  /\ UNCHANGED live

\* { ...succeededEntries, ...failedEntries } is returned, and saved.
SaveResult ==
  /\ phase = "post" /\ posts = NoPosts /\ registered = {} /\ batches = <<>>
  /\ saved' = CombineEntryMaps(failed, succeeded)
  /\ Reset

\* planSteps throws: nothing was applied, nothing is saved.
PlanThrows ==
  /\ PlanError
  /\ UNCHANGED saved
  /\ Reset

\* applySteps rejected: the command ends without saving, once the handlers still running are done.
EndRejected ==
  /\ phase = "rejected" /\ RunningSteps = {}
  /\ UNCHANGED saved
  /\ Reset

EngineAction ==
  \/ PlanPendingChanges \/ HydrateState \/ PlanPendingRemoval \/ PlanReady \/ PlanThrows
  \/ \E i \in Ids : SkipStep(i) \/ NoopStep(i) \/ CallHandler(i) \/ HandlerNotFound(i)
  \/ \E i \in Ids : \E post \in PostsOf(i) :
       HandlerThrows(i, post) \/ \E warned \in BOOLEAN : HandlerReturns(i, warned, post)
  \/ FoldLayer \/ StepsDone \/ NextBatch
  \/ \E p \in posts.pending : SkipPost(p) \/ CallPost(p)
  \/ \E p \in posts.running :
       PostThrows(p) \/ \E post \in PostsOf(p.id) :
                            (p.nest < MaxNesting \/ post = "none") /\ PostReturns(p, post)
  \/ SaveResult \/ EndRejected

EngineStep == EngineAction /\ UNCHANGED setup

Next ==
  \/ /\ phase = "idle" /\ UNCHANGED setup
     /\ \E project \in Projects[setup.projects], forced \in BOOLEAN : StartDeploy(project, forced)
  \/ EngineStep

Safety == Init /\ [][Next]_vars

\* A deploy that started goes on: every handler and every callback returns or throws.  Nobody has to start another.
Spec == Safety /\ WF_vars(EngineStep)

-----------------------------------------------------------------------------
(* Properties                                                              *)

\* The saved state can be loaded again: every dependency of a saved entry is saved (apply.ts, the Delete step: an entry
\* kept by a failure keeps what it depends on, "or the state can't be loaded").  The exception are entries marked
\* partial in a system whose delete handlers register post actions.
SavedStateLoads ==
  \A i \in In(saved) : saved[i].deps \subseteq In(saved) \/ (saved[i].partial /\ setup.deletions # {})

\* The entry of a post action is deployed when the batch runs: its handler did not throw after it registered one, nor
\* was it a deletion.
TidyPosts == ~setup.throws /\ setup.deletions = {}

\* No deployed resource relies on one that is not.  (A resource that a handler left half way relies on what it may, and
\* may be gone.)
LiveDependenciesExist ==
  \A i \in In(live) : live[i].partial \/ \A d \in live[i].deps : live[d].in \/ live[d].partial

\* At no time does a deployed resource rely on one that is not deployed: creations wait for their dependencies,
\* deletions for their dependents, and a failure holds back exactly what must wait for it.  The exception are systems
\* where a failed post action may save an entry that was never deployed, or is deleted: the engine takes it for deployed
\* from then on.
DeployedDependenciesExist == TidyPosts => LiveDependenciesExist

\* Once a deploy is over, every deployed resource is in the saved state, so that a later deploy can delete it, except
\* one whose creation was left half way.
NothingIsForgotten == phase = "idle" => \A i \in In(live) : saved[i].in \/ live[i].partial

\* An entry only leaves the state when its resource is gone, half-done work included: no failure of a change, a
\* deletion or a post action makes the engine let go of what it knew.
KnownUntilGone == [][\A i \in Ids : saved[i].in /\ ~saved'[i].in => ~live'[i].in]_vars

\* Once a deploy is over, an entry that is not marked partial describes its resource as deployed, unless a handler left
\* it half way.
StateDescribesResources ==
  phase = "idle" =>
    \A i \in In(saved) :
      saved[i].partial \/ live[i].partial \/ (live[i].in /\ live[i].deps = saved[i].deps)

\* A nested post action (the cleanup of a migration or a function) only runs once every first-level one (the
\* rollouts) was run or skipped.
CleanupsAfterRollouts ==
  \A p \in posts.running : p.nest > 0 =>
    /\ \A q \in posts.pending \cup posts.running : q.nest > 0
    /\ \A k \in 1..Len(batches) : \A q \in batches[k] : q.nest > 0

\* While a post action that requires its dependents runs, no deployed resource that relies on its own was left as it
\* was by a step that failed (aws-aurora migration: old code may still need what the cleanup drops).
CleanupSparesOldCode ==
  \A p \in posts.running : p.require =>
    \A j \in In(live) : p.id \in live[j].deps /\ failed[j].in => failed[j].partial \/ live[j].partial

\* Every deploy comes to an end: the layers of a plan and the nested batches of post actions run out.
DeploysEnd == phase # "idle" ~> phase = "idle"
=============================================================================
