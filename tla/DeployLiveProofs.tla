-------------------------- MODULE DeployLiveProofs --------------------------
(***************************************************************************)
(* The deploy engine and the infrastructure: what is saved describes what  *)
(* is deployed, nothing that is deployed is forgotten, and no deployed     *)
(* resource relies on one that is not.                                     *)
(*                                                                         *)
(* Handlers may throw half way: a resource they left so is marked, and     *)
(* what is said of resources as they should be is not said of it.  All but *)
(* one of the theorems are about systems whose entries all have a handler: *)
(* where a provider was unloaded, applySteps rejects, nothing is saved of  *)
(* what the handlers did, and they do not hold.  One of them is also about *)
(* handlers that do not register a post action before they throw, nor for  *)
(* a deletion.                                                             *)
(***************************************************************************)
EXTENDS DeployStateProofs

AllHandled == setup.unhandled = {}

AllEntries == CombineEntryMaps(failed, succeeded)

\* A deployed resource has its entry, and an entry is of a resource as deployed, unless a handler left the resource half
\* way, or the entry is partial: then its handler may have thrown once it had registered a post action, or deleted it.
Describes(entry, resource) ==
  /\ resource.in => entry.in \/ resource.partial
  /\ entry.in /\ (~entry.partial \/ TidyPosts) => resource.partial \/ (resource.in /\ resource.deps = entry.deps)

\* The entry that describes a resource: the saved one until its step is done, then the outcome of the step, and the
\* result once its layer is folded.
LiveIsDescribed ==
  \A i \in Ids :
    /\ ~Folded(i) /\ status[i] # "done" => Describes(saved[i], live[i])
    /\ status[i] = "done" => Describes(outcome[i].entry, live[i])
    /\ Folded(i) => Describes(AllEntries[i], live[i])

\* A handler that does not throw has deployed its resource before its post actions run.
PostsAreDeployed ==
  TidyPosts =>
    \A p \in registered \cup Queued \cup posts.pending \cup posts.running :
      live[p.id].in /\ live[p.id].deps = desired[p.id].deps

LiveInv ==
  AllHandled =>
    /\ phase # "rejected"
    /\ LiveIsDescribed
    /\ PostsAreDeployed

-----------------------------------------------------------------------------
\* Where no resource changes and nothing is folded, the same entries describe them.
LEMMA SameLive ==
  ASSUME LiveIsDescribed, UNCHANGED <<setup, saved, live, status, outcome, succeeded, failed>>,
         \A i \in Ids : Folded(i)' <=> Folded(i)
  PROVE  LiveIsDescribed'
BY DEF LiveIsDescribed, Describes, TidyPosts, AllEntries, CombineEntryMaps

\* A handler that throws leaves its own resource alone, or half way.
LEMMA ThrowsHalfway ==
  ASSUME TypeOK, NEW i \in Ids, NEW post, HandlerThrows(i, post)
  PROVE  (\A j \in Ids : j # i => live'[j] = live[j]) /\ (live'[i] = live[i] \/ live'[i].partial)
<1>1. PICK resource \in HalfDone(i) : live' = [live EXCEPT ![i] = resource]
  BY DEF HandlerThrows
<1>2. live'[i] = resource /\ \A j \in Ids : j # i => live'[j] = live[j]
  BY <1>1 DEF TypeOK, EntryMap
<1> DEFINE changed == [EntryWith(desired[i].deps) EXCEPT !.partial = TRUE]
           gone == [NoEntry EXCEPT !.partial = TRUE]
<1>3. changed.partial /\ gone.partial
  BY DEF EntryWith, NoEntry
<1>4. HalfDone(i) \subseteq {live[i], changed, gone}
  BY DEF HalfDone
<1> QED
  BY <1>2, <1>3, <1>4

\* A step that ends leaves an entry that describes its resource.
LEMMA LiveByStep ==
  ASSUME TypeOK, PlanInv, ApplyInv, LiveInv, AllHandled, UNCHANGED setup, NEW i \in Ids, StepAction(i)
  PROVE  phase' # "rejected" /\ LiveIsDescribed' /\ PostsAreDeployed'
<1>1. MovesStep(i)
  BY StepMoves DEF ApplyInv
<1>2. /\ UNCHANGED <<setup, saved, desired, steps, order, succeeded, failed, batches, posts>>
      /\ Applying /\ InApply /\ InApply' /\ phase # "post" /\ phase' # "post" /\ i \in Layer /\ status[i] # "done"
      /\ \A j \in Ids : j # i => status'[j] = status[j] /\ outcome'[j] = outcome[j]
  BY <1>1 DEF MovesStep, Applying, InApply
<1>3. ~HandlerNotFound(i)
  BY DEF HandlerNotFound, HasHandler, AllHandled
<1>4. phase' # "rejected"
  BY <1>3 DEF StepAction, SkipStep, NoopStep, CallHandler, HandlerThrows, HandlerReturns, LiveInv
<1>5. \A j \in Ids : Folded(j)' <=> Folded(j)
  BY <1>2 DEF Folded, Planned, Changes, Removes
<1>6. ~Folded(i) /\ Describes(saved[i], live[i])
  <2>1. ~Folded(i)
    BY <1>2, LayerSteps, VisitedIsPlanned DEF Folded, TypeOK
  <2> QED
    BY <1>2, <2>1 DEF LiveInv, LiveIsDescribed
<1>7. \A p \in registered \cup Queued \cup posts.pending \cup posts.running : p.id \in Ids /\ p.id # i
  <2>1. \A p \in registered : p.id # i
    BY <1>2 DEF ApplyInv, RegisteredBySteps
  <2>2. \A p \in Queued \cup posts.pending \cup posts.running : p.id # i
    BY <1>6 DEF ApplyInv, QueuedBySteps
  <2> QED
    BY <2>1, <2>2, QueuedPosts
<1>8. Queued' = Queued
  BY <1>2 DEF Queued
<1>a. ASSUME NEW entry, NEW issue, Done(i, entry, issue)
      PROVE  status'[i] = "done" /\ outcome'[i].entry = entry
  BY <1>a DEF Done, TypeOK
\* It is enough to look at the step's own resource.
<1>b. ASSUME \A j \in Ids : j # i => live'[j] = live[j],
             \/ status'[i] # "done" /\ Describes(saved[i], live'[i])
             \/ status'[i] = "done" /\ Describes(outcome'[i].entry, live'[i])
      PROVE  LiveIsDescribed'
  BY <1>2, <1>5, <1>6, <1>b DEF LiveInv, LiveIsDescribed, Describes, TidyPosts, AllEntries, CombineEntryMaps
<1>c. ASSUME \A j \in Ids : j # i => live'[j] = live[j],
             \A p \in registered' : \/ p \in registered
                                    \/ p.id = i /\ (TidyPosts => live'[i].in /\ live'[i].deps = desired[i].deps)
      PROVE  PostsAreDeployed'
  BY <1>2, <1>7, <1>8, <1>c DEF LiveInv, PostsAreDeployed, TidyPosts
<1>9. CASE SkipStep(i)
  <2>1. UNCHANGED <<live, registered>> /\ Done(i, saved[i], TRUE)
    BY <1>9 DEF SkipStep
  <2> QED
    BY <1>4, <1>6, <1>a, <1>b, <1>c, <2>1
<1>10. CASE NoopStep(i)
  <2>1. /\ Done(i, [saved[i] EXCEPT !.deps = desired[i].deps], FALSE) /\ UNCHANGED registered
        /\ live' = [live EXCEPT ![i].deps = IF live[i].in /\ ~live[i].partial THEN desired[i].deps ELSE @]
    BY <1>10 DEF NoopStep
  <2>2. /\ \A j \in Ids : j # i => live'[j] = live[j]
        /\ live'[i].in = live[i].in /\ live'[i].partial = live[i].partial
        /\ live[i].in /\ ~live[i].partial => live'[i].deps = desired[i].deps
    BY <2>1 DEF TypeOK, EntryMap, Entry
  <2>3. status'[i] = "done" /\ outcome'[i].entry = [saved[i] EXCEPT !.deps = desired[i].deps]
    BY <1>a, <2>1
  <2>4. /\ outcome'[i].entry.in = saved[i].in /\ outcome'[i].entry.deps = desired[i].deps
        /\ outcome'[i].entry.partial = saved[i].partial
    BY <2>3 DEF TypeOK, EntryMap, Entry
  <2>5. Describes(outcome'[i].entry, live'[i])
    BY <1>6, <2>2, <2>4 DEF Describes
  <2> QED
    BY <1>4, <1>b, <1>c, <2>1, <2>2, <2>3, <2>5
<1>11. CASE CallHandler(i)
  <2>1. UNCHANGED <<live, registered>> /\ status'[i] = "running"
    BY <1>11 DEF CallHandler, TypeOK
  <2> QED
    BY <1>4, <1>6, <1>b, <1>c, <2>1
<1>12. ASSUME NEW post, HandlerThrows(i, post) PROVE phase' # "rejected" /\ LiveIsDescribed' /\ PostsAreDeployed'
  <2>1. Done(i, saved[i], TRUE) /\ (post = "none" \/ setup.throws) /\ Registers(i, post)
    BY <1>12 DEF HandlerThrows
  <2>2. \A p \in registered' : p \in registered \/ (p.id = i /\ setup.throws)
    BY <2>1 DEF Registers
  <2>3. /\ \A j \in Ids : j # i => live'[j] = live[j]
        /\ live'[i] = live[i] \/ live'[i].partial
    BY <1>12, ThrowsHalfway
  <2>4. Describes(saved[i], live'[i])
    BY <1>6, <2>3 DEF Describes
  <2> QED
    BY <1>4, <1>a, <1>b, <1>c, <2>1, <2>2, <2>3, <2>4 DEF TidyPosts
<1>13. ASSUME NEW post, NEW warned \in BOOLEAN, HandlerReturns(i, warned, post)
       PROVE  phase' # "rejected" /\ LiveIsDescribed' /\ PostsAreDeployed'
  <2>1. /\ Done(i, ResultOf(i, warned), warned) /\ live' = [live EXCEPT ![i] = Deployed(i, warned)]
        /\ post \in PostsOf(i) /\ Registers(i, post)
    BY <1>13 DEF HandlerReturns
  <2>2. live'[i] = Deployed(i, warned) /\ \A j \in Ids : j # i => live'[j] = live[j]
    BY <2>1 DEF TypeOK, EntryMap
  <2>3. status'[i] = "done" /\ outcome'[i].entry = ResultOf(i, warned)
    BY <1>a, <2>1
  <2>4. \A p \in registered' : p \in registered \/ (p.id = i /\ (TidyPosts => ~Removes(i)))
    BY <2>1 DEF Registers, PostsOf, Removes, TidyPosts
  <2>5. ~Removes(i) => Deployed(i, warned) = EntryWith(desired[i].deps) /\ ResultOf(i, warned) = EntryWith(desired[i].deps)
    BY DEF Deployed, ResultOf, Removes
  <2>6. \A p \in registered' :
          p \in registered \/ (p.id = i /\ (TidyPosts => live'[i].in /\ live'[i].deps = desired[i].deps))
    BY <2>2, <2>4, <2>5 DEF EntryWith
  <2>7. Describes(ResultOf(i, warned), Deployed(i, warned))
    <3>1. CASE ~Removes(i)
      BY <2>5, <3>1 DEF Describes, EntryWith
    <3>2. CASE Removes(i) /\ ~warned
      BY <3>2 DEF Describes, Removes, ResultOf, Deployed, NoEntry
    <3>3. CASE Removes(i) /\ warned
      <4>1. /\ ResultOf(i, warned) = [saved[i] EXCEPT !.deps = KeptDependencies(i)]
            /\ Deployed(i, warned) = [live[i] EXCEPT !.deps = @ \cap NewEntries]
        BY <3>3 DEF Removes, ResultOf, Deployed
      <4>2. /\ ResultOf(i, warned).in = saved[i].in /\ ResultOf(i, warned).deps = KeptDependencies(i)
            /\ ResultOf(i, warned).partial = saved[i].partial
        BY <4>1 DEF TypeOK, EntryMap, Entry
      <4>3. /\ Deployed(i, warned).in = live[i].in /\ Deployed(i, warned).partial = live[i].partial
            /\ Deployed(i, warned).deps = live[i].deps \cap NewEntries
        BY <4>1 DEF TypeOK, EntryMap, Entry
      <4> QED
        BY <1>6, <4>2, <4>3 DEF Describes, KeptDependencies
    <3> QED
      BY <3>1, <3>2, <3>3
  <2> QED
    BY <1>4, <1>b, <1>c, <2>2, <2>3, <2>6, <2>7
<1> QED
  BY <1>3, <1>9, <1>10, <1>11, <1>12, <1>13 DEF StepAction

\* The result that a layer is folded into describes its resources.
LEMMA LiveByFold ==
  ASSUME TypeOK, ApplyInv, LiveInv, AllHandled, UNCHANGED setup, FoldLayer
  PROVE  phase' # "rejected" /\ LiveIsDescribed' /\ PostsAreDeployed'
<1>1. /\ phase = "apply" /\ phase' = "apply" /\ InApply /\ InApply' /\ order \in Nat /\ order' = order + 1
      /\ UNCHANGED <<setup, saved, live, desired, steps, posts>> /\ registered' = {}
  BY DEF FoldLayer, InApply, TypeOK
<1>2. \A i \in Ids : status'[i] = "pending"
  BY DEF FoldLayer
<1>3. \A i \in Ids : steps[i].order \in Nat /\ (i \in Layer <=> Planned(i) /\ steps[i].order = order)
  BY VisitedIsPlanned, LayerSteps
<1>4. \A i \in Ids : (Folded(i)' <=> Folded(i) \/ i \in Layer) /\ (i \in Layer => ~Folded(i))
  BY <1>1, <1>3 DEF Folded, Planned, Changes, Removes
<1>5. \A i \in Layer : i \in Ids /\ status[i] = "done"
  BY DEF FoldLayer, LayerDone, Layer
<1>6. \A i \in Ids : status[i] = "done" => i \in Layer
  BY DEF ApplyInv, StepsOfLayer
<1>7. \A i \in Ids : i \notin Layer => AllEntries[i]' = AllEntries[i]
  BY DEF FoldLayer, AllEntries, CombineEntryMaps
<1>8. \A i \in Ids : i \in Layer => ~succeeded[i].in /\ ~failed[i].in
  BY <1>4 DEF ApplyInv, OnlyFoldedAreKept, Kept, In
<1>9. \A i \in Ids : i \in Layer =>
        \/ AllEntries[i]' = outcome[i].entry
        \/ ~AllEntries[i]'.in /\ ~outcome[i].entry.in
  BY <1>8 DEF FoldLayer, AllEntries, CombineEntryMaps
<1>10. LiveIsDescribed'
  <2> SUFFICES ASSUME NEW i \in Ids
               PROVE  /\ ~Folded(i)' => Describes(saved[i], live[i])
                      /\ Folded(i)' => Describes(AllEntries[i]', live[i])
    BY <1>1, <1>2 DEF LiveIsDescribed, Describes, TidyPosts
  <2>1. CASE i \in Layer
    <3>1. Describes(outcome[i].entry, live[i])
      BY <1>5, <2>1 DEF LiveInv, LiveIsDescribed
    <3>2. Describes(AllEntries[i]', live[i])
      BY <1>9, <2>1, <3>1 DEF Describes
    <3> QED
      BY <1>4, <2>1, <3>2
  <2>2. CASE i \notin Layer
    BY <1>4, <1>6, <1>7, <2>2 DEF LiveInv, LiveIsDescribed
  <2> QED
    BY <2>1, <2>2
<1>11. PostsAreDeployed'
  <2>1. registered \in SUBSET Post /\ batches \in Seq(SUBSET Post)
    BY DEF TypeOK
  <2>2. Elements(batches') \subseteq Elements(batches) \cup registered
    BY <2>1, QueueElements DEF FoldLayer
  <2>3. Queued' \subseteq Queued \cup registered
    BY <1>1, <2>2 DEF Queued
  <2> QED
    BY <1>1, <2>3 DEF LiveInv, PostsAreDeployed, TidyPosts
<1> QED
  BY <1>1, <1>10, <1>11

\* A post action that fails marks its entry partial.
LEMMA LiveByPost ==
  ASSUME TypeOK, PlanInv, ApplyInv, LiveInv, AllHandled, UNCHANGED setup, PostAction
  PROVE  phase' # "rejected" /\ LiveIsDescribed' /\ PostsAreDeployed'
<1>1. MovesPosts
  BY PostMoves
<1>2. /\ phase = "post" /\ phase' = "post" /\ InApply /\ InApply'
      /\ UNCHANGED <<setup, saved, live, desired, steps, order, status, outcome>>
  BY <1>1 DEF MovesPosts, InApply
<1>3. \A i \in Ids : Folded(i)' <=> Folded(i)
  BY <1>2 DEF Folded, Planned, Changes, Removes
<1>4. PostsAreDeployed'
  <2>1. registered' \subseteq Queued'
    BY <1>2 DEF Queued
  <2> QED
    BY <1>1, <1>2, <2>1 DEF LiveInv, PostsAreDeployed, TidyPosts, MovesPosts
<1>5. CASE UNCHANGED <<succeeded, failed>>
  BY <1>2, <1>3, <1>4, <1>5, SameLive DEF LiveInv
<1>6. ASSUME NEW p \in posts.pending \cup posts.running, PostFailed(p) PROVE LiveIsDescribed'
  <2>1. /\ p.id \in Ids /\ Folded(p.id)
        /\ \A i \in Ids : i # p.id => succeeded'[i] = succeeded[i] /\ failed'[i] = failed[i]
        /\ failed'[p.id].in /\ failed'[p.id].partial
        /\ TidyPosts => failed'[p.id].deps = desired[p.id].deps
    BY <1>6, PostFails DEF TidyPosts
  <2> HIDE DEF PostFailed
  <2>3. Describes(failed'[p.id], live[p.id])
    BY <2>1 DEF Describes, LiveInv, PostsAreDeployed
  <2>4. AllEntries[p.id]' = failed'[p.id] /\ \A i \in Ids : i # p.id => AllEntries[i]' = AllEntries[i]
    BY <2>1 DEF AllEntries, CombineEntryMaps
  <2>6. \A i \in Ids : Folded(i) => Describes(AllEntries[i]', live[i])
    BY <2>3, <2>4 DEF LiveInv, LiveIsDescribed
  <2>7. \A i \in Ids :
          /\ ~Folded(i) /\ status[i] # "done" => Describes(saved[i], live[i])
          /\ status[i] = "done" => Describes(outcome[i].entry, live[i])
    BY DEF LiveInv, LiveIsDescribed
  <2> QED
    BY <1>2, <1>3, <2>6, <2>7 DEF LiveIsDescribed, Describes, TidyPosts
<1> QED
  BY <1>1, <1>2, <1>4, <1>5, <1>6 DEF MovesPosts

\* The saved map describes the resources when a deploy ends, whether it came to apply its plan or not.
LEMMA LiveByReset ==
  ASSUME TypeOK, PlanInv, ApplyInv, LiveInv, AllHandled, UNCHANGED setup, SaveResult \/ PlanThrows
  PROVE  phase' # "rejected" /\ LiveIsDescribed' /\ PostsAreDeployed'
<1>1. /\ phase' = "idle" /\ UNCHANGED <<setup, live>> /\ registered' = {} /\ batches' = <<>> /\ posts' = NoPosts
      /\ \A i \in Ids : status'[i] = "pending"
  BY DEF SaveResult, PlanThrows, Reset
<1>2. \A i \in Ids : ~Folded(i)'
  BY <1>1 DEF Folded, InApply
<1>3. PostsAreDeployed'
  BY <1>1 DEF PostsAreDeployed, Queued, Elements, NoPosts
<1>4. \A i \in Ids : Describes(saved'[i], live[i])
  <2>1. CASE SaveResult
    <3>1. phase = "post" /\ saved' = AllEntries /\ InApply /\ ~Applying
      BY <2>1 DEF SaveResult, AllEntries, InApply, Applying
    <3> SUFFICES ASSUME NEW i \in Ids, ~Folded(i) PROVE Describes(AllEntries[i], live[i])
      BY <3>1 DEF LiveInv, LiveIsDescribed
    <3>2. ~Planned(i) /\ ~saved[i].in
      BY <3>1 DEF ApplyInv, PostsComeLast, PlanInv, PlanProgress, Folded, Planned
    <3>3. Describes(saved[i], live[i])
      BY <3>1 DEF ApplyInv, StepsOfLayer, LiveInv, LiveIsDescribed
    <3>4. ~AllEntries[i].in
      BY DEF ApplyInv, OnlyFoldedAreKept, AllEntries, CombineEntryMaps, Kept, In
    <3> QED
      BY <3>2, <3>3, <3>4 DEF Describes
  <2>2. CASE PlanThrows
    <3>1. ~InApply /\ ~Applying /\ UNCHANGED saved
      BY <2>2 DEF PlanThrows, PlanError, InApply, Applying
    <3> QED
      BY <3>1 DEF ApplyInv, StepsOfLayer, LiveInv, LiveIsDescribed, Folded
  <2> QED
    BY <2>1, <2>2
<1>5. LiveIsDescribed'
  BY <1>1, <1>2, <1>4 DEF LiveIsDescribed, Describes, TidyPosts
<1> QED
  BY <1>1, <1>3, <1>5

\* Every step of every deploy leaves the deployed resources described.
LEMMA LiveStep ==
  ASSUME TypeOK, PlanInv, ApplyInv, LiveInv, [Next]_vars
  PROVE  LiveInv'
<1>1. UNCHANGED setup
  BY DEF Next, EngineStep, vars
<1> SUFFICES ASSUME AllHandled PROVE phase' # "rejected" /\ LiveIsDescribed' /\ PostsAreDeployed'
  BY <1>1 DEF LiveInv, AllHandled
<1>2. phase # "rejected" /\ LiveIsDescribed /\ PostsAreDeployed
  BY DEF LiveInv
<1>3. ASSUME UNCHANGED <<live, saved>>, UNCHANGED applyVars, ~InApply, phase' # "rejected",
             phase' # "post", InApply' => order' = 0 /\ UNCHANGED steps
      PROVE  LiveIsDescribed' /\ PostsAreDeployed'
  <2>1. \A i \in Ids : ~Folded(i) /\ ~Folded(i)'
    BY <1>3 DEF Folded, TypeOK, Step
  <2>2. registered = {} /\ batches = <<>> /\ posts = NoPosts
    BY <1>3 DEF ApplyInv, NothingApplied, InApply
  <2>3. PostsAreDeployed'
    BY <1>3, <2>2 DEF PostsAreDeployed, Queued, Elements, NoPosts, applyVars
  <2> QED
    BY <1>1, <1>2, <1>3, <2>1, <2>3, SameLive DEF applyVars
<1>4. ASSUME NEW project, NEW forced, StartDeploy(project, forced)
      PROVE  phase' # "rejected" /\ LiveIsDescribed' /\ PostsAreDeployed'
  BY <1>3, <1>4 DEF StartDeploy, InApply
<1>5. CASE PlanPendingChanges \/ HydrateState \/ PlanPendingRemoval \/ PlanReady
  BY <1>3, <1>5 DEF PlanPendingChanges, HydrateState, PlanPendingRemoval, PlanReady, InApply
<1>6. CASE StepsDone
  <2>1. /\ phase = "apply" /\ phase' = "post" /\ InApply /\ InApply' /\ Layer = {}
        /\ UNCHANGED <<saved, live, desired, steps, order>> /\ UNCHANGED applyVars
    BY <1>6 DEF StepsDone, InApply
  <2>2. \A i \in Ids : Folded(i)' <=> Folded(i)
    BY <2>1 DEF Folded, Planned, Changes, Removes
  <2>3. Queued' \subseteq Queued \cup registered
    BY <2>1 DEF Queued, applyVars
  <2>4. PostsAreDeployed'
    BY <1>1, <1>2, <2>1, <2>3 DEF PostsAreDeployed, TidyPosts, applyVars
  <2> QED
    BY <1>1, <1>2, <2>1, <2>2, <2>4, SameLive DEF applyVars
<1>7. CASE UNCHANGED vars
  <2>1. \A i \in Ids : Folded(i)' <=> Folded(i)
    BY <1>7 DEF vars, Folded, Planned, Changes, Removes, InApply
  <2>2. PostsAreDeployed'
    BY <1>2, <1>7 DEF vars, PostsAreDeployed, TidyPosts, Queued
  <2> QED
    BY <1>2, <1>7, <2>1, <2>2, SameLive DEF vars
<1>8. ~EndRejected
  BY <1>2 DEF EndRejected
<1> QED
  BY <1>1, <1>4, <1>5, <1>6, <1>7, <1>8, LiveByStep, LiveByFold, LiveByPost, LiveByReset
     DEF Next, EngineStep, EngineAction, StepAction, PostAction

\* The entries describe the deployed resources at every moment.
LEMMA LiveInvariant == Safety => [](TypeOK /\ PlanInv /\ ApplyInv /\ LiveInv)
<1>1. Init => LiveInv
  <2> SUFFICES ASSUME Init PROVE phase # "rejected" /\ LiveIsDescribed /\ PostsAreDeployed
    BY DEF LiveInv
  <2>1. phase = "idle" /\ \A i \in Ids : status[i] = "pending" /\ ~Folded(i) /\ ~live[i].in /\ ~saved[i].in
    BY DEF Init, Folded, InApply, EmptyMap, NoEntry
  <2>2. registered = {} /\ Queued = {} /\ posts.pending = {} /\ posts.running = {}
    BY DEF Init, Queued, Elements, NoPosts
  <2> QED
    BY <2>1, <2>2 DEF LiveIsDescribed, PostsAreDeployed, Describes
<1>2. TypeOK /\ PlanInv /\ ApplyInv /\ LiveInv /\ [Next]_vars => LiveInv'
  BY LiveStep
<1> QED
  BY <1>1, <1>2, EngineInvariant, PTL DEF Safety

\* Where every entry has a handler, no deployed resource is missing from the state once a deploy is over, whatever
\* failed, unless its creation was left half way: a later deploy can update or delete it.
THEOREM NothingForgotten == Safety => [](AllHandled => NothingIsForgotten)
<1>1. ApplyInv /\ LiveInv => (AllHandled => NothingIsForgotten)
  <2> SUFFICES ASSUME ApplyInv, LiveInv, AllHandled, phase = "idle", NEW i \in In(live), ~live[i].partial
               PROVE  saved[i].in
    BY DEF NothingIsForgotten
  <2>1. i \in Ids /\ ~Folded(i) /\ status[i] # "done"
    BY DEF ApplyInv, StepsOfLayer, Folded, InApply, Applying, In
  <2> QED
    BY <2>1 DEF LiveInv, LiveIsDescribed, Describes, In
<1> QED
  BY <1>1, LiveInvariant, PTL

\* Where every entry has a handler, an entry of the saved state that is not partial has the dependencies its resource was
\* deployed with, unless a handler threw half way: the preview of the next deploy compares with what is there.
THEOREM StateDescribes == Safety => [](AllHandled => StateDescribesResources)
<1>1. ApplyInv /\ LiveInv => (AllHandled => StateDescribesResources)
  <2> SUFFICES ASSUME ApplyInv, LiveInv, AllHandled, phase = "idle", NEW i \in In(saved), ~saved[i].partial, ~live[i].partial
               PROVE  live[i].in /\ live[i].deps = saved[i].deps
    BY DEF StateDescribesResources
  <2>1. i \in Ids /\ ~Folded(i) /\ status[i] # "done"
    BY DEF ApplyInv, StepsOfLayer, Folded, InApply, Applying, In
  <2> QED
    BY <2>1 DEF LiveInv, LiveIsDescribed, Describes, In
<1> QED
  BY <1>1, LiveInvariant, PTL
-----------------------------------------------------------------------------
(***************************************************************************)
(* Dependencies among deployed resources                                   *)
(***************************************************************************)

\* What a change waits for is deployed.
LEMMA SucceededIsDeployed ==
  ASSUME TypeOK, ApplyInv, LiveIsDescribed, TidyPosts, NEW d \in In(succeeded)
  PROVE  d \in Ids /\ (live[d].in \/ live[d].partial)
<1>1. d \in Ids /\ Folded(d)
  BY DEF ApplyInv, OnlyFoldedAreKept, Kept, In
<1>2. AllEntries[d].in
  BY <1>1 DEF AllEntries, CombineEntryMaps, In
<1> QED
  BY <1>1, <1>2 DEF LiveIsDescribed, Describes, In

\* Nothing deployed relies on a resource whose removal may run: what would is kept by a failure, or removed in an
\* earlier layer.
LEMMA RemovalIsFree ==
  ASSUME TypeOK, PlanInv, ApplyInv, LiveIsDescribed, TidyPosts, phase = "apply",
         NEW i \in Layer, Removes(i), MayRun(i), status[i] # "done", NEW j \in In(live), j # i, ~live[j].partial
  PROVE  i \notin live[j].deps
<1> SUFFICES ASSUME i \in live[j].deps PROVE FALSE
  OBVIOUS
<1>1. /\ i \in Ids /\ j \in Ids /\ live[j].in /\ steps[i].order = order /\ order \in Nat
      /\ steps[j].order \in Nat /\ ~Folded(i) /\ InApply
  BY LayerSteps, VisitedIsPlanned DEF Layer, In, TypeOK, Folded, InApply
<1>2. CASE Folded(j)
  <2>1. AllEntries[j].in /\ i \in AllEntries[j].deps
    BY <1>1, <1>2 DEF LiveIsDescribed, Describes
  <2>2. CASE failed[j].in
    BY <1>1, <2>1, <2>2 DEF AllEntries, CombineEntryMaps, MayRun, In
  <2>3. CASE ~failed[j].in
    <3>1. succeeded[j].in /\ i \in succeeded[j].deps
      BY <1>1, <2>1, <2>3 DEF AllEntries, CombineEntryMaps
    <3>2. i \in Kept
      BY <1>1, <3>1 DEF ApplyInv, SucceededDepsKept, In
    <3> QED
      BY <1>1, <3>2 DEF ApplyInv, OnlyFoldedAreKept
  <2> QED
    BY <2>2, <2>3
<1>3. CASE ~Folded(j)
  <2>1. Changes(j) => steps[j].order < order
    BY <1>1 DEF PlanInv, RemovalsLast
  <2>2. ~Changes(j)
    BY <1>1, <1>3, <2>1 DEF Folded, Planned
  <2>3. saved[j].in => Removes(j) /\ ~desired[j].in
    BY <1>1, <2>2 DEF PlanInv, PlanProgress
  <2>4. ~(saved[j].in /\ i \in saved[j].deps)
    <3> SUFFICES ASSUME saved[j].in, i \in saved[j].deps PROVE FALSE
      OBVIOUS
    <3>1. Removes(j) /\ steps[j].order < order
      BY <1>1, <2>3 DEF PlanInv, RemovalsInOrder
    <3> QED
      BY <1>1, <1>3, <3>1 DEF Folded, Planned
  <2>5. CASE status[j] # "done"
    <3>1. Describes(saved[j], live[j])
      BY <1>1, <1>3, <2>5 DEF LiveIsDescribed
    <3> QED
      BY <1>1, <2>4, <3>1 DEF Describes
  <2>6. CASE status[j] = "done"
    <3>1. j \in Layer /\ Ended(j)
      BY <1>1, <2>6 DEF ApplyInv, StepsOfLayer
    <3>2. Removes(j)
      BY <1>1, <2>2, <3>1, LayerSteps DEF Planned
    <3>3. saved[j].in
      BY <1>1, <3>2 DEF PlanInv, StepsFitEntries
    <3>4. outcome[j].entry.in /\ i \in outcome[j].entry.deps
      BY <1>1, <2>6 DEF LiveIsDescribed, Describes
    <3>5. outcome[j].entry.deps \subseteq saved[j].deps
      BY <1>1, <3>1, <3>2, <3>4, EndedOutcome DEF KeptDependencies
    <3> QED
      BY <2>4, <3>3, <3>4, <3>5
  <2> QED
    BY <2>5, <2>6
<1> QED
  BY <1>2, <1>3

\* A handler that returns leaves the dependencies of every deployed resource deployed.
LEMMA LoadableStep ==
  ASSUME TypeOK, PlanInv, ApplyInv, LiveInv, AllHandled, TidyPosts, LiveDependenciesExist, [Next]_vars
  PROVE  LiveDependenciesExist'
<1> USE DEF LiveDependenciesExist, In
<1>t. \A j \in Ids : live[j].deps \subseteq Ids
  BY MapTypes DEF TypeOK
<1>1. CASE UNCHANGED live
  BY <1>1
<1>2. phase # "rejected" /\ LiveIsDescribed
  BY DEF LiveInv
<1>3. ASSUME NEW i \in Ids, MayRun(i), ~Removes(i), NEW d \in desired[i].deps
      PROVE  d \in Ids /\ (live[d].in \/ live[d].partial)
  <2>1. d \in In(succeeded)
    BY <1>3 DEF MayRun
  <2> QED
    BY <1>2, <2>1, SucceededIsDeployed
<1>4. ASSUME NEW i \in Ids, NoopStep(i) PROVE LiveDependenciesExist'
  <2>1. /\ MayRun(i) /\ ~Removes(i)
        /\ live' = [live EXCEPT ![i].deps = IF live[i].in /\ ~live[i].partial THEN desired[i].deps ELSE @]
    BY <1>4, NotSkipped DEF NoopStep, IsNoop, Removes
  <2>2. /\ \A j \in Ids : j # i => live'[j] = live[j]
        /\ live'[i].in = live[i].in /\ live'[i].partial = live[i].partial
        /\ live[i].in /\ ~live[i].partial => live'[i].deps = desired[i].deps
    BY <2>1 DEF TypeOK, EntryMap, Entry
  <2> QED
    BY <1>3, <2>1, <2>2
<1>5. ASSUME NEW i \in Ids, NEW warned \in BOOLEAN, NEW post, HandlerReturns(i, warned, post)
      PROVE  LiveDependenciesExist'
  <2>1. /\ Applying /\ status[i] = "running" /\ phase = "apply"
        /\ live' = [live EXCEPT ![i] = Deployed(i, warned)]
    BY <1>2, <1>5 DEF HandlerReturns, Applying
  <2>2. i \in Layer /\ MayRun(i)
    BY <2>1 DEF ApplyInv, StepsOfLayer
  <2>3. live'[i] = Deployed(i, warned) /\ \A j \in Ids : j # i => live'[j] = live[j]
    BY <2>1 DEF TypeOK, EntryMap
  <2>4. CASE ~Removes(i)
    <3>1. live'[i] = EntryWith(desired[i].deps)
      BY <2>3, <2>4 DEF Deployed, Removes
    <3>2. live'[i].in /\ live'[i].deps = desired[i].deps
      BY <3>1 DEF EntryWith
    <3> QED
      BY <1>3, <1>t, <2>2, <2>3, <2>4, <3>2
  <2>5. CASE Removes(i) /\ ~warned
    <3>1. ~live'[i].in
      BY <2>3, <2>5 DEF Deployed, Removes, NoEntry
    <3>2. \A j \in Ids : j # i /\ live[j].in /\ ~live[j].partial => i \notin live[j].deps
      BY <1>2, <2>1, <2>2, <2>5, RemovalIsFree
    <3> QED
      BY <1>t, <2>3, <3>1, <3>2
  <2>6. CASE Removes(i) /\ warned
    <3>1. live'[i] = [live[i] EXCEPT !.deps = @ \cap NewEntries]
      BY <2>3, <2>6 DEF Deployed, Removes
    <3>2. live'[i].in = live[i].in /\ live'[i].partial = live[i].partial /\ live'[i].deps \subseteq live[i].deps
      BY <3>1 DEF TypeOK, EntryMap, Entry
    <3> QED
      BY <1>t, <2>3, <3>2
  <2> QED
    BY <2>4, <2>5, <2>6
<1>7. ASSUME NEW i \in Ids, NEW post, HandlerThrows(i, post) PROVE LiveDependenciesExist'
  <2>1. (\A j \in Ids : j # i => live'[j] = live[j]) /\ (live'[i] = live[i] \/ live'[i].partial)
    BY <1>7, ThrowsHalfway
  <2> QED
    BY <1>t, <2>1
<1>6. \/ UNCHANGED live
      \/ \E i \in Ids : \/ NoopStep(i)
                       \/ \E post \in PostsOf(i) :
                            HandlerThrows(i, post) \/ \E warned \in BOOLEAN : HandlerReturns(i, warned, post)
  BY DEF Next, EngineStep, EngineAction, vars, StartDeploy, PlanPendingChanges, HydrateState, PlanPendingRemoval, PlanReady,
     PlanThrows, SkipStep, CallHandler, HandlerNotFound, FoldLayer, StepsDone, NextBatch, SkipPost, CallPost,
     PostThrows, PostReturns, SaveResult, EndRejected, Reset
<1> QED
  BY <1>1, <1>4, <1>5, <1>6, <1>7

\* Where every entry has a handler, handlers throw before they register a post action and those of deletions register
\* none, no resource is ever deployed that relies on one that is not: at no moment of any deploy, whatever fails and
\* whatever runs concurrently, except for resources that a handler left half way.
THEOREM DependenciesDeployed == Safety => [](AllHandled => DeployedDependenciesExist)
<1>1. Init => LiveDependenciesExist
  BY DEF Init, LiveDependenciesExist, In, EmptyMap, NoEntry
<1>2. [Next]_vars => UNCHANGED setup
  BY DEF Next, EngineStep, vars
<1>3. TypeOK /\ PlanInv /\ ApplyInv /\ LiveInv /\ [Next]_vars /\ (AllHandled /\ TidyPosts => LiveDependenciesExist)
      => (AllHandled /\ TidyPosts => LiveDependenciesExist)'
  BY <1>2, LoadableStep DEF AllHandled, TidyPosts
<1>4. (AllHandled /\ TidyPosts => LiveDependenciesExist) => (AllHandled => DeployedDependenciesExist)
  BY DEF DeployedDependenciesExist
<1> QED
  BY <1>1, <1>3, <1>4, LiveInvariant, PTL DEF Safety
-----------------------------------------------------------------------------
(***************************************************************************)
(* Cleanups and old code                                                   *)
(***************************************************************************)

\* While a post action that requires its dependents runs, the failed entries that depend on its own are the ones whose
\* post action failed meanwhile.
CleanupInv ==
  \A p \in posts.running : p.require =>
    \A j \in Ids : failed[j].in /\ p.id \in failed[j].deps => failed[j].partial

\* A cleanup starts when no dependent failed; a dependent that fails while it runs does so as partial.
LEMMA CleanupStep ==
  ASSUME TypeOK, PlanInv, ApplyInv, CleanupInv, [Next]_vars, ApplyInv'
  PROVE  CleanupInv'
<1>1. CASE phase' # "post"
  BY <1>1 DEF ApplyInv, NothingApplied, NoPosts, CleanupInv
<1>2. CASE UNCHANGED <<posts, failed>>
  BY <1>2 DEF CleanupInv
<1>3. ASSUME NEW p \in posts.pending \cup posts.running, PostFailed(p), posts'.running \subseteq posts.running
      PROVE  CleanupInv'
  <2>1. (\A i \in Ids : i # p.id => failed'[i] = failed[i]) /\ failed'[p.id].partial /\ p.id \in Ids
    BY <1>3, PostFails
  <2> QED
    BY <1>3, <2>1 DEF CleanupInv
<1>4. ASSUME NEW p \in posts.pending, SkipPost(p) PROVE CleanupInv'
  <2>1. PostFailed(p) /\ posts'.running \subseteq posts.running
    BY <1>4 DEF SkipPost, TypeOK
  <2> QED
    BY <1>3, <2>1
<1>5. ASSUME NEW p \in posts.running, PostThrows(p) PROVE CleanupInv'
  <2>1. PostFailed(p) /\ posts'.running \subseteq posts.running
    BY <1>5 DEF PostThrows, TypeOK
  <2> QED
    BY <1>3, <2>1
<1>6. ASSUME NEW p \in posts.running, NEW post, PostReturns(p, post) PROVE CleanupInv'
  <2>1. UNCHANGED failed /\ posts'.running \subseteq posts.running
    BY <1>6 DEF PostReturns, TypeOK
  <2> QED
    BY <2>1 DEF CleanupInv
<1>7. ASSUME NEW p \in posts.pending, CallPost(p) PROVE CleanupInv'
  <2>1. UNCHANGED failed /\ posts'.running = posts.running \cup {p} /\ PostAllowed(p)
    BY <1>7 DEF CallPost
  <2>2. ASSUME p.require, NEW j \in Ids, failed[j].in, p.id \in failed[j].deps PROVE FALSE
    <3>1. PICK S \in SUBSET (In(AllEntries) \ In(failed)) : GetEntryDependents(AllEntries, p.id) \subseteq S
      BY <2>1, <2>2 DEF PostAllowed, CheckAllDependentsSucceeded, AllEntries
    <3>2. AllEntries[j] = failed[j]
      BY <2>2 DEF AllEntries, CombineEntryMaps
    <3>3. j \in GetEntryDependents(AllEntries, p.id)
      BY <2>2, <3>2 DEF GetEntryDependents, In
    <3> QED
      BY <2>2, <3>1, <3>3 DEF In
  <2> QED
    BY <2>1, <2>2 DEF CleanupInv
<1>8. CASE NextBatch
  <2>1. posts'.running = {}
    BY <1>8 DEF NextBatch
  <2> QED
    BY <2>1 DEF CleanupInv
<1>9. CASE StepsDone \/ UNCHANGED vars
  BY <1>2, <1>9 DEF StepsDone, applyVars, vars
<1>10. ASSUME NEW i \in Ids, StepAction(i) PROVE CleanupInv'
  BY <1>2, <1>10, StepMoves DEF ApplyInv, MovesStep
<1>11. \/ phase' # "post" \/ NextBatch \/ StepsDone \/ UNCHANGED vars
       \/ \E i \in Ids : StepAction(i)
       \/ \E p \in posts.pending : SkipPost(p) \/ CallPost(p)
       \/ \E p \in posts.running :
            PostThrows(p) \/ \E post \in PostsOf(p.id) : PostReturns(p, post)
  BY DEF Next, EngineStep, EngineAction, StepAction, StartDeploy, PlanPendingChanges, HydrateState, PlanPendingRemoval,
     PlanReady, PlanThrows, FoldLayer, SaveResult, EndRejected, Reset
<1> QED
  BY <1>1, <1>4, <1>5, <1>6, <1>7, <1>8, <1>9, <1>10, <1>11

\* Where every entry has a handler, no cleanup that requires its dependents runs while a resource that relies on its own
\* was left as it was by a step that failed, in this deploy, unless it
\* was left half way.
THEOREM OldCodeSpared == Safety => [](AllHandled => CleanupSparesOldCode)
<1>1. Init => CleanupInv
  BY DEF Init, CleanupInv, NoPosts
<1>2. TypeOK /\ PlanInv /\ ApplyInv /\ ApplyInv' /\ CleanupInv /\ [Next]_vars => CleanupInv'
  BY CleanupStep
<1>3. TypeOK /\ ApplyInv /\ LiveInv /\ CleanupInv => (AllHandled => CleanupSparesOldCode)
  <2> SUFFICES ASSUME TypeOK, ApplyInv, LiveInv, CleanupInv, AllHandled,
                      NEW p \in posts.running, p.require, NEW j \in In(live), p.id \in live[j].deps, failed[j].in,
                      ~failed[j].partial, ~live[j].partial
               PROVE  FALSE
    BY DEF CleanupSparesOldCode, TypeOK, EntryMap, Entry, In
  <2>1. j \in Ids /\ live[j].in /\ Folded(j)
    BY DEF ApplyInv, OnlyFoldedAreKept, Kept, In
  <2>2. AllEntries[j] = failed[j]
    BY <2>1 DEF AllEntries, CombineEntryMaps
  <2>3. live[j].deps = failed[j].deps
    BY <2>1, <2>2 DEF LiveInv, LiveIsDescribed, Describes
  <2> QED
    BY <2>1, <2>3 DEF CleanupInv
<1> QED
  BY <1>1, <1>2, <1>3, LiveInvariant, PTL DEF Safety
-----------------------------------------------------------------------------
(***************************************************************************)
(* What leaves the state                                                   *)
(***************************************************************************)

\* An old entry that the result will not have is of a resource that is gone.
GoneInv ==
  \A i \in Ids : saved[i].in =>
    /\ phase = "apply" /\ status[i] = "done" /\ ~outcome[i].entry.in => ~live[i].in
    /\ Folded(i) /\ i \notin Kept => ~live[i].in

\* The only step that ends without an entry where there was one is a deletion that returned without a warning.
LEMMA GoneByStep ==
  ASSUME TypeOK, PlanInv, ApplyInv, GoneInv, NEW i \in Ids, StepAction(i)
  PROVE  GoneInv'
<1>1. MovesStep(i)
  BY StepMoves DEF ApplyInv
<1>2. /\ UNCHANGED <<saved, desired, steps, order, succeeded, failed>> /\ InApply /\ InApply' /\ i \in Layer
      /\ (phase' = "apply" => phase = "apply")
      /\ \A j \in Ids : j # i => status'[j] = status[j] /\ outcome'[j] = outcome[j]
  BY <1>1 DEF MovesStep, Applying, InApply
<1>3. Kept' = Kept /\ \A j \in Ids : Folded(j)' <=> Folded(j)
  BY <1>2 DEF Kept, In, Folded, Planned, Changes, Removes
<1>4. ~Folded(i)
  BY <1>2, LayerSteps, VisitedIsPlanned DEF Folded, TypeOK
<1>a. ASSUME NEW entry, NEW issue, Done(i, entry, issue)
      PROVE  status'[i] = "done" /\ outcome'[i].entry = entry
  BY <1>a DEF Done, TypeOK
\* It is enough to look at the step's own resource.
<1>b. ASSUME \A j \in Ids : j # i => live'[j] = live[j],
             saved[i].in /\ phase' = "apply" /\ status'[i] = "done" /\ ~outcome'[i].entry.in => ~live'[i].in
      PROVE  GoneInv'
  BY <1>2, <1>3, <1>4, <1>b DEF GoneInv
<1>5. CASE SkipStep(i)
  BY <1>5, <1>a, <1>b DEF SkipStep
<1>6. CASE NoopStep(i)
  <2>1. /\ outcome'[i].entry = [saved[i] EXCEPT !.deps = desired[i].deps]
        /\ \A j \in Ids : j # i => live'[j] = live[j]
    BY <1>6, <1>a DEF NoopStep, TypeOK, EntryMap
  <2>2. outcome'[i].entry.in = saved[i].in
    BY <2>1 DEF TypeOK, EntryMap, Entry
  <2> QED
    BY <1>b, <2>1, <2>2
<1>7. CASE CallHandler(i)
  BY <1>7, <1>b DEF CallHandler, TypeOK
<1>8. CASE HandlerNotFound(i)
  BY <1>8, <1>b DEF HandlerNotFound
<1>9. ASSUME NEW post, HandlerThrows(i, post) PROVE GoneInv'
  <2>1. outcome'[i].entry = saved[i]
    BY <1>9, <1>a DEF HandlerThrows
  <2> QED
    BY <1>9, <1>b, <2>1, ThrowsHalfway
<1>10. ASSUME NEW post, NEW warned \in BOOLEAN, HandlerReturns(i, warned, post) PROVE GoneInv'
  <2>1. /\ outcome'[i].entry = ResultOf(i, warned) /\ live'[i] = Deployed(i, warned)
        /\ \A j \in Ids : j # i => live'[j] = live[j]
    BY <1>10, <1>a DEF HandlerReturns, TypeOK, EntryMap
  <2>2. CASE Removes(i) /\ ~warned
    BY <1>b, <2>1, <2>2 DEF Deployed, Removes, NoEntry
  <2>3. CASE Removes(i) /\ warned
    <3>1. outcome'[i].entry = [saved[i] EXCEPT !.deps = KeptDependencies(i)]
      BY <2>1, <2>3 DEF ResultOf, Removes
    <3>2. outcome'[i].entry.in = saved[i].in
      BY <3>1 DEF TypeOK, EntryMap, Entry
    <3> QED
      BY <1>b, <2>1, <3>2
  <2>4. CASE ~Removes(i)
    <3>1. outcome'[i].entry.in
      BY <2>1, <2>4 DEF ResultOf, Removes, EntryWith
    <3> QED
      BY <1>b, <2>1, <3>1
  <2> QED
    BY <2>2, <2>3, <2>4
<1> QED
  BY <1>5, <1>6, <1>7, <1>8, <1>9, <1>10 DEF StepAction

\* Folding a layer and running post actions let go of no other entry.
LEMMA GoneStep ==
  ASSUME TypeOK, PlanInv, ApplyInv, GoneInv, [Next]_vars, TypeOK'
  PROVE  GoneInv'
<1>1. CASE FoldLayer
  <2>1. /\ phase = "apply" /\ phase' = "apply" /\ InApply /\ InApply' /\ order \in Nat /\ order' = order + 1
        /\ UNCHANGED <<saved, live, steps>> /\ \A i \in Ids : status'[i] = "pending"
    BY <1>1 DEF FoldLayer, InApply, TypeOK
  <2>2. \A i \in Ids : steps[i].order \in Nat /\ (i \in Layer <=> Planned(i) /\ steps[i].order = order)
    BY VisitedIsPlanned, LayerSteps
  <2>3. \A i \in Ids : Folded(i)' <=> Folded(i) \/ i \in Layer
    BY <2>1, <2>2 DEF Folded, Planned, Changes, Removes
  <2>4. \A i \in Ids : i \in Layer => status[i] = "done" /\ (outcome[i].entry.in => i \in Kept')
    BY <1>1 DEF FoldLayer, LayerDone, Kept, In
  <2>5. \A i \in Ids : i \notin Layer /\ i \in Kept => i \in Kept'
    BY <1>1 DEF FoldLayer, Kept, In
  <2> QED
    BY <2>1, <2>3, <2>4, <2>5 DEF GoneInv
<1>2. CASE PostAction
  <2>1. MovesPosts
    BY <1>2, PostMoves
  <2>2. phase' = "post" /\ UNCHANGED <<saved, live>> /\ \A i \in Ids : Folded(i)' <=> Folded(i)
    BY <2>1 DEF MovesPosts, Folded, Planned, Changes, Removes, InApply
  <2>3. \A i \in Ids : i \in Kept => i \in Kept'
    <3>1. CASE UNCHANGED <<succeeded, failed>>
      BY <3>1 DEF Kept, In
    <3>2. ASSUME NEW p \in posts.pending \cup posts.running, PostFailed(p)
          PROVE  \A i \in Ids : i \in Kept => i \in Kept'
      <4>1. /\ \A i \in Ids : i # p.id => succeeded'[i] = succeeded[i] /\ failed'[i] = failed[i]
            /\ failed'[p.id].in /\ p.id \in Ids
        BY <3>2, PostFails
      <4> HIDE DEF PostFailed
      <4> QED
        BY <4>1 DEF Kept, In
    <3> QED
      BY <2>1, <3>1, <3>2 DEF MovesPosts
  <2> QED
    BY <2>2, <2>3 DEF GoneInv
<1>3. CASE StepsDone
  <2>1. phase' = "post" /\ UNCHANGED <<saved, live>> /\ Kept' = Kept /\ \A i \in Ids : Folded(i)' <=> Folded(i)
    BY <1>3 DEF StepsDone, applyVars, Kept, In, Folded, Planned, Changes, Removes, InApply
  <2> QED
    BY <2>1 DEF GoneInv
<1>4. ASSUME phase' # "apply", ~InApply' PROVE GoneInv'
  BY <1>4 DEF GoneInv, Folded
<1>5. CASE PlanReady
  <2>1. /\ ~Applying /\ order' = 0 /\ UNCHANGED <<steps, status>>
    BY <1>5 DEF PlanReady, Applying, applyVars
  <2>2. \A i \in Ids : status'[i] # "done" /\ ~Folded(i)'
    BY <2>1 DEF ApplyInv, StepsOfLayer, Folded, TypeOK, Step
  <2> QED
    BY <2>2 DEF GoneInv
<1>6. ASSUME NEW project, NEW forced, StartDeploy(project, forced) PROVE GoneInv'
  BY <1>4, <1>6 DEF StartDeploy, InApply
<1>7. CASE PlanPendingChanges \/ HydrateState \/ PlanPendingRemoval \/ Reset
  BY <1>4, <1>7 DEF PlanPendingChanges, HydrateState, PlanPendingRemoval, Reset, InApply
<1>8. CASE UNCHANGED vars
  BY <1>8 DEF vars, GoneInv, Folded, Kept, In, Planned, Changes, Removes, InApply
<1> QED
  BY <1>1, <1>2, <1>3, <1>5, <1>6, <1>7, <1>8, GoneByStep
     DEF Next, EngineStep, EngineAction, StepAction, PostAction, SaveResult, PlanThrows, EndRejected

\* In every system, entries without a handler, half-way failures and post actions of deletions included, an entry only
\* leaves the state when its resource is gone.
THEOREM LetGoOnceGone == Safety => KnownUntilGone
<1>1. Init => GoneInv
  BY DEF Init, GoneInv, EmptyMap, NoEntry
<1>2. TypeOK /\ TypeOK' /\ PlanInv /\ ApplyInv /\ GoneInv /\ [Next]_vars => GoneInv'
  BY GoneStep
<1>3. TypeOK /\ PlanInv /\ ApplyInv /\ GoneInv /\ [Next]_vars
      => [\A i \in Ids : saved[i].in /\ ~saved'[i].in => ~live'[i].in]_vars
  <2> SUFFICES ASSUME TypeOK, PlanInv, ApplyInv, GoneInv, [Next]_vars, NEW i \in Ids, saved[i].in, ~saved'[i].in
               PROVE  ~live'[i].in
    OBVIOUS
  <2>1. SaveResult
    <3>1. saved' # saved
      OBVIOUS
    <3>2. ~Applies
      BY <3>1, AppliesFrame
    <3> QED
      BY <3>1, <3>2 DEF Next, EngineStep, EngineAction, Applies, vars, StartDeploy, PlanPendingChanges, HydrateState,
         PlanPendingRemoval, PlanReady, PlanThrows, EndRejected
  <2>2. phase = "post" /\ InApply /\ saved' = CombineEntryMaps(failed, succeeded) /\ UNCHANGED live
    BY <2>1 DEF SaveResult, Reset, InApply
  <2>3. Folded(i) /\ i \notin Kept
    BY <2>2 DEF PlanInv, PlanProgress, ApplyInv, PostsComeLast, Folded, Planned, CombineEntryMaps, Kept, In
  <2> QED
    BY <2>2, <2>3 DEF GoneInv
<1> QED
  BY <1>1, <1>2, <1>3, EngineInvariant, TypeCorrect, PTL DEF Safety, KnownUntilGone
=============================================================================
