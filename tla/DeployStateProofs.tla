-------------------------- MODULE DeployStateProofs --------------------------
(***************************************************************************)
(* The safety of the deploy engine for any projects, any number of entries *)
(* and deploys, and any failures of handlers and post actions.             *)
(***************************************************************************)
EXTENDS DeployState, SequenceTheorems, TLAPS

-----------------------------------------------------------------------------
(* Types                                                                   *)

\* A map keeps its type when an entry of it is replaced.
LEMMA MapTypes ==
  /\ EmptyMap \in EntryMap /\ NoEntry \in Entry /\ NoOutcome \in Outcome /\ NoStep \in Step
  /\ \A deps \in SUBSET Ids : EntryWith(deps) \in Entry
  /\ \A map \in EntryMap : \A i \in Ids :
       /\ map[i] \in Entry /\ map[i].deps \in SUBSET Ids /\ map[i].in \in BOOLEAN /\ map[i].partial \in BOOLEAN
       /\ \A deps \in SUBSET Ids : [map[i] EXCEPT !.deps = deps] \in Entry
       /\ [map[i] EXCEPT !.partial = TRUE] \in Entry
  /\ \A target, source \in EntryMap : CombineEntryMaps(target, source) \in EntryMap
BY DEF EmptyMap, EntryMap, NoEntry, Entry, NoOutcome, Outcome, NoStep, Step, Actions, EntryWith, CombineEntryMaps

\* Nothing registered and nothing running are of their types.
LEMMA NoPostTypes == <<>> \in Seq(SUBSET Post) /\ NoPosts \in [pending : SUBSET Post, running : SUBSET Post]
<1>1. <<>> \in Seq(SUBSET Post)
  BY EmptySeq
<1>2. NoPosts \in [pending : SUBSET Post, running : SUBSET Post]
  BY DEF NoPosts
<1> QED
  BY <1>1, <1>2

\* The variables of one deploy start over with values of their types.
LEMMA ResetType ==
  ASSUME TypeOK, Reset, saved' \in EntryMap, UNCHANGED setup
  PROVE  TypeOK'
<1>1. phase' \in Phases /\ order' \in Nat /\ force' \in BOOLEAN /\ registered' \in SUBSET Post
  BY DEF Reset, Phases
<1>4. batches' \in Seq(SUBSET Post) /\ posts' \in [pending : SUBSET Post, running : SUBSET Post]
  BY NoPostTypes DEF Reset
<1>2. /\ steps' \in [Ids -> Step] /\ status' \in [Ids -> {"pending", "running", "done"}]
      /\ outcome' \in [Ids -> Outcome]
  BY MapTypes DEF Reset
<1>3. desired' \in EntryMap /\ succeeded' \in EntryMap /\ failed' \in EntryMap /\ UNCHANGED live
  BY MapTypes DEF Reset
<1> QED
  BY <1>1, <1>2, <1>3, <1>4 DEF TypeOK

\* Planning keeps the types.
LEMMA PlanTypes ==
  ASSUME TypeOK, UNCHANGED setup,
         \/ PlanPendingChanges \/ HydrateState \/ PlanPendingRemoval \/ PlanReady
         \/ \E project \in Projects[setup.projects], forced \in BOOLEAN : StartDeploy(project, forced)
  PROVE  TypeOK'
<1> USE DEF TypeOK, applyVars
<1>1. ASSUME NEW project \in Projects[setup.projects], NEW forced \in BOOLEAN, StartDeploy(project, forced) PROVE TypeOK'
  BY <1>1, SetupsAssumption DEF StartDeploy, IsProject, Phases
<1>a. \A action \in Actions, changed \in BOOLEAN : PlannedStep(action, changed) \in Step
  BY DEF PlannedStep, Step
<1>2. CASE PlanPendingChanges
  <2>1. \A i \in Ids : PlannedFor(i) \subseteq Step
    BY <1>a DEF PlannedFor, Actions
  <2>2. steps' \in [Ids -> Step]
    BY <1>2, <2>1 DEF PlanPendingChanges
  <2>3. order' \in Nat
    BY <1>2 DEF PlanPendingChanges
  <2> QED
    BY <1>2, <2>2, <2>3 DEF PlanPendingChanges
<1>3. CASE PlanPendingRemoval
  <2>1. steps' \in [Ids -> Step]
    BY <1>3, <1>a DEF PlanPendingRemoval, Actions
  <2>2. order' \in Nat
    BY <1>3 DEF PlanPendingRemoval
  <2> QED
    BY <1>3, <2>1, <2>2 DEF PlanPendingRemoval
<1>4. CASE HydrateState \/ PlanReady
  BY <1>4 DEF HydrateState, PlanReady, Phases
<1> QED
  BY <1>1, <1>2, <1>3, <1>4

\* The steps of a layer keep the types.
LEMMA StepTypes ==
  ASSUME TypeOK, UNCHANGED setup, NEW i \in Ids,
         \/ SkipStep(i) \/ NoopStep(i) \/ CallHandler(i) \/ HandlerNotFound(i)
         \/ \E post \in PostsOf(i) :
              HandlerThrows(i, post) \/ \E warned \in BOOLEAN : HandlerReturns(i, warned, post)
  PROVE  TypeOK'
<1> USE DEF TypeOK
<1>a. ASSUME NEW entry \in Entry, NEW issue \in BOOLEAN, Done(i, entry, issue)
      PROVE  status' \in [Ids -> {"pending", "running", "done"}] /\ outcome' \in [Ids -> Outcome]
  BY <1>a DEF Done, Outcome
<1>b. ASSUME NEW post, Registers(i, post) PROVE registered' \in SUBSET Post
  <2>1. [id |-> i, nest |-> 0, require |-> post = "require"] \in Post
    BY ConstantsAssumption DEF Post
  <2> QED
    BY <1>b, <2>1 DEF Registers
<1>c. saved[i] \in Entry /\ live[i] \in Entry /\ desired[i].deps \in SUBSET Ids /\ saved[i].deps \in SUBSET Ids
  BY MapTypes
<1>1. CASE SkipStep(i)
  BY <1>1, <1>a, <1>c DEF SkipStep
<1>2. CASE NoopStep(i)
  <2>1. [saved[i] EXCEPT !.deps = desired[i].deps] \in Entry
    BY <1>c, MapTypes
  <2>2. live' \in EntryMap
    BY <1>2, <1>c DEF NoopStep, EntryMap, Entry
  <2> QED
    BY <1>2, <1>a, <2>1, <2>2 DEF NoopStep
<1>3. CASE CallHandler(i) \/ HandlerNotFound(i)
  BY <1>3 DEF CallHandler, HandlerNotFound, Phases
<1>4. ASSUME NEW post, HandlerThrows(i, post) PROVE TypeOK'
  <2>1. HalfDone(i) \subseteq Entry
    <3> DEFINE changed == [EntryWith(desired[i].deps) EXCEPT !.partial = TRUE]
               gone == [NoEntry EXCEPT !.partial = TRUE]
    <3>1. changed \in Entry /\ gone \in Entry
      BY <1>c DEF EntryWith, NoEntry, Entry
    <3>2. HalfDone(i) \subseteq {live[i], changed, gone}
      BY DEF HalfDone
    <3> QED
      BY <1>c, <3>1, <3>2
  <2>2. PICK resource \in HalfDone(i) : live' = [live EXCEPT ![i] = resource]
    BY <1>4 DEF HandlerThrows
  <2>3. live' \in EntryMap
    BY <2>1, <2>2 DEF EntryMap
  <2> QED
    BY <1>4, <1>a, <1>b, <1>c, <2>3 DEF HandlerThrows
<1>5. ASSUME NEW post, NEW warned \in BOOLEAN, HandlerReturns(i, warned, post) PROVE TypeOK'
  <2>1. KeptDependencies(i) \in SUBSET Ids /\ [live[i] EXCEPT !.deps = @ \cap NewEntries] \in Entry
    BY <1>c DEF KeptDependencies, NewEntries, Entry
  <2>2. ResultOf(i, warned) \in Entry /\ Deployed(i, warned) \in Entry
    BY <1>c, <2>1, MapTypes DEF ResultOf, Deployed
  <2>3. live' \in EntryMap
    BY <1>5, <2>2 DEF HandlerReturns, EntryMap
  <2> QED
    BY <1>5, <1>a, <1>b, <2>2, <2>3 DEF HandlerReturns
<1> QED
  BY <1>1, <1>2, <1>3, <1>4, <1>5

\* Folding a layer and running the post actions keep the types.
LEMMA PostTypes ==
  ASSUME TypeOK, UNCHANGED setup,
         \/ FoldLayer \/ StepsDone \/ NextBatch
         \/ \E p \in posts.pending : SkipPost(p) \/ CallPost(p)
         \/ \E p \in posts.running :
              PostThrows(p) \/ \E post \in PostsOf(p.id) :
                                 (p.nest < MaxNesting \/ post = "none") /\ PostReturns(p, post)
  PROVE  TypeOK'
<1> USE DEF TypeOK
<1>1. CASE FoldLayer
  <2>1. \A i \in Ids : outcome[i].entry \in Entry
    BY DEF Outcome
  <2>2. succeeded' \in EntryMap /\ failed' \in EntryMap
    BY <1>1, <2>1 DEF FoldLayer, EntryMap
  <2>3. batches' \in Seq(SUBSET Post)
    BY <1>1, AppendProperties DEF FoldLayer
  <2>4. outcome' \in [Ids -> Outcome] /\ status' \in [Ids -> {"pending", "running", "done"}] /\ order' \in Nat
    BY <1>1, MapTypes DEF FoldLayer
  <2> QED
    BY <1>1, <2>2, <2>3, <2>4 DEF FoldLayer
<1>2. CASE StepsDone
  BY <1>2 DEF StepsDone, applyVars, Phases
<1>3. CASE NextBatch
  <2> DEFINE queue == IF registered = {} THEN batches ELSE Append(batches, registered)
  <2>1. queue \in Seq(SUBSET Post)
    BY AppendProperties
  <2>2. queue # <<>> /\ posts' = [pending |-> Head(queue), running |-> {}] /\ batches' = Tail(queue)
    BY <1>3 DEF NextBatch
  <2> HIDE DEF queue
  <2>3. Head(queue) \in SUBSET Post /\ Tail(queue) \in Seq(SUBSET Post)
    BY <2>1, <2>2, HeadTailProperties
  <2> QED
    BY <1>3, <2>2, <2>3 DEF NextBatch
<1>a. ASSUME NEW p \in posts.pending \cup posts.running
      PROVE  p \in Post /\ p.id \in Ids /\ [PostEntry(p.id) EXCEPT !.partial = TRUE] \in Entry
  BY MapTypes DEF Post, PostEntry
<1>b. ASSUME NEW p \in posts.pending \cup posts.running, PostFailed(p)
      PROVE  succeeded' \in EntryMap /\ failed' \in EntryMap
  BY <1>a, <1>b, MapTypes DEF PostFailed, EntryMap
<1>4. ASSUME NEW p \in posts.pending, SkipPost(p) PROVE TypeOK'
  BY <1>4, <1>b DEF SkipPost
<1>5. ASSUME NEW p \in posts.pending, CallPost(p) PROVE TypeOK'
  BY <1>5, <1>a DEF CallPost
<1>6. ASSUME NEW p \in posts.running, PostThrows(p) PROVE TypeOK'
  BY <1>6, <1>b DEF PostThrows
<1>7. ASSUME NEW p \in posts.running, NEW post, p.nest < MaxNesting \/ post = "none", PostReturns(p, post) PROVE TypeOK'
  <2>1. post # "none" => [id |-> p.id, nest |-> p.nest + 1, require |-> post = "require"] \in Post
    BY <1>7, <1>a, ConstantsAssumption DEF Post
  <2> QED
    BY <1>7, <2>1 DEF PostReturns
<1> QED
  BY <1>1, <1>2, <1>3, <1>4, <1>5, <1>6, <1>7

\* Every variable of the engine keeps its type over any number of deploys, the nesting of post actions its bound.
THEOREM TypeCorrect == Safety => []TypeOK
<1>1. Init => TypeOK
  <2> SUFFICES ASSUME Init PROVE TypeOK
    OBVIOUS
  <2>1. /\ steps \in [Ids -> Step] /\ status \in [Ids -> {"pending", "running", "done"}]
        /\ outcome \in [Ids -> Outcome]
    BY MapTypes DEF Init
  <2>2. batches \in Seq(SUBSET Post) /\ posts \in [pending : SUBSET Post, running : SUBSET Post]
    BY NoPostTypes DEF Init
  <2> QED
    BY <2>1, <2>2, MapTypes DEF Init, TypeOK, Phases
<1>2. TypeOK /\ [Next]_vars => TypeOK'
  <2> SUFFICES ASSUME TypeOK, [Next]_vars PROVE TypeOK'
    OBVIOUS
  <2>1. CASE SaveResult /\ UNCHANGED setup
    <3>1. saved' \in EntryMap
      BY <2>1, MapTypes DEF SaveResult, TypeOK
    <3> QED
      BY <2>1, <3>1, ResetType DEF SaveResult
  <2>2. CASE (PlanThrows \/ EndRejected) /\ UNCHANGED setup
    <3>1. saved' \in EntryMap
      BY <2>2 DEF PlanThrows, EndRejected, TypeOK
    <3> QED
      BY <2>2, <3>1, ResetType DEF PlanThrows, EndRejected
  <2>3. CASE UNCHANGED vars
    BY <2>3 DEF TypeOK, vars
  <2> QED
    BY <2>1, <2>2, <2>3, PlanTypes, StepTypes, PostTypes DEF Next, EngineStep, EngineAction
<1>q. QED
  BY <1>1, <1>2, PTL DEF Safety
-----------------------------------------------------------------------------
(***************************************************************************)
(* The plan.  Of a plan the application needs the order of its steps: a    *)
(* change comes after the changes it depends on, a removal after the       *)
(* removals that depend on it, and all removals after all changes.         *)
(***************************************************************************)

Changes(i) == steps[i].action \in {"Create", "Update", "Replace"}
Removes(i) == steps[i].action = "Delete"
Planned(i) == Changes(i) \/ Removes(i)

Planning == phase \in {"planChanges", "planRemoval"}
InApply == phase \in {"apply", "rejected", "post"}

\* Steps are of the entries they were planned for.
StepsFitEntries ==
  \A i \in Ids :
    /\ Changes(i) => desired[i].in /\ (steps[i].action = "Create" <=> ~saved[i].in)
    /\ Removes(i) => ~desired[i].in /\ saved[i].in

ChangesInOrder ==
  \A i, d \in Ids : Changes(i) /\ d \in desired[i].deps => Changes(d) /\ steps[d].order < steps[i].order

RemovalsInOrder ==
  \A i, j \in Ids :
    Removes(i) /\ saved[j].in /\ ~desired[j].in /\ i \in saved[j].deps => Removes(j) /\ steps[j].order < steps[i].order

RemovalsLast == \A i, j \in Ids : Changes(i) /\ Removes(j) => steps[i].order < steps[j].order

\* No layer of a plan is empty: the application stops at the first one that is.
NoGaps ==
  \A i \in Ids : Planned(i) =>
    \A k \in Nat : k < steps[i].order => \E j \in Ids : Planned(j) /\ steps[j].order = k

\* How far the plan is in each phase.
PlanProgress ==
  /\ phase = "idle" => order = 0 /\ \A i \in Ids : ~Planned(i)
  /\ phase = "planChanges" => \A i \in Ids : ~Removes(i)
  /\ Planning =>
       /\ \A i \in Ids : Planned(i) => steps[i].order < order
       /\ \A k \in Nat : k < order => \E j \in Ids : Planned(j) /\ steps[j].order = k
  /\ phase = "planRemoval" \/ InApply => \A i \in Ids : desired[i].in => Changes(i)
  /\ InApply => \A i \in Ids : saved[i].in /\ ~desired[i].in => Removes(i)

PlanInv ==
  /\ StepsFitEntries
  /\ ChangesInOrder
  /\ RemovalsInOrder
  /\ RemovalsLast
  /\ NoGaps
  /\ PlanProgress

\* A step is planned exactly if its entry was visited.
LEMMA VisitedIsPlanned ==
  ASSUME TypeOK
  PROVE  /\ \A i \in Ids : i \in Visited <=> Planned(i)
         /\ \A i \in Ids : steps[i].order \in Nat /\ ~(Changes(i) /\ Removes(i))
BY DEF TypeOK, Step, Actions, Visited, Planned, Changes, Removes

\* A new layer of changes.
LEMMA ChangeLayer ==
  ASSUME TypeOK, PlanInv, PlanPendingChanges, TypeOK'
  PROVE  PlanInv'
<1> DEFINE new == FindPendingChanges
<1>1. /\ phase = "planChanges" /\ new # {} /\ order' = order + 1 /\ order \in Nat
      /\ UNCHANGED <<saved, desired, phase>>
  BY DEF PlanPendingChanges, TypeOK
<1>2. \A i \in Ids : i \notin new => steps'[i] = steps[i]
  BY DEF PlanPendingChanges
<1>3. \A i \in Ids : i \in new =>
        /\ ~Planned(i) /\ desired[i].in /\ \A d \in Ids : d \in desired[i].deps => Planned(d)
        /\ Changes(i)' /\ ~Removes(i)' /\ steps'[i].order = order /\ (steps'[i].action = "Create" <=> ~saved[i].in)
  <2> SUFFICES ASSUME NEW i \in Ids, i \in new
               PROVE  /\ ~Planned(i) /\ desired[i].in /\ \A d \in Ids : d \in desired[i].deps => Planned(d)
                      /\ Changes(i)' /\ ~Removes(i)' /\ steps'[i].order = order
                      /\ (steps'[i].action = "Create" <=> ~saved[i].in)
    OBVIOUS
  <2>1. ~Planned(i) /\ desired[i].in /\ \A d \in Ids : d \in desired[i].deps => Planned(d)
    BY VisitedIsPlanned DEF FindPendingChanges, In
  <2>2. steps'[i] \in PlannedFor(i)
    BY DEF PlanPendingChanges
  <2> QED
    BY <2>1, <2>2 DEF PlannedFor, PlannedStep, Changes, Removes
<1> HIDE DEF new
<1>4. \A i \in Ids : i \notin new =>
        (Changes(i)' <=> Changes(i)) /\ (Removes(i)' <=> Removes(i)) /\ (Planned(i)' <=> Planned(i))
  BY <1>2 DEF Changes, Removes, Planned
<1>5. \A i \in Ids : ~Removes(i) /\ ~Removes(i)' /\ steps[i].order \in Nat /\ (Planned(i) => steps[i].order < order)
  BY <1>1, <1>3, <1>4, VisitedIsPlanned DEF PlanInv, PlanProgress, Planning
<1>6. \A i \in Ids : Planned(i)' <=> Changes(i)'
  BY <1>5 DEF Planned
<1>7. \A i \in Ids : Planned(i) => i \notin new
  BY <1>3
<1>8. StepsFitEntries'
  BY <1>1, <1>2, <1>3, <1>4, <1>5 DEF PlanInv, StepsFitEntries
<1>9. ChangesInOrder'
  <2> SUFFICES ASSUME NEW i \in Ids, NEW d \in Ids, Changes(i)', d \in desired[i].deps
               PROVE  Changes(d)' /\ steps'[d].order < steps'[i].order
    BY <1>1 DEF ChangesInOrder
  <2>1. CASE i \in new
    BY <1>1, <1>2, <1>3, <1>4, <1>5, <1>7, <2>1 DEF Planned
  <2>2. CASE i \notin new
    <3>1. Changes(d) /\ steps[d].order < steps[i].order
      BY <1>4, <2>2 DEF PlanInv, ChangesInOrder
    <3> QED
      BY <1>2, <1>4, <1>7, <2>2, <3>1 DEF Planned
  <2> QED
    BY <2>1, <2>2
<1>10. RemovalsInOrder' /\ RemovalsLast'
  BY <1>5 DEF RemovalsInOrder, RemovalsLast
<1>11. \A k \in Nat : k < order => \E j \in Ids : Planned(j)' /\ steps'[j].order = k
  BY <1>1, <1>2, <1>4, <1>7 DEF PlanInv, PlanProgress, Planning
<1>12. \E j \in Ids : Planned(j)' /\ steps'[j].order = order
  <2>1. PICK j \in Ids : j \in new
    BY <1>1 DEF new, FindPendingChanges, In
  <2> QED
    BY <1>3, <1>6, <2>1
<1>13. \A i \in Ids : Planned(i)' => steps'[i].order \in Nat /\ steps'[i].order <= order
  BY <1>1, <1>2, <1>3, <1>4, <1>5
<1>14. NoGaps'
  BY <1>1, <1>11, <1>13 DEF NoGaps
<1>15. PlanProgress'
  <2>1. \A k \in Nat : k < order + 1 => k < order \/ k = order
    BY <1>1
  <2>2. \A i \in Ids : Planned(i)' => steps'[i].order < order + 1
    BY <1>1, <1>13
  <2> QED
    BY <1>1, <1>5, <1>11, <1>12, <2>1, <2>2 DEF PlanProgress, Planning, InApply
<1> QED
  BY <1>8, <1>9, <1>10, <1>14, <1>15 DEF PlanInv

\* A new layer of removals.
LEMMA RemovalLayer ==
  ASSUME TypeOK, PlanInv, PlanPendingRemoval, TypeOK'
  PROVE  PlanInv'
<1> DEFINE new == FindPendingRemoval
<1>1. /\ phase = "planRemoval" /\ new # {} /\ order' = order + 1 /\ order \in Nat
      /\ UNCHANGED <<saved, desired, phase>>
  BY DEF PlanPendingRemoval, TypeOK
<1>2. \A i \in Ids : i \notin new => steps'[i] = steps[i]
  BY DEF PlanPendingRemoval
<1>3. \A i \in Ids : i \in new =>
        /\ ~Planned(i) /\ ~desired[i].in /\ saved[i].in
        /\ Removes(i)' /\ ~Changes(i)' /\ steps'[i].order = order
  <2> SUFFICES ASSUME NEW i \in Ids, i \in new
               PROVE  /\ ~Planned(i) /\ ~desired[i].in /\ saved[i].in
                      /\ Removes(i)' /\ ~Changes(i)' /\ steps'[i].order = order
    OBVIOUS
  <2>1. ~Planned(i) /\ ~desired[i].in /\ saved[i].in
    BY VisitedIsPlanned DEF FindPendingRemoval, OldEntryList, Combined, CombineEntryMaps, In
  <2>2. steps'[i] = PlannedStep("Delete", TRUE)
    BY DEF PlanPendingRemoval
  <2> QED
    BY <2>1, <2>2 DEF PlannedStep, Changes, Removes
<1>a. \A i, j \in Ids :
        i \in new /\ saved[j].in /\ ~desired[j].in /\ i \in saved[j].deps => Removes(j) /\ steps[j].order < order
  <2> SUFFICES ASSUME NEW i \in Ids, NEW j \in Ids, i \in new, saved[j].in, ~desired[j].in, i \in saved[j].deps
               PROVE  Removes(j) /\ steps[j].order < order
    OBVIOUS
  <2>1. j \in GetEntryDependents(Combined, i)
    BY DEF GetEntryDependents, Combined, CombineEntryMaps, In
  <2>2. Planned(j)
    BY <2>1, VisitedIsPlanned DEF FindPendingRemoval
  <2> QED
    BY <1>1, <2>2 DEF PlanInv, StepsFitEntries, Planned, PlanProgress, Planning
<1> HIDE DEF new
<1>4. \A i \in Ids : i \notin new =>
        (Changes(i)' <=> Changes(i)) /\ (Removes(i)' <=> Removes(i)) /\ (Planned(i)' <=> Planned(i))
  BY <1>2 DEF Changes, Removes, Planned
<1>5. \A i \in Ids : steps[i].order \in Nat /\ (Planned(i) => i \notin new /\ steps[i].order < order)
  BY <1>1, <1>3, VisitedIsPlanned DEF PlanInv, PlanProgress, Planning
<1>6. StepsFitEntries'
  BY <1>1, <1>2, <1>3, <1>4 DEF PlanInv, StepsFitEntries
<1>7. ChangesInOrder'
  BY <1>1, <1>2, <1>3, <1>4, <1>5 DEF PlanInv, ChangesInOrder, Planned
<1>8. RemovalsInOrder'
  <2> SUFFICES ASSUME NEW i \in Ids, NEW j \in Ids, Removes(i)', saved[j].in, ~desired[j].in, i \in saved[j].deps
               PROVE  Removes(j)' /\ steps'[j].order < steps'[i].order
    BY <1>1 DEF RemovalsInOrder
  <2>1. CASE i \in new
    BY <1>2, <1>3, <1>4, <1>5, <1>a, <2>1 DEF Planned
  <2>2. CASE i \notin new
    <3>1. Removes(j) /\ steps[j].order < steps[i].order
      BY <1>4, <2>2 DEF PlanInv, RemovalsInOrder
    <3> QED
      BY <1>2, <1>4, <1>5, <2>2, <3>1 DEF Planned
  <2> QED
    BY <2>1, <2>2
<1>9. RemovalsLast'
  BY <1>2, <1>3, <1>4, <1>5 DEF PlanInv, RemovalsLast, Planned
<1>10. \A k \in Nat : k < order => \E j \in Ids : Planned(j)' /\ steps'[j].order = k
  BY <1>1, <1>2, <1>4, <1>5 DEF PlanInv, PlanProgress, Planning
<1>11. \E j \in Ids : Planned(j)' /\ steps'[j].order = order
  <2>1. PICK j \in Ids : j \in new
    BY <1>1 DEF new, FindPendingRemoval, OldEntryList, In
  <2> QED
    BY <1>3, <2>1 DEF Planned
<1>12. \A i \in Ids : Planned(i)' => steps'[i].order \in Nat /\ steps'[i].order <= order
  BY <1>1, <1>2, <1>3, <1>4, <1>5
<1>13. NoGaps'
  BY <1>1, <1>10, <1>12 DEF NoGaps
<1>14. \A i \in Ids : desired[i].in => Changes(i)'
  BY <1>1, <1>3, <1>4 DEF PlanInv, PlanProgress
<1>15. PlanProgress'
  <2>1. \A k \in Nat : k < order + 1 => k < order \/ k = order
    BY <1>1
  <2>2. \A i \in Ids : Planned(i)' => steps'[i].order < order + 1
    BY <1>1, <1>12
  <2> QED
    BY <1>1, <1>10, <1>11, <1>14, <2>1, <2>2 DEF PlanProgress, Planning, InApply
<1> QED
  BY <1>6, <1>7, <1>8, <1>9, <1>13, <1>15 DEF PlanInv

\* The actions of the application; none of them changes the plan or what it was made from.
Applies ==
  \/ \E i \in Ids : SkipStep(i) \/ NoopStep(i) \/ CallHandler(i) \/ HandlerNotFound(i)
  \/ \E i \in Ids : \E post \in PostsOf(i) :
       HandlerThrows(i, post) \/ \E warned \in BOOLEAN : HandlerReturns(i, warned, post)
  \/ FoldLayer \/ StepsDone \/ NextBatch
  \/ \E p \in posts.pending : SkipPost(p) \/ CallPost(p)
  \/ \E p \in posts.running :
       PostThrows(p) \/ \E post \in PostsOf(p.id) :
                            (p.nest < MaxNesting \/ post = "none") /\ PostReturns(p, post)

\* An action of the application is taken while steps or post actions run, and leaves the plan alone.
LEMMA AppliesFrame ==
  ASSUME Applies
  PROVE  InApply /\ InApply' /\ UNCHANGED <<saved, desired, force, steps>>
<1>1. ASSUME NEW i \in Ids, SkipStep(i) \/ NoopStep(i) \/ CallHandler(i) \/ HandlerNotFound(i)
      PROVE  InApply /\ InApply' /\ UNCHANGED <<saved, desired, force, steps>>
  BY <1>1 DEF SkipStep, NoopStep, CallHandler, HandlerNotFound, NextTask, Applying, InApply
<1>2. ASSUME NEW i \in Ids, NEW post, NEW warned, HandlerThrows(i, post) \/ HandlerReturns(i, warned, post)
      PROVE  InApply /\ InApply' /\ UNCHANGED <<saved, desired, force, steps>>
  BY <1>2 DEF HandlerThrows, HandlerReturns, Applying, InApply
<1>3. CASE FoldLayer \/ StepsDone \/ NextBatch
  BY <1>3 DEF FoldLayer, StepsDone, NextBatch, InApply
<1>4. ASSUME NEW p, NEW post, SkipPost(p) \/ CallPost(p) \/ PostThrows(p) \/ PostReturns(p, post)
      PROVE  InApply /\ InApply' /\ UNCHANGED <<saved, desired, force, steps>>
  BY <1>4 DEF SkipPost, CallPost, PostThrows, PostReturns, NextPost, InApply
<1> QED
  BY <1>1, <1>2, <1>3, <1>4 DEF Applies

\* The plan stays in order from its first layer to the end of its application.
LEMMA PlanStep ==
  ASSUME TypeOK, PlanInv, [Next]_vars, TypeOK'
  PROVE  PlanInv'
<1>1. ASSUME NEW project, NEW forced, StartDeploy(project, forced) PROVE PlanInv'
  <2>1. phase = "idle" /\ phase' = "planChanges" /\ UNCHANGED <<steps, order>>
    BY <1>1 DEF StartDeploy
  <2>2. order = 0 /\ \A i \in Ids : ~Planned(i)' /\ ~Changes(i)' /\ ~Removes(i)'
    BY <2>1 DEF PlanInv, PlanProgress, Planned, Changes, Removes
  <2>3. ~InApply' /\ ~(phase' = "planRemoval")
    BY <2>1 DEF InApply
  <2>4. StepsFitEntries' /\ ChangesInOrder' /\ RemovalsInOrder' /\ RemovalsLast' /\ NoGaps'
    BY <2>2 DEF StepsFitEntries, ChangesInOrder, RemovalsInOrder, RemovalsLast, NoGaps
  <2>5. PlanProgress'
    BY <2>1, <2>2, <2>3 DEF PlanProgress
  <2> QED
    BY <2>4, <2>5 DEF PlanInv
<1>2. CASE HydrateState
  <2>1. phase = "planChanges" /\ phase' = "planRemoval" /\ UNCHANGED <<saved, desired, steps, order>>
    BY <1>2 DEF HydrateState
  <2>2. \A i \in Ids : desired[i].in => Changes(i)
    BY <1>2, <2>1, VisitedIsPlanned DEF HydrateState, In, PlanInv, PlanProgress, Planned
  <2> QED
    BY <2>1, <2>2 DEF PlanInv, StepsFitEntries, ChangesInOrder, RemovalsInOrder, RemovalsLast, NoGaps, PlanProgress,
       Planned, Changes, Removes, Planning, InApply
<1>3. CASE PlanReady
  <2>1. phase = "planRemoval" /\ phase' = "apply" /\ UNCHANGED <<saved, desired, steps>>
    BY <1>3 DEF PlanReady
  <2>2. \A i \in Ids : saved[i].in /\ ~desired[i].in => Removes(i)
    <3>1. \A i \in Ids : saved[i].in /\ ~desired[i].in => Planned(i)
      BY <1>3, VisitedIsPlanned DEF PlanReady, OldEntryList, Combined, CombineEntryMaps, In
    <3> QED
      BY <3>1 DEF PlanInv, StepsFitEntries, Planned
  <2> QED
    BY <2>1, <2>2 DEF PlanInv, StepsFitEntries, ChangesInOrder, RemovalsInOrder, RemovalsLast, NoGaps, PlanProgress,
       Planned, Changes, Removes, Planning, InApply
<1>4. CASE Reset
  <2>1. phase' = "idle" /\ order' = 0
    BY <1>4 DEF Reset
  <2>2. \A i \in Ids : ~Planned(i)' /\ ~Changes(i)' /\ ~Removes(i)'
    BY <1>4 DEF Reset, NoStep, Planned, Changes, Removes
  <2>3. StepsFitEntries' /\ ChangesInOrder' /\ RemovalsInOrder' /\ RemovalsLast' /\ NoGaps'
    BY <2>2 DEF StepsFitEntries, ChangesInOrder, RemovalsInOrder, RemovalsLast, NoGaps
  <2>4. PlanProgress'
    BY <2>1, <2>2 DEF PlanProgress, Planning, InApply
  <2> QED
    BY <2>3, <2>4 DEF PlanInv
<1>5. CASE Applies
  <2>1. InApply /\ InApply' /\ UNCHANGED <<saved, desired, force, steps>>
    BY <1>5, AppliesFrame
  <2> QED
    BY <2>1 DEF PlanInv, StepsFitEntries, ChangesInOrder, RemovalsInOrder, RemovalsLast, NoGaps, PlanProgress,
       Planned, Changes, Removes, Planning, InApply
<1>6. CASE UNCHANGED vars
  BY <1>6 DEF vars, PlanInv, StepsFitEntries, ChangesInOrder, RemovalsInOrder, RemovalsLast, NoGaps, PlanProgress,
     Planned, Changes, Removes, Planning, InApply
<1> QED
  BY <1>1, <1>2, <1>3, <1>4, <1>5, <1>6, ChangeLayer, RemovalLayer
     DEF Next, EngineStep, EngineAction, Applies, SaveResult, PlanThrows, EndRejected
-----------------------------------------------------------------------------
(***************************************************************************)
(* The application.  The result can be loaded because the engine never     *)
(* lets go of an entry that a kept one depends on: what depends on a       *)
(* removal is decided, and folded into the failed map, in an earlier layer *)
(* than the removal itself, and until then the old entries are all there.  *)
(***************************************************************************)

\* The step's results are in the succeeded and failed maps.
Folded(i) == InApply /\ Planned(i) /\ steps[i].order < order

\* The entries that will be in the result.
Kept == In(succeeded) \cup In(failed)

\* What Skips lets through: the dependencies of a change have succeeded, and no failed entry depends on a removal.
MayRun(i) ==
  IF Removes(i) THEN \A j \in In(failed) : i \notin failed[j].deps ELSE desired[i].deps \subseteq In(succeeded)

\* The three ways a step ends: the old entry is kept with an issue, nothing was to do, or the handler returned.
Ended(i) ==
  \/ outcome[i] = [entry |-> saved[i], issue |-> TRUE]
  \/ /\ MayRun(i) /\ steps[i].action = "Update"
     /\ outcome[i] = [entry |-> [saved[i] EXCEPT !.deps = desired[i].deps], issue |-> FALSE]
  \/ MayRun(i) /\ \E warned \in BOOLEAN : outcome[i] = [entry |-> ResultOf(i, warned), issue |-> warned]

NothingApplied ==
  /\ ~InApply => succeeded = EmptyMap /\ failed = EmptyMap /\ registered = {} /\ batches = <<>>
  /\ phase # "post" => posts = NoPosts

\* Handlers run in the layer that is applied, and only where they may.
StepsOfLayer ==
  \A i \in Ids : status[i] # "pending" =>
    /\ Applying /\ i \in Layer
    /\ status[i] = "running" => MayRun(i)
    /\ status[i] = "done" /\ phase = "apply" => Ended(i)

\* The post actions start when every step is folded.
PostsComeLast == phase = "post" => \A i \in Ids : Planned(i) => steps[i].order < order

OnlyFoldedAreKept == \A i \in Ids : i \in Kept => Folded(i)

\* No change loses the entry that was there.
SavedChangesKept == \A i \in Ids : Folded(i) /\ Changes(i) /\ saved[i].in => i \in Kept

SucceededDepsKept == \A i \in In(succeeded) : succeeded[i].deps \subseteq Kept

\* Where delete handlers register post actions, a failed one puts an entry back that has lost its dependencies.
PutBack(entry) == entry.partial /\ setup.deletions # {}

\* What a failed entry depends on is kept, or an old entry whose step is yet to come.
FailedDepsKept ==
  \A i \in In(failed), d \in Ids :
    d \in failed[i].deps => d \in Kept \/ (saved[d].in /\ ~Folded(d)) \/ PutBack(failed[i])

\* Post actions are registered by steps that may run.
RegisteredBySteps ==
  \A p \in registered : Applying =>
    /\ p.id \in Layer /\ MayRun(p.id) /\ status[p.id] = "done"
    /\ Removes(p.id) => setup.deletions # {}

Elements(queue) == UNION {queue[k] : k \in 1..Len(queue)}

Queued == Elements(batches) \cup (IF phase = "post" THEN registered ELSE {})

QueuedBySteps ==
  \A p \in Queued \cup posts.pending \cup posts.running :
    /\ Folded(p.id)
    /\ ~Removes(p.id) => desired[p.id].deps \subseteq Kept
    /\ Removes(p.id) => setup.deletions # {}

ApplyInv ==
  /\ NothingApplied
  /\ StepsOfLayer
  /\ PostsComeLast
  /\ OnlyFoldedAreKept
  /\ SavedChangesKept
  /\ SucceededDepsKept
  /\ FailedDepsKept
  /\ RegisteredBySteps
  /\ QueuedBySteps
  /\ SavedStateLoads

\* What is in a queue of sets when one is appended and when the first is taken off.
LEMMA QueueElements ==
  ASSUME NEW S, NEW queue \in Seq(SUBSET S)
  PROVE  /\ \A x \in SUBSET S : Append(queue, x) \in Seq(SUBSET S) /\ Elements(Append(queue, x)) = Elements(queue) \cup x
         /\ queue # <<>> =>
              /\ Head(queue) \in SUBSET S /\ Head(queue) \subseteq Elements(queue)
              /\ Tail(queue) \in Seq(SUBSET S) /\ Elements(Tail(queue)) \subseteq Elements(queue)
<1>1. Len(queue) \in Nat
  BY LenProperties
<1>2. ASSUME NEW x \in SUBSET S
      PROVE  Append(queue, x) \in Seq(SUBSET S) /\ Elements(Append(queue, x)) = Elements(queue) \cup x
  <2>1. /\ Append(queue, x) \in Seq(SUBSET S)
        /\ Len(Append(queue, x)) = Len(queue) + 1
        /\ \A k \in 1..Len(queue) : Append(queue, x)[k] = queue[k]
        /\ Append(queue, x)[Len(queue) + 1] = x
    BY AppendProperties
  <2>2. 1..(Len(queue) + 1) = (1..Len(queue)) \cup {Len(queue) + 1}
    BY <1>1
  <2> QED
    BY <2>1, <2>2 DEF Elements
<1>3. ASSUME queue # <<>>
      PROVE  /\ Head(queue) \in SUBSET S /\ Head(queue) \subseteq Elements(queue)
             /\ Tail(queue) \in Seq(SUBSET S) /\ Elements(Tail(queue)) \subseteq Elements(queue)
  <2>1. /\ Head(queue) \in SUBSET S /\ Tail(queue) \in Seq(SUBSET S)
        /\ Len(Tail(queue)) = Len(queue) - 1
        /\ \A k \in 1..Len(Tail(queue)) : Tail(queue)[k] = queue[k + 1]
    BY <1>3, HeadTailProperties
  <2>5. Len(queue) # 0
    BY <1>3, EmptySeq
  <2>6. Head(queue) = queue[1]
    BY <1>1, <2>5
  <2>2. Len(queue) \in Nat \ {0} /\ Head(queue) = queue[1]
    BY <1>1, <2>5, <2>6
  <2>3. \A k \in 1..Len(Tail(queue)) : k + 1 \in 1..Len(queue)
    BY <2>1, <2>2
  <2>4. 1 \in 1..Len(queue)
    BY <2>2
  <2> QED
    BY <2>1, <2>2, <2>3, <2>4 DEF Elements
<1> QED
  BY <1>2, <1>3

\* Post actions belong to entries wherever they wait.
LEMMA QueuedPosts ==
  ASSUME TypeOK
  PROVE  \A p \in registered \cup Queued \cup posts.pending \cup posts.running : p \in Post /\ p.id \in Ids
<1>1. \A k \in 1..Len(batches) : batches[k] \in SUBSET Post
  BY ElementOfSeq DEF TypeOK
<1>2. Queued \subseteq Post /\ registered \subseteq Post /\ posts.pending \subseteq Post /\ posts.running \subseteq Post
  BY <1>1 DEF Queued, Elements, TypeOK
<1> QED
  BY <1>2 DEF Post

\* The steps of the layer, in the words of the plan.
LEMMA LayerSteps ==
  ASSUME TypeOK
  PROVE  \A i \in Ids : i \in Layer <=> Planned(i) /\ steps[i].order = order
BY VisitedIsPlanned DEF Visited, Layer

\* A step that is not skipped may run.
LEMMA NotSkipped ==
  ASSUME TypeOK, NEW i \in Ids, ~Skips(i)
  PROVE  MayRun(i)
<1>1. CASE Removes(i)
  BY <1>1 DEF Skips, Removes, MayRun, GetEntryDependents, In
<1>2. CASE ~Removes(i)
  BY <1>2 DEF Skips, Removes, MayRun, CheckAllSucceeded
<1> QED
  BY <1>1, <1>2

StepAction(i) ==
  \/ SkipStep(i) \/ NoopStep(i) \/ CallHandler(i) \/ HandlerNotFound(i)
  \/ \E post \in PostsOf(i) :
       HandlerThrows(i, post) \/ \E warned \in BOOLEAN : HandlerReturns(i, warned, post)

\* What the steps of a layer have in common: they move one step on, and leave what was folded alone.
MovesStep(i) ==
  /\ Applying /\ Applying' /\ i \in Layer /\ (phase' = "apply" => phase = "apply") /\ status[i] # "done"
  /\ UNCHANGED <<saved, desired, force, steps, order, succeeded, failed, batches, posts>>
  /\ \A j \in Ids : j # i => status'[j] = status[j] /\ outcome'[j] = outcome[j]
  /\ status'[i] = "running" \/ (status'[i] = "done" /\ (phase' = "apply" => Ended(i)'))
  /\ status'[i] = "running" => MayRun(i)
  /\ \A p \in registered' : p \in registered \/ (p.id = i /\ (Removes(i) => setup.deletions # {}) /\ MayRun(i) /\ status'[i] = "done")

\* A step that is skipped, started, or ended moves on.
LEMMA StepMoves ==
  ASSUME TypeOK, StepsOfLayer, NEW i \in Ids, StepAction(i)
  PROVE  MovesStep(i)
<1> USE DEF MovesStep
<1>a. status[i] = "running" => i \in Layer /\ MayRun(i)
  BY DEF StepsOfLayer
<1>b. ASSUME NEW entry, NEW issue, Done(i, entry, issue)
      PROVE  /\ status'[i] = "done" /\ outcome'[i] = [entry |-> entry, issue |-> issue]
             /\ \A j \in Ids : j # i => status'[j] = status[j] /\ outcome'[j] = outcome[j]
  BY <1>b DEF Done, TypeOK
<1>c. ASSUME UNCHANGED <<saved, desired, steps, succeeded, failed>>
      PROVE  /\ MayRun(i)' <=> MayRun(i)
             /\ \A warned \in BOOLEAN : ResultOf(i, warned)' = ResultOf(i, warned)
  BY <1>c DEF MayRun, Removes, In, ResultOf, KeptDependencies, NewEntries
<1>1. CASE SkipStep(i)
  <2>1. /\ Applying /\ i \in Layer /\ status[i] = "pending" /\ Done(i, saved[i], TRUE)
        /\ UNCHANGED <<saved, desired, force, phase, steps, order, succeeded, failed, registered, batches, posts>>
    BY <1>1 DEF SkipStep, NextTask
  <2>2. Ended(i)'
    BY <1>b, <2>1 DEF Ended
  <2> QED
    BY <1>b, <2>1, <2>2 DEF Applying
<1>2. CASE NoopStep(i)
  <2>1. /\ Applying /\ i \in Layer /\ status[i] = "pending" /\ Done(i, [saved[i] EXCEPT !.deps = desired[i].deps], FALSE)
        /\ UNCHANGED <<saved, desired, force, phase, steps, order, succeeded, failed, registered, batches, posts>>
        /\ MayRun(i) /\ steps[i].action = "Update"
    BY <1>2, NotSkipped DEF NoopStep, NextTask, IsNoop
  <2>2. Ended(i)'
    BY <1>b, <1>c, <2>1 DEF Ended
  <2> QED
    BY <1>b, <2>1, <2>2 DEF Applying
<1>3. CASE CallHandler(i)
  <2>1. MayRun(i)
    BY <1>3, NotSkipped DEF CallHandler
  <2> QED
    BY <1>3, <2>1 DEF CallHandler, NextTask, Applying, TypeOK
<1>4. CASE HandlerNotFound(i)
  BY <1>4 DEF HandlerNotFound, NextTask, Applying, TypeOK
<1>d. ASSUME NEW post, Registers(i, post), post \in PostsOf(i), status'[i] = "done", MayRun(i)
      PROVE  \A p \in registered' : p \in registered \/ (p.id = i /\ (Removes(i) => setup.deletions # {}) /\ MayRun(i) /\ status'[i] = "done")
  BY <1>d DEF Registers, PostsOf, Removes
<1>5. ASSUME NEW post, HandlerThrows(i, post) PROVE MovesStep(i)
  <2>1. /\ Applying /\ status[i] = "running" /\ Done(i, saved[i], TRUE) /\ Registers(i, post) /\ post \in PostsOf(i)
        /\ UNCHANGED <<saved, desired, force, phase, steps, order, succeeded, failed, batches, posts>>
    BY <1>5 DEF HandlerThrows
  <2>2. Ended(i)'
    BY <1>b, <2>1 DEF Ended
  <2> QED
    BY <1>a, <1>b, <1>d, <2>1, <2>2 DEF Applying
<1>6. ASSUME NEW post, NEW warned \in BOOLEAN, HandlerReturns(i, warned, post) PROVE MovesStep(i)
  <2>1. /\ Applying /\ status[i] = "running" /\ Done(i, ResultOf(i, warned), warned)
        /\ Registers(i, post) /\ post \in PostsOf(i)
        /\ UNCHANGED <<saved, desired, force, phase, steps, order, succeeded, failed, batches, posts>>
    BY <1>6 DEF HandlerReturns
  <2>2. Ended(i)'
    BY <1>a, <1>b, <1>c, <2>1 DEF Ended
  <2> QED
    BY <1>a, <1>b, <1>d, <2>1, <2>2 DEF Applying
<1> QED
  BY <1>1, <1>2, <1>3, <1>4, <1>5, <1>6 DEF StepAction

\* A step of the layer leaves alone what was folded and queued.
LEMMA ApplyByStep ==
  ASSUME TypeOK, ApplyInv, UNCHANGED setup, NEW i \in Ids, StepAction(i)
  PROVE  ApplyInv'
<1>1. MovesStep(i)
  BY StepMoves DEF ApplyInv
<1>2. /\ UNCHANGED <<saved, desired, steps, order, succeeded, failed, batches, posts>>
      /\ Applying /\ Applying' /\ InApply /\ InApply' /\ phase # "post" /\ phase' # "post"
  BY <1>1 DEF MovesStep, Applying, InApply
<1>3. /\ Layer' = Layer /\ Kept' = Kept
      /\ \A j \in Ids : /\ (MayRun(j)' <=> MayRun(j)) /\ (Folded(j)' <=> Folded(j))
                        /\ (Changes(j)' <=> Changes(j)) /\ (Removes(j)' <=> Removes(j)) /\ (Planned(j)' <=> Planned(j))
  BY <1>2 DEF Layer, Kept, In, MayRun, Folded, Changes, Removes, Planned
<1>4. \A j \in Ids : j # i /\ Ended(j) => Ended(j)'
  <2>1. \A j \in Ids : \A warned \in BOOLEAN : ResultOf(j, warned)' = ResultOf(j, warned)
    BY <1>2 DEF ResultOf, KeptDependencies, NewEntries, In
  <2>2. \A j \in Ids : j # i => outcome'[j] = outcome[j]
    BY <1>1 DEF MovesStep
  <2> QED
    BY <1>2, <1>3, <2>1, <2>2 DEF Ended
<1>5. NothingApplied' /\ PostsComeLast' /\ SavedStateLoads'
  BY <1>2 DEF ApplyInv, NothingApplied, PostsComeLast, SavedStateLoads, In
<1>6. StepsOfLayer'
  BY <1>1, <1>2, <1>3, <1>4 DEF ApplyInv, StepsOfLayer, MovesStep
<1>7. OnlyFoldedAreKept' /\ SavedChangesKept' /\ SucceededDepsKept' /\ FailedDepsKept'
  BY <1>2, <1>3 DEF ApplyInv, OnlyFoldedAreKept, SavedChangesKept, SucceededDepsKept, FailedDepsKept, PutBack, In
<1>8. RegisteredBySteps'
  <2> SUFFICES ASSUME NEW p \in registered'
               PROVE  /\ p.id \in Layer' /\ MayRun(p.id)' /\ status'[p.id] = "done"
                      /\ Removes(p.id)' => setup.deletions # {}
    BY DEF RegisteredBySteps
  <2>1. CASE p \in registered
    <3>1. /\ p.id \in Layer /\ MayRun(p.id) /\ status[p.id] = "done" /\ p.id \in Ids
          /\ Removes(p.id) => setup.deletions # {}
      BY <1>2, <2>1 DEF ApplyInv, RegisteredBySteps, TypeOK, Post
    <3> QED
      BY <1>1, <1>3, <3>1 DEF MovesStep
  <2>2. CASE p \notin registered
    BY <1>1, <1>3, <2>2 DEF MovesStep
  <2> QED
    BY <2>1, <2>2
<1>9. QueuedBySteps'
  <2>1. Queued' = Queued
    BY <1>2 DEF Queued
  <2>2. \A p \in Queued \cup posts.pending \cup posts.running : p.id \in Ids
    BY QueuedPosts
  <2> QED
    BY <1>2, <1>3, <2>1, <2>2 DEF ApplyInv, QueuedBySteps
<1> QED
  BY <1>5, <1>6, <1>7, <1>8, <1>9 DEF ApplyInv

\* What is known of the entry that a step leaves.
LEMMA EndedOutcome ==
  ASSUME TypeOK, NEW i \in Ids, Ended(i)
  PROVE  /\ outcome[i].entry.in =>
              \/ outcome[i].issue /\ outcome[i].entry = saved[i]
              \/ MayRun(i) /\ ~Removes(i) /\ outcome[i].entry.deps = desired[i].deps
              \/ /\ outcome[i].issue /\ Removes(i) /\ outcome[i].entry.deps = KeptDependencies(i)
                 /\ outcome[i].entry.partial <=> saved[i].partial
         /\ ~Removes(i) /\ saved[i].in => outcome[i].entry.in
         /\ ~MayRun(i) => outcome[i].entry = saved[i]
<1>1. CASE outcome[i] = [entry |-> saved[i], issue |-> TRUE]
  BY <1>1
<1>2. CASE /\ MayRun(i) /\ steps[i].action = "Update"
           /\ outcome[i] = [entry |-> [saved[i] EXCEPT !.deps = desired[i].deps], issue |-> FALSE]
  <2>1. outcome[i].entry.in = saved[i].in /\ outcome[i].entry.deps = desired[i].deps
    BY <1>2 DEF TypeOK, EntryMap, Entry
  <2> QED
    BY <1>2, <2>1 DEF Removes
<1>3. ASSUME NEW warned \in BOOLEAN, MayRun(i), outcome[i] = [entry |-> ResultOf(i, warned), issue |-> warned]
      PROVE  /\ outcome[i].entry.in =>
                  \/ MayRun(i) /\ ~Removes(i) /\ outcome[i].entry.deps = desired[i].deps
                  \/ /\ outcome[i].issue /\ Removes(i) /\ outcome[i].entry.deps = KeptDependencies(i)
                     /\ outcome[i].entry.partial <=> saved[i].partial
             /\ ~Removes(i) => outcome[i].entry.in
  <2>1. outcome[i].entry = ResultOf(i, warned) /\ outcome[i].issue = warned
    BY <1>3
  <2>2. CASE ~Removes(i)
    BY <1>3, <2>1, <2>2 DEF ResultOf, Removes, EntryWith
  <2>3. CASE Removes(i) /\ ~warned
    BY <1>3, <2>1, <2>3 DEF ResultOf, Removes, NoEntry
  <2>4. CASE Removes(i) /\ warned
    <3>1. outcome[i].entry = [saved[i] EXCEPT !.deps = KeptDependencies(i)]
      BY <2>1, <2>4 DEF ResultOf, Removes
    <3>2. outcome[i].entry.deps = KeptDependencies(i) /\ outcome[i].entry.partial = saved[i].partial
      BY <3>1 DEF TypeOK, EntryMap, Entry
    <3> QED
      BY <2>1, <2>4, <3>2
  <2> QED
    BY <2>2, <2>3, <2>4
<1> QED
  BY <1>1, <1>2, <1>3 DEF Ended

\* When a layer is folded, no kept entry loses what it depends on.
LEMMA ApplyByFold ==
  ASSUME TypeOK, PlanInv, ApplyInv, UNCHANGED setup, FoldLayer
  PROVE  ApplyInv'
<1>1. /\ phase = "apply" /\ phase' = "apply" /\ InApply /\ InApply' /\ Applying
      /\ UNCHANGED <<saved, desired, steps, posts>> /\ order \in Nat /\ order' = order + 1 /\ registered' = {}
  BY DEF FoldLayer, InApply, Applying, TypeOK
<1>2. \A i \in Ids : steps[i].order \in Nat /\ ~(Changes(i) /\ Removes(i)) /\ (i \in Layer <=> Planned(i) /\ steps[i].order = order)
  BY VisitedIsPlanned, LayerSteps
<1>3. \A i \in Ids : (Changes(i)' <=> Changes(i)) /\ (Removes(i)' <=> Removes(i)) /\ (Planned(i)' <=> Planned(i))
  BY <1>1 DEF Changes, Removes, Planned
<1>4. \A i \in Ids : Folded(i)' <=> Folded(i) \/ i \in Layer
  BY <1>1, <1>2, <1>3 DEF Folded
<1>5. \A i \in Layer : i \in Ids /\ Planned(i) /\ ~Folded(i) /\ i \notin Kept /\ Ended(i)
  <2> SUFFICES ASSUME NEW i \in Layer PROVE i \in Ids /\ Planned(i) /\ ~Folded(i) /\ i \notin Kept /\ Ended(i)
    OBVIOUS
  <2>1. i \in Ids /\ Planned(i) /\ ~Folded(i)
    BY <1>2 DEF Layer, Folded
  <2> QED
    BY <1>1, <2>1 DEF FoldLayer, LayerDone, ApplyInv, StepsOfLayer, OnlyFoldedAreKept
<1>6. \A i \in Ids :
        /\ i \notin Layer => succeeded'[i] = succeeded[i] /\ failed'[i] = failed[i]
        /\ i \in Layer =>
             /\ ~succeeded[i].in /\ ~failed[i].in
             /\ outcome[i].issue => succeeded'[i] = succeeded[i] /\ failed'[i] = outcome[i].entry
             /\ ~outcome[i].issue => succeeded'[i] = outcome[i].entry /\ failed'[i] = failed[i]
  BY <1>5 DEF FoldLayer, Kept, In
<1>7. \A i \in Ids : i \in Kept' <=> i \in Kept \/ (i \in Layer /\ outcome[i].entry.in)
  BY <1>6 DEF Kept, In
<1>8. NothingApplied' /\ StepsOfLayer' /\ PostsComeLast' /\ SavedStateLoads' /\ RegisteredBySteps'
  BY <1>1 DEF ApplyInv, NothingApplied, PostsComeLast, SavedStateLoads, In, FoldLayer, StepsOfLayer, RegisteredBySteps
<1>9. OnlyFoldedAreKept'
  BY <1>4, <1>7 DEF ApplyInv, OnlyFoldedAreKept
<1>10. SavedChangesKept'
  <2> SUFFICES ASSUME NEW i \in Ids, Folded(i)', Changes(i), saved[i].in PROVE i \in Kept'
    BY <1>1, <1>3 DEF SavedChangesKept
  <2>1. CASE Folded(i)
    BY <1>7, <2>1 DEF ApplyInv, SavedChangesKept
  <2>2. CASE i \in Layer
    BY <1>2, <1>5, <1>7, <2>2, EndedOutcome
  <2> QED
    BY <1>4, <2>1, <2>2
<1>b. \A i \in Layer : MayRun(i) /\ ~Removes(i) => \A d \in desired[i].deps : d \in Kept
  BY DEF MayRun, Kept
<1>c. \A d \in Kept : d \in Kept'
  BY <1>7 DEF Kept, In
<1>11. SucceededDepsKept'
  <2> SUFFICES ASSUME NEW i \in Ids, succeeded'[i].in, NEW d \in succeeded'[i].deps PROVE d \in Kept'
    BY DEF SucceededDepsKept, In
  <2>1. CASE i \in Layer
    <3>1. ~outcome[i].issue /\ succeeded'[i] = outcome[i].entry
      BY <1>6, <2>1
    <3>2. MayRun(i) /\ ~Removes(i) /\ outcome[i].entry.deps = desired[i].deps
      BY <1>5, <2>1, <3>1, EndedOutcome
    <3> QED
      BY <1>b, <1>c, <2>1, <3>1, <3>2
  <2>2. CASE i \notin Layer
    BY <1>6, <1>c, <2>2 DEF ApplyInv, SucceededDepsKept, In
  <2> QED
    BY <2>1, <2>2
<1>12. FailedDepsKept'
  <2> SUFFICES ASSUME NEW i \in Ids, failed'[i].in, NEW d \in Ids, d \in failed'[i].deps, ~(saved[d].in /\ ~Folded(d)'),
                      ~PutBack(failed'[i])
               PROVE  d \in Kept'
    BY <1>1 DEF FailedDepsKept, PutBack, In
  <2>1. CASE i \notin Layer
    <3>1. failed[i].in /\ d \in failed[i].deps /\ ~PutBack(failed[i])
      BY <1>6, <2>1
    <3>2. CASE d \in Kept
      BY <1>c, <3>2
    <3>3. CASE saved[d].in /\ ~Folded(d)
      <4>1. d \in Layer
        BY <1>4, <3>3
      <4>2. CASE Removes(d)
        <5>1. ~MayRun(d)
          BY <3>1, <4>2 DEF MayRun, In
        <5> QED
          BY <1>5, <1>7, <3>3, <4>1, <5>1, EndedOutcome
      <4>3. CASE ~Removes(d)
        BY <1>5, <1>7, <3>3, <4>1, <4>3, EndedOutcome
      <4> QED
        BY <4>2, <4>3
    <3> QED
      BY <3>1, <3>2, <3>3 DEF ApplyInv, FailedDepsKept, In
  <2>2. CASE i \in Layer
    <3>1. outcome[i].issue /\ failed'[i] = outcome[i].entry /\ Planned(i) /\ steps[i].order = order
      BY <1>2, <1>6, <2>2
    <3>2. \A j \in Ids : saved[j].in /\ ~PutBack(saved[j]) => \A x \in saved[j].deps : saved[x].in
      BY DEF ApplyInv, SavedStateLoads, PutBack, In
    <3>3. CASE outcome[i].entry = saved[i]
      <4>1. saved[i].in /\ d \in saved[i].deps /\ saved[d].in
        BY <3>1, <3>2, <3>3
      <4>2. Folded(d)'
        BY <4>1
      <4>3. Planned(d) /\ steps[d].order <= order
        BY <1>1, <1>2, <1>3, <4>2 DEF Folded
      <4>4. CASE Changes(d)
        BY <1>1, <1>3, <1>10, <4>1, <4>2, <4>4 DEF SavedChangesKept
      <4>5. CASE Removes(d)
        <5>1. CASE desired[i].in
          <6>1. Changes(i)
            BY <3>1, <5>1 DEF PlanInv, StepsFitEntries, Planned
          <6> QED
            BY <1>1, <1>2, <3>1, <4>3, <4>5, <6>1 DEF PlanInv, RemovalsLast
        <5>2. CASE ~desired[i].in
          BY <1>1, <1>2, <3>1, <4>1, <4>3, <4>5, <5>2 DEF PlanInv, RemovalsInOrder
        <5> QED
          BY <5>1, <5>2
      <4> QED
        BY <4>3, <4>4, <4>5 DEF Planned
    <3>4. CASE MayRun(i) /\ ~Removes(i) /\ outcome[i].entry.deps = desired[i].deps
      BY <1>b, <1>c, <2>2, <3>1, <3>4
    <3>5. CASE Removes(i) /\ outcome[i].entry.deps = KeptDependencies(i) /\ (outcome[i].entry.partial <=> saved[i].partial)
      <4>1. d \in saved[i].deps /\ (desired[d].in \/ d \in Kept) /\ ~PutBack(saved[i])
        BY <3>1, <3>5 DEF KeptDependencies, NewEntries, Kept, In, PutBack
      <4>2. saved[d].in
        BY <3>2, <3>5, <4>1 DEF PlanInv, StepsFitEntries
      <4>3. CASE desired[d].in
        <5>1. Changes(d) /\ steps[d].order < order
          BY <1>1, <3>1, <3>5, <4>3 DEF PlanInv, PlanProgress, RemovalsLast
        <5>2. Folded(d)
          BY <1>1, <5>1 DEF Folded, Planned
        <5> QED
          BY <1>c, <4>2, <5>1, <5>2 DEF ApplyInv, SavedChangesKept
      <4> QED
        BY <1>c, <4>1, <4>3
    <3> QED
      BY <1>5, <2>2, <3>1, <3>3, <3>4, <3>5, EndedOutcome
  <2> QED
    BY <2>1, <2>2
<1>13. QueuedBySteps'
  <2>1. \A p \in Queued' : p \in Queued \/ p \in registered
    <3>1. registered \in SUBSET Post /\ batches \in Seq(SUBSET Post)
      BY DEF TypeOK
    <3>2. Elements(batches') \subseteq Elements(batches) \cup registered
      BY <3>1, QueueElements DEF FoldLayer
    <3> QED
      BY <1>1, <3>2 DEF Queued
  <2>2. ASSUME NEW p \in Queued \cup posts.pending \cup posts.running
        PROVE  /\ Folded(p.id)'
               /\ ~Removes(p.id)' => desired[p.id].deps \subseteq Kept'
               /\ Removes(p.id)' => setup.deletions # {}
    <3>1. /\ p.id \in Ids /\ Folded(p.id)
          /\ ~Removes(p.id) => desired[p.id].deps \subseteq Kept
          /\ Removes(p.id) => setup.deletions # {}
      BY QueuedPosts DEF ApplyInv, QueuedBySteps
    <3> QED
      BY <1>3, <1>4, <1>c, <3>1
  <2>3. ASSUME NEW p \in registered
        PROVE  /\ Folded(p.id)'
               /\ ~Removes(p.id)' => desired[p.id].deps \subseteq Kept'
               /\ Removes(p.id)' => setup.deletions # {}
    <3>1. p.id \in Ids /\ p.id \in Layer /\ MayRun(p.id) /\ (Removes(p.id) => setup.deletions # {})
      BY <1>1, QueuedPosts DEF ApplyInv, RegisteredBySteps
    <3> QED
      BY <1>2, <1>3, <1>4, <1>b, <1>c, <3>1
  <2> QED
    BY <1>1, <2>1, <2>2, <2>3 DEF QueuedBySteps
<1> QED
  BY <1>8, <1>9, <1>10, <1>11, <1>12, <1>13 DEF ApplyInv

\* The plan ends where the first empty layer begins: nothing is left to fold, or to register.
LEMMA ApplyByStepsDone ==
  ASSUME TypeOK, PlanInv, ApplyInv, UNCHANGED setup, StepsDone
  PROVE  ApplyInv'
<1>1. /\ phase = "apply" /\ phase' = "post" /\ Layer = {} /\ InApply /\ InApply' /\ Applying /\ ~Applying'
      /\ UNCHANGED <<saved, desired, steps, order, status, succeeded, failed, registered, batches, posts>>
  BY DEF StepsDone, InApply, Applying, applyVars
<1>2. registered = {} /\ \A i \in Ids : status[i] = "pending"
  BY <1>1 DEF ApplyInv, RegisteredBySteps, StepsOfLayer
<1>3. /\ Kept' = Kept /\ \A i \in Ids : (Folded(i)' <=> Folded(i)) /\ (Planned(i)' <=> Planned(i))
      /\ \A i \in Ids : (Changes(i)' <=> Changes(i)) /\ (Removes(i)' <=> Removes(i))
  BY <1>1 DEF Kept, In, Folded, Changes, Removes, Planned
<1>4. PostsComeLast'
  <2> SUFFICES ASSUME NEW i \in Ids, Planned(i), ~(steps[i].order < order) PROVE FALSE
    BY <1>1, <1>3 DEF PostsComeLast
  <2>1. order \in Nat /\ steps[i].order \in Nat
    BY VisitedIsPlanned DEF TypeOK
  <2>2. \E j \in Ids : Planned(j) /\ steps[j].order = order
    BY <2>1 DEF PlanInv, NoGaps
  <2> QED
    BY <1>1, <2>2, LayerSteps
<1>5. NothingApplied' /\ StepsOfLayer' /\ SavedStateLoads' /\ RegisteredBySteps'
  BY <1>1, <1>2 DEF ApplyInv, NothingApplied, SavedStateLoads, In, StepsOfLayer, RegisteredBySteps
<1>6. OnlyFoldedAreKept' /\ SavedChangesKept' /\ SucceededDepsKept' /\ FailedDepsKept'
  BY <1>1, <1>3 DEF ApplyInv, OnlyFoldedAreKept, SavedChangesKept, SucceededDepsKept, FailedDepsKept, PutBack, In
<1>7. QueuedBySteps'
  <2>1. Queued' = Queued
    BY <1>1, <1>2 DEF Queued
  <2> QED
    BY <1>1, <1>3, <2>1, QueuedPosts DEF ApplyInv, QueuedBySteps
<1> QED
  BY <1>4, <1>5, <1>6, <1>7 DEF ApplyInv

\* What post actions have in common: they move entries from the succeeded map to the failed one, and register what
\* belongs to the same entries.
MovesPosts ==
  /\ phase = "post" /\ phase' = "post"
  /\ UNCHANGED <<saved, live, desired, force, steps, order, status, outcome>>
  /\ \A q \in Queued' \cup posts'.pending \cup posts'.running :
       \E p \in Queued \cup posts.pending \cup posts.running : q.id = p.id
  /\ \/ UNCHANGED <<succeeded, failed>>
     \/ \E p \in posts.pending \cup posts.running : PostFailed(p)

PostAction ==
  \/ NextBatch
  \/ \E p \in posts.pending : SkipPost(p) \/ CallPost(p)
  \/ \E p \in posts.running :
       PostThrows(p) \/ \E post \in PostsOf(p.id) :
                            (p.nest < MaxNesting \/ post = "none") /\ PostReturns(p, post)

\* A batch that is taken, and a post action that is skipped, started or ended, moves the post actions on.
LEMMA PostMoves ==
  ASSUME TypeOK, PostAction
  PROVE  MovesPosts
<1> USE DEF MovesPosts
<1>1. CASE NextBatch
  <2> DEFINE queue == IF registered = {} THEN batches ELSE Append(batches, registered)
  <2>1. registered \in SUBSET Post /\ batches \in Seq(SUBSET Post)
    BY DEF TypeOK
  <2>2. queue \in Seq(SUBSET Post) /\ Elements(queue) \subseteq Elements(batches) \cup registered
    BY <2>1, QueueElements
  <2>3. /\ queue # <<>> /\ posts' = [pending |-> Head(queue), running |-> {}] /\ batches' = Tail(queue)
        /\ registered' = {} /\ phase = "post" /\ phase' = "post"
    BY <1>1 DEF NextBatch
  <2> HIDE DEF queue
  <2>4. Head(queue) \subseteq Elements(queue) /\ Elements(Tail(queue)) \subseteq Elements(queue)
    BY <2>2, <2>3, QueueElements
  <2>5. Queued' \cup posts'.pending \cup posts'.running \subseteq Queued
    BY <2>2, <2>3, <2>4 DEF Queued
  <2> QED
    BY <1>1, <2>5 DEF NextBatch
<1>2. ASSUME NEW p \in posts.pending, SkipPost(p) \/ CallPost(p) PROVE MovesPosts
  <2>1. phase = "post" /\ phase' = "post" /\ UNCHANGED <<batches, registered>>
    BY <1>2 DEF SkipPost, CallPost, NextPost
  <2>2. posts'.pending \cup posts'.running \subseteq posts.pending \cup posts.running
    BY <1>2 DEF SkipPost, CallPost, TypeOK
  <2>3. Queued' = Queued
    BY <2>1 DEF Queued
  <2> QED
    BY <1>2, <2>1, <2>2, <2>3 DEF SkipPost, CallPost
<1>3. ASSUME NEW p \in posts.running, PostThrows(p) PROVE MovesPosts
  <2>1. phase = "post" /\ phase' = "post" /\ UNCHANGED <<batches, registered>>
    BY <1>3 DEF PostThrows
  <2>2. posts'.pending \cup posts'.running \subseteq posts.pending \cup posts.running
    BY <1>3 DEF PostThrows, TypeOK
  <2>3. Queued' = Queued
    BY <2>1 DEF Queued
  <2> QED
    BY <1>3, <2>1, <2>2, <2>3 DEF PostThrows
<1>4. ASSUME NEW p \in posts.running, NEW post, PostReturns(p, post) PROVE MovesPosts
  <2>1. phase = "post" /\ phase' = "post" /\ UNCHANGED <<batches>>
    BY <1>4 DEF PostReturns
  <2>2. posts'.pending \cup posts'.running \subseteq posts.pending \cup posts.running
    BY <1>4 DEF PostReturns, TypeOK
  <2>3. \A q \in Queued' : q \in Queued \/ q.id = p.id
    BY <1>4, <2>1 DEF Queued, PostReturns
  <2> QED
    BY <1>4, <2>1, <2>2, <2>3 DEF PostReturns
<1> QED
  BY <1>1, <1>2, <1>3, <1>4 DEF PostAction

\* Where a post action fails, its entry is kept, with dependencies that are kept, unless it is that of a deletion.
LEMMA PostFails ==
  ASSUME TypeOK, PlanInv, ApplyInv, NEW p \in posts.pending \cup posts.running, PostFailed(p)
  PROVE  /\ p.id \in Ids /\ Folded(p.id)
         /\ ~Removes(p.id) => failed'[p.id].deps = desired[p.id].deps /\ desired[p.id].deps \subseteq Kept
         /\ Removes(p.id) => setup.deletions # {}
         /\ \A i \in Ids : i # p.id => succeeded'[i] = succeeded[i] /\ failed'[i] = failed[i]
         /\ ~succeeded'[p.id].in /\ failed'[p.id].in /\ failed'[p.id].partial
<1>1. /\ p.id \in Ids /\ Folded(p.id)
      /\ ~Removes(p.id) => desired[p.id].deps \subseteq Kept
      /\ Removes(p.id) => setup.deletions # {}
  BY QueuedPosts DEF ApplyInv, QueuedBySteps
<1>2. PostEntry(p.id) \in Entry /\ PostEntry(p.id).in /\ (~Removes(p.id) => PostEntry(p.id) = desired[p.id])
  BY <1>1, MapTypes DEF PlanInv, StepsFitEntries, PostEntry, Removes, Folded, Planned, TypeOK
<1>3. /\ failed'[p.id] = [PostEntry(p.id) EXCEPT !.partial = TRUE] /\ succeeded'[p.id] = NoEntry
      /\ \A i \in Ids : i # p.id => succeeded'[i] = succeeded[i] /\ failed'[i] = failed[i]
  BY <1>1 DEF PostFailed, TypeOK, EntryMap
<1>4. failed'[p.id].in /\ failed'[p.id].partial /\ failed'[p.id].deps = PostEntry(p.id).deps /\ ~succeeded'[p.id].in
  BY <1>2, <1>3 DEF Entry, NoEntry
<1> QED
  BY <1>1, <1>2, <1>3, <1>4

\* Post actions keep what the result depends on, whatever fails.
LEMMA ApplyByPost ==
  ASSUME TypeOK, PlanInv, ApplyInv, UNCHANGED setup, PostAction
  PROVE  ApplyInv'
<1>1. MovesPosts
  BY PostMoves
<1>2. /\ phase = "post" /\ phase' = "post" /\ InApply /\ InApply' /\ ~Applying /\ ~Applying'
      /\ UNCHANGED <<saved, desired, steps, order, status>>
  BY <1>1 DEF MovesPosts, InApply, Applying
<1>3. \A i \in Ids : (Folded(i)' <=> Folded(i)) /\ (Changes(i)' <=> Changes(i)) /\ (Removes(i)' <=> Removes(i)) /\ (Planned(i)' <=> Planned(i))
  BY <1>2 DEF Folded, Changes, Removes, Planned
<1>4. NothingApplied' /\ StepsOfLayer' /\ PostsComeLast' /\ SavedStateLoads' /\ RegisteredBySteps'
  BY <1>2, <1>3 DEF ApplyInv, NothingApplied, SavedStateLoads, In, StepsOfLayer, RegisteredBySteps, PostsComeLast
<1>5. Kept \subseteq Kept' /\ OnlyFoldedAreKept' /\ SucceededDepsKept' /\ FailedDepsKept'
  <2>1. CASE UNCHANGED <<succeeded, failed>>
    BY <1>2, <1>3, <2>1 DEF ApplyInv, OnlyFoldedAreKept, SucceededDepsKept, FailedDepsKept, PutBack, In, Kept
  <2>2. ASSUME NEW p \in posts.pending \cup posts.running, PostFailed(p)
        PROVE  Kept \subseteq Kept' /\ OnlyFoldedAreKept' /\ SucceededDepsKept' /\ FailedDepsKept'
    <3>1. /\ p.id \in Ids /\ Folded(p.id)
          /\ \A i \in Ids : i # p.id => succeeded'[i] = succeeded[i] /\ failed'[i] = failed[i]
          /\ ~succeeded'[p.id].in /\ failed'[p.id].in
      BY <2>2, PostFails
    <3>2. failed'[p.id].deps \subseteq Kept \/ PutBack(failed'[p.id])
      BY <2>2, PostFails DEF PutBack
    <3> HIDE DEF PostFailed
    <3>3. \A i \in Ids : i \in Kept' <=> i \in Kept \/ i = p.id
      BY <3>1, <3>2 DEF Kept, In
    <3>4. Kept \subseteq Kept'
      BY <3>3 DEF Kept, In
    <3>5. OnlyFoldedAreKept'
      BY <1>3, <3>1, <3>3 DEF ApplyInv, OnlyFoldedAreKept
    <3>6. SucceededDepsKept'
      BY <3>1, <3>4 DEF ApplyInv, SucceededDepsKept, In
    <3>7. FailedDepsKept'
      BY <1>2, <1>3, <3>1, <3>2, <3>4 DEF ApplyInv, FailedDepsKept, PutBack, In
    <3> QED
      BY <3>4, <3>5, <3>6, <3>7
  <2> QED
    BY <1>1, <2>1, <2>2 DEF MovesPosts
<1>6. SavedChangesKept'
  BY <1>2, <1>3, <1>5 DEF ApplyInv, SavedChangesKept
<1>7. QueuedBySteps'
  <2> SUFFICES ASSUME NEW q \in Queued' \cup posts'.pending \cup posts'.running
               PROVE  /\ Folded(q.id)'
                      /\ ~Removes(q.id)' => desired[q.id].deps \subseteq Kept'
                      /\ Removes(q.id)' => setup.deletions # {}
    BY <1>2 DEF QueuedBySteps
  <2>1. PICK p \in Queued \cup posts.pending \cup posts.running : q.id = p.id
    BY <1>1 DEF MovesPosts
  <2>2. /\ p.id \in Ids /\ Folded(p.id)
        /\ ~Removes(p.id) => desired[p.id].deps \subseteq Kept
        /\ Removes(p.id) => setup.deletions # {}
    BY QueuedPosts DEF ApplyInv, QueuedBySteps
  <2> QED
    BY <1>3, <1>5, <2>1, <2>2
<1> QED
  BY <1>4, <1>5, <1>6, <1>7 DEF ApplyInv

\* Where nothing is applied yet, all of it holds of itself.
LEMMA ApplyNothing ==
  ASSUME TypeOK',
         succeeded' = EmptyMap, failed' = EmptyMap, registered' = {}, batches' = <<>>, posts' = NoPosts,
         \A i \in Ids : status'[i] = "pending", phase' # "post", InApply' => order' = 0, SavedStateLoads'
  PROVE  ApplyInv'
<1>1. In(succeeded)' = {} /\ In(failed)' = {} /\ Kept' = {}
  BY DEF In, Kept, EmptyMap, NoEntry
<1>2. \A i \in Ids : ~Folded(i)'
  BY DEF Folded, TypeOK, Step
<1>3. Queued' = {} /\ posts'.pending = {} /\ posts'.running = {}
  BY DEF Queued, Elements, NoPosts
<1> QED
  BY <1>1, <1>2, <1>3 DEF ApplyInv, NothingApplied, StepsOfLayer, PostsComeLast, OnlyFoldedAreKept, SavedChangesKept,
     SucceededDepsKept, FailedDepsKept, RegisteredBySteps, QueuedBySteps

\* The result of a deploy has every dependency of its entries.
LEMMA ResultLoads ==
  ASSUME TypeOK, PlanInv, ApplyInv, phase = "post"
  PROVE  LET all == CombineEntryMaps(failed, succeeded)
         IN \A i \in In(all) : all[i].deps \subseteq In(all) \/ PutBack(all[i])
<1> DEFINE all == CombineEntryMaps(failed, succeeded)
<1>1. InApply
  BY DEF InApply
<1>2. \A i \in Ids : all[i].in <=> i \in Kept
  BY DEF CombineEntryMaps, Kept, In
<1>3. \A d \in Ids : saved[d].in => Folded(d)
  BY <1>1 DEF PlanInv, PlanProgress, ApplyInv, PostsComeLast, Folded, Planned
<1> SUFFICES ASSUME NEW i \in Ids, all[i].in, NEW d \in all[i].deps, ~PutBack(all[i]) PROVE d \in Ids /\ all[d].in
  BY DEF In
<1>4. d \in Ids
  BY MapTypes DEF TypeOK
<1>5. CASE failed[i].in
  <2>1. d \in failed[i].deps /\ ~PutBack(failed[i])
    BY <1>5 DEF CombineEntryMaps
  <2> QED
    BY <1>2, <1>3, <1>4, <1>5, <2>1 DEF ApplyInv, FailedDepsKept, In
<1>6. CASE ~failed[i].in
  <2>1. succeeded[i].in /\ d \in succeeded[i].deps
    BY <1>6 DEF CombineEntryMaps
  <2> QED
    BY <1>2, <1>4, <2>1 DEF ApplyInv, SucceededDepsKept, In
<1> QED
  BY <1>5, <1>6

\* The application keeps what its result depends on, through every step of every deploy.
LEMMA ApplyStep ==
  ASSUME TypeOK, PlanInv, ApplyInv, [Next]_vars, TypeOK'
  PROVE  ApplyInv'
<1>u. UNCHANGED setup
  BY DEF Next, EngineStep, vars
<1>1. CASE Applies
  BY <1>1, <1>u, ApplyByStep, ApplyByFold, ApplyByStepsDone, ApplyByPost DEF Applies, StepAction, PostAction
<1>2. ASSUME Reset, UNCHANGED saved \/ (phase = "post" /\ saved' = CombineEntryMaps(failed, succeeded)) PROVE ApplyInv'
  <2>1. SavedStateLoads'
    BY <1>2, <1>u, ResultLoads DEF ApplyInv, SavedStateLoads, PutBack, In
  <2> QED
    BY <1>2, <2>1, ApplyNothing DEF Reset, InApply
<1>3. ASSUME ~InApply, phase' # "post", InApply' => order' = 0, UNCHANGED saved, UNCHANGED applyVars PROVE ApplyInv'
  <2>1. phase # "post" /\ ~Applying
    BY <1>3 DEF InApply, Applying
  <2>2. /\ succeeded = EmptyMap /\ failed = EmptyMap /\ registered = {} /\ batches = <<>> /\ posts = NoPosts
        /\ \A i \in Ids : status[i] = "pending"
    BY <1>3, <2>1 DEF ApplyInv, NothingApplied, StepsOfLayer
  <2>3. SavedStateLoads'
    BY <1>3, <1>u DEF ApplyInv, SavedStateLoads, In
  <2> QED
    BY <1>3, <2>2, <2>3, ApplyNothing DEF applyVars
<1>4. ASSUME NEW project, NEW forced, StartDeploy(project, forced) PROVE ApplyInv'
  BY <1>3, <1>4 DEF StartDeploy, InApply
<1>5. CASE PlanPendingChanges \/ HydrateState \/ PlanPendingRemoval \/ PlanReady
  BY <1>3, <1>5 DEF PlanPendingChanges, HydrateState, PlanPendingRemoval, PlanReady, InApply
<1>6. CASE SaveResult \/ PlanThrows \/ EndRejected
  BY <1>2, <1>6 DEF SaveResult, PlanThrows, EndRejected
<1>7. CASE UNCHANGED vars
  BY <1>7 DEF vars, ApplyInv, NothingApplied, StepsOfLayer, PostsComeLast, OnlyFoldedAreKept, SavedChangesKept,
     SucceededDepsKept, FailedDepsKept, RegisteredBySteps, QueuedBySteps, SavedStateLoads, PutBack, In, Kept,
     Queued, Elements, Folded, Planned, Changes, Removes, MayRun, Ended, ResultOf, KeptDependencies, NewEntries, Layer, Applying, InApply
<1> QED
  BY <1>1, <1>4, <1>5, <1>6, <1>7 DEF Next, EngineStep, EngineAction, Applies

\* The plan and its application are in order at every moment.
LEMMA EngineInvariant == Safety => [](TypeOK /\ PlanInv /\ ApplyInv)
<1>1. Init => PlanInv /\ ApplyInv
  <2> SUFFICES ASSUME Init PROVE PlanInv /\ ApplyInv
    OBVIOUS
  <2>1. \A i \in Ids : ~Planned(i) /\ ~Changes(i) /\ ~Removes(i) /\ status[i] = "pending"
    BY DEF Init, NoStep, Planned, Changes, Removes
  <2>2. phase = "idle" /\ order = 0 /\ ~InApply /\ ~Planning
    BY DEF Init, InApply, Planning
  <2>3. PlanInv
    BY <2>1, <2>2 DEF PlanInv, StepsFitEntries, ChangesInOrder, RemovalsInOrder, RemovalsLast, NoGaps, PlanProgress
  <2>4. In(succeeded) = {} /\ In(failed) = {} /\ Kept = {} /\ In(saved) = {}
    BY DEF Init, In, Kept, EmptyMap, NoEntry
  <2>5. Queued = {} /\ posts.pending = {} /\ posts.running = {} /\ registered = {}
    BY DEF Init, Queued, Elements, NoPosts
  <2>6. NothingApplied
    BY <2>2 DEF Init, NothingApplied
  <2>7. ApplyInv
    BY <2>1, <2>2, <2>4, <2>5, <2>6 DEF ApplyInv, StepsOfLayer, PostsComeLast, OnlyFoldedAreKept, SavedChangesKept,
       SucceededDepsKept, FailedDepsKept, RegisteredBySteps, QueuedBySteps, SavedStateLoads, Folded
  <2> QED
    BY <2>3, <2>7
<1>2. TypeOK /\ TypeOK' /\ PlanInv /\ ApplyInv /\ [Next]_vars => PlanInv' /\ ApplyInv'
  BY PlanStep, ApplyStep
<1> QED
  BY <1>1, <1>2, TypeCorrect, PTL DEF Safety

\* Whatever the project, whichever handlers and post actions fail or warn, half way or not, and whether the engine is
\* interrupted by an entry without a handler, every dependency of a saved entry is saved.  Where delete handlers register
\* no post action the state can thus always be loaded (hydrateState); where they do, only partial entries may lack one.
THEOREM StateLoads == Safety => []SavedStateLoads
<1>1. ApplyInv => SavedStateLoads
  BY DEF ApplyInv
<1> QED
  BY <1>1, EngineInvariant, PTL
-----------------------------------------------------------------------------
(***************************************************************************)
(* The order of post actions.  Nested ones are always queued behind all    *)
(* first-level ones, since no step registers any once post actions run.    *)
(***************************************************************************)

Flat(batch) == \A p \in batch : p.nest = 0
Nested(batch) == \A p \in batch : p.nest > 0

AllFlat(queue) == \A k \in 1..Len(queue) : Flat(queue[k])
AllNested(queue) == \A k \in 1..Len(queue) : Nested(queue[k])

FlatFirst(queue) ==
  \A k, l \in 1..Len(queue) :
    /\ Flat(queue[k]) \/ Nested(queue[k])
    /\ k < l /\ ~Flat(queue[k]) => Nested(queue[l])

NestInv ==
  /\ phase # "post" => Flat(registered) /\ AllFlat(batches)
  /\ phase = "post" => Nested(registered)
  /\ FlatFirst(batches)
  /\ Flat(posts.pending \cup posts.running) \/ (Nested(posts.pending \cup posts.running) /\ AllNested(batches))

\* Appending a nested batch, and taking off the first one, keep flat batches first.
LEMMA QueueOrder ==
  ASSUME NEW S, NEW queue \in Seq(SUBSET S)
  PROVE  /\ \A x \in SUBSET S :
              /\ FlatFirst(queue) /\ Nested(x) => FlatFirst(Append(queue, x))
              /\ AllFlat(queue) /\ Flat(x) => AllFlat(Append(queue, x))
         /\ AllFlat(queue) => FlatFirst(queue)
         /\ queue # <<>> /\ FlatFirst(queue) =>
              /\ FlatFirst(Tail(queue))
              /\ Flat(Head(queue)) \/ (Nested(Head(queue)) /\ AllNested(Tail(queue)))
<1>1. Len(queue) \in Nat
  BY LenProperties
<1>2. ASSUME NEW x \in SUBSET S
      PROVE  /\ FlatFirst(queue) /\ Nested(x) => FlatFirst(Append(queue, x))
             /\ AllFlat(queue) /\ Flat(x) => AllFlat(Append(queue, x))
  <2>1. /\ Len(Append(queue, x)) = Len(queue) + 1
        /\ \A k \in 1..Len(queue) : Append(queue, x)[k] = queue[k]
        /\ Append(queue, x)[Len(queue) + 1] = x
    BY AppendProperties
  <2>2. \A k \in 1..Len(Append(queue, x)) : k \in 1..Len(queue) \/ k = Len(queue) + 1
    BY <1>1, <2>1
  <2>3. \A k, l \in 1..Len(Append(queue, x)) : k < l => k \in 1..Len(queue)
    BY <1>1, <2>1
  <2>4. AllFlat(queue) /\ Flat(x) => AllFlat(Append(queue, x))
    BY <2>1, <2>2 DEF AllFlat
  <2>5. FlatFirst(queue) /\ Nested(x) => FlatFirst(Append(queue, x))
    BY <2>1, <2>2, <2>3 DEF FlatFirst
  <2> QED
    BY <2>4, <2>5
<1>3. ASSUME queue # <<>>, FlatFirst(queue)
      PROVE  /\ FlatFirst(Tail(queue))
             /\ Flat(Head(queue)) \/ (Nested(Head(queue)) /\ AllNested(Tail(queue)))
  <2>1. /\ Len(Tail(queue)) = Len(queue) - 1
        /\ \A k \in 1..Len(Tail(queue)) : Tail(queue)[k] = queue[k + 1]
    BY <1>3, HeadTailProperties
  <2>2. Len(queue) # 0
    BY <1>3, EmptySeq
  <2>3. Head(queue) = queue[1]
    BY <1>1, <2>2
  <2>4. 1 \in 1..Len(queue) /\ \A k \in 1..Len(Tail(queue)) : k + 1 \in 1..Len(queue) /\ 1 < k + 1
    BY <1>1, <2>1, <2>2
  <2>5. \A k, l \in 1..Len(Tail(queue)) : k < l => k + 1 < l + 1
    OBVIOUS
  <2>6. FlatFirst(Tail(queue))
    BY <1>3, <2>1, <2>4, <2>5 DEF FlatFirst
  <2>7. Flat(Head(queue)) \/ (Nested(Head(queue)) /\ AllNested(Tail(queue)))
    BY <1>3, <2>1, <2>3, <2>4 DEF FlatFirst, AllNested
  <2> QED
    BY <2>6, <2>7
<1> QED
  BY <1>2, <1>3 DEF AllFlat, FlatFirst

\* Steps register first-level post actions, post actions nested ones.
LEMMA NestStep ==
  ASSUME TypeOK, ApplyInv, NestInv, [Next]_vars
  PROVE  NestInv'
<1> USE DEF NestInv
<1>a. registered \in SUBSET Post /\ batches \in Seq(SUBSET Post) /\ (phase # "post" => posts = NoPosts)
  BY DEF TypeOK, ApplyInv, NothingApplied
<1>b. \A p \in posts.running : p.nest \in Nat
  BY DEF TypeOK, Post
<1>1. ASSUME UNCHANGED <<registered, batches, posts>>, phase' = "post" <=> phase = "post" PROVE NestInv'
  BY <1>1
<1>2. ASSUME NEW i \in Ids, StepAction(i) PROVE NestInv'
  <2>1. phase # "post" /\ phase' # "post" /\ UNCHANGED <<batches, posts>>
    BY <1>2, StepMoves DEF ApplyInv, MovesStep, Applying
  <2>2. \A p \in registered' : p \in registered \/ p.nest = 0
    <3>1. ASSUME NEW post, Registers(i, post) PROVE \A p \in registered' : p \in registered \/ p.nest = 0
      BY <3>1 DEF Registers
    <3>2. CASE SkipStep(i) \/ NoopStep(i) \/ CallHandler(i) \/ HandlerNotFound(i)
      BY <3>2 DEF SkipStep, NoopStep, CallHandler, HandlerNotFound
    <3>3. ASSUME NEW post, HandlerThrows(i, post) \/ \E warned \in BOOLEAN : HandlerReturns(i, warned, post)
          PROVE  Registers(i, post)
      BY <3>3 DEF HandlerThrows, HandlerReturns
    <3> QED
      BY <1>2, <3>1, <3>2, <3>3 DEF StepAction
  <2> QED
    BY <2>1, <2>2 DEF Flat
<1>3. CASE FoldLayer
  <2>1. phase # "post" /\ phase' # "post" /\ UNCHANGED posts /\ registered' = {}
    BY <1>3 DEF FoldLayer
  <2>2. batches' = batches \/ batches' = Append(batches, registered)
    BY <1>3 DEF FoldLayer
  <2>3. AllFlat(batches)' /\ batches' \in Seq(SUBSET Post)
    BY <1>a, <2>1, <2>2, QueueOrder, QueueElements DEF AllFlat
  <2>4. FlatFirst(batches)'
    BY <2>3, QueueOrder DEF FlatFirst, AllFlat
  <2>5. Flat(registered)' /\ Flat(posts.pending \cup posts.running)'
    BY <1>a, <2>1 DEF Flat, NoPosts
  <2> QED
    BY <2>1, <2>3, <2>4, <2>5
<1>4. CASE StepsDone
  <2>1. phase = "apply" /\ phase' = "post" /\ Layer = {} /\ UNCHANGED <<registered, batches, posts>>
    BY <1>4 DEF StepsDone, applyVars
  <2>2. registered = {}
    BY <2>1 DEF ApplyInv, RegisteredBySteps, Applying
  <2> QED
    BY <2>1, <2>2 DEF Nested
<1>5. CASE NextBatch
  <2> DEFINE queue == IF registered = {} THEN batches ELSE Append(batches, registered)
  <2>1. queue \in Seq(SUBSET Post) /\ FlatFirst(queue)
    BY <1>a, <1>5, QueueElements, QueueOrder DEF NextBatch
  <2>2. /\ queue # <<>> /\ posts' = [pending |-> Head(queue), running |-> {}] /\ batches' = Tail(queue)
        /\ registered' = {} /\ phase' = "post"
    BY <1>5 DEF NextBatch
  <2> HIDE DEF queue
  <2>3. FlatFirst(Tail(queue)) /\ (Flat(Head(queue)) \/ (Nested(Head(queue)) /\ AllNested(Tail(queue))))
    BY <2>1, <2>2, QueueOrder
  <2>4. posts'.pending \cup posts'.running = Head(queue) /\ Nested(registered)'
    BY <2>2 DEF Nested
  <2>5. (Flat(posts.pending \cup posts.running) \/ (Nested(posts.pending \cup posts.running) /\ AllNested(batches)))'
    BY <2>2, <2>3, <2>4
  <2> QED
    BY <2>2, <2>3, <2>4, <2>5
<1>6. ASSUME NEW p, SkipPost(p) \/ CallPost(p) \/ PostThrows(p), p \in posts.pending \cup posts.running PROVE NestInv'
  <2>1. phase = "post" /\ phase' = "post" /\ UNCHANGED <<registered, batches>>
    BY <1>6 DEF SkipPost, CallPost, PostThrows, NextPost
  <2>2. posts'.pending \cup posts'.running \subseteq posts.pending \cup posts.running
    BY <1>6 DEF SkipPost, CallPost, PostThrows, TypeOK
  <2>3. (Flat(posts.pending \cup posts.running) \/ (Nested(posts.pending \cup posts.running) /\ AllNested(batches)))'
    BY <2>1, <2>2 DEF Flat, Nested
  <2> QED
    BY <2>1, <2>3
<1>7. ASSUME NEW p \in posts.running, NEW post, PostReturns(p, post) PROVE NestInv'
  <2>1. phase = "post" /\ phase' = "post" /\ UNCHANGED <<batches>>
    BY <1>7 DEF PostReturns
  <2>2. posts'.pending \cup posts'.running \subseteq posts.pending \cup posts.running
    BY <1>7 DEF PostReturns, TypeOK
  <2>3. (Flat(posts.pending \cup posts.running) \/ (Nested(posts.pending \cup posts.running) /\ AllNested(batches)))'
    BY <2>1, <2>2 DEF Flat, Nested
  <2>4. \A q \in registered' : q \in registered \/ q.nest = p.nest + 1
    BY <1>7 DEF PostReturns
  <2>5. Nested(registered)'
    BY <1>b, <2>1, <2>4 DEF Nested
  <2> QED
    BY <2>1, <2>3, <2>5
<1>8. CASE Reset
  <2>1. phase' = "idle" /\ registered' = {} /\ batches' = <<>> /\ posts' = NoPosts
    BY <1>8 DEF Reset
  <2> QED
    BY <2>1 DEF Flat, AllFlat, FlatFirst, NoPosts
<1>9. ASSUME NEW project, NEW forced, StartDeploy(project, forced) PROVE NestInv'
  BY <1>1, <1>9 DEF StartDeploy, applyVars
<1>10. CASE PlanPendingChanges \/ HydrateState \/ PlanPendingRemoval \/ PlanReady
  BY <1>1, <1>10 DEF PlanPendingChanges, HydrateState, PlanPendingRemoval, PlanReady, applyVars
<1>11. CASE UNCHANGED vars
  BY <1>1, <1>11 DEF vars
<1> QED
  BY <1>2, <1>3, <1>4, <1>5, <1>6, <1>7, <1>8, <1>9, <1>10, <1>11
     DEF Next, EngineStep, EngineAction, StepAction, SaveResult, PlanThrows, EndRejected

\* In every deploy, a cleanup that a post action registered only runs once every first-level post action of every layer
\* was run or skipped.
THEOREM CleanupsLast == Safety => []CleanupsAfterRollouts
<1>1. Init => NestInv
  BY DEF Init, NestInv, Flat, AllFlat, FlatFirst, NoPosts
<1>2. TypeOK /\ PlanInv /\ ApplyInv /\ NestInv /\ [Next]_vars => NestInv'
  BY NestStep
<1>3. TypeOK /\ NestInv => CleanupsAfterRollouts
  BY DEF NestInv, Flat, Nested, AllNested, CleanupsAfterRollouts, TypeOK, Post
<1> QED
  BY <1>1, <1>2, <1>3, TypeCorrect, EngineInvariant, PTL DEF Safety
=============================================================================
