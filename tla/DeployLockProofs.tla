-------------------------- MODULE DeployLockProofs --------------------------
(***************************************************************************)
(* The safety of the deploy protocol for any number of runs, crashes and   *)
(* lost replies.  Signals are allowed; what a signal takes away from an    *)
(* interrupted run (its lock, while it goes on) is what the properties     *)
(* except, and the run lock_orphan shows why they must.                    *)
(***************************************************************************)
EXTENDS DeployLock, TLAPS

(***************************************************************************)
(* The inductive invariant.  Mutual exclusion alone says nothing of the    *)
(* messages in flight: a grant not yet received, a release sent before the *)
(* save is done, or a save still in flight after the release.              *)
(***************************************************************************)

\* The shutdown handler only sends releases, and only of an interrupted run.
SignalMessages ==
  /\ \A m \in requests : m.from = "signal" => m.kind = "unlock" /\ Interrupted(m.run)
  /\ \A n \in replies : n.from = "signal" => n.kind = "unlock" /\ Interrupted(n.run)

\* A put is in flight only while its run waits for it, and a grant in flight is backed by the lock.
PutInFlight ==
  /\ \A m \in requests : m.kind = "lock" =>
       /\ main[m.run] = "locking"
       /\ \A n \in replies : n.kind = "lock" => n.run # m.run
  /\ \A n \in replies : n.kind = "lock" =>
       /\ main[n.run] = "locking"
       /\ n.ok /\ ~Interrupted(n.run) => lock = n.run

\* A put, and a save, has at most one reply: losing it leaves none.
OneReply ==
  \A n, o \in replies :
    n.kind = o.kind /\ n.kind \in {"lock", "save"} /\ n.run = o.run => n = o

\* A release is in flight only once its run is past the callback.
ReleaseInFlight ==
  \A m \in requests : m.kind = "unlock" /\ m.from = "main" => main[m.run] \in {"unlocking", "ended"}

\* A lost reply sends a release or a save again, so the replies are constrained like the requests.
ReleaseAnswered ==
  \A n \in replies : n.kind = "unlock" /\ n.from = "main" => main[n.run] \in {"unlocking", "ended"}

\* A save is in flight only while its run waits for it.
SaveInFlight ==
  /\ \A m \in requests : m.kind = "save" =>
       /\ main[m.run] = "saving"
       /\ \A n \in replies : n.kind = "save" => n.run # m.run
  /\ \A n \in replies : n.kind = "save" => main[n.run] = "saving"

\* A run in its callback holds the lock, until it is interrupted.
CriticalHoldsLock ==
  \A r \in Runs : Critical(r) /\ ~Interrupted(r) => lock = r

\* A run past its check still has the state it planned from under it, or has just replaced it.
PlanIsCurrent ==
  NoInterruption => \A r \in Runs :
    /\ main[r] = "applying" => stored = seen[r]
    /\ main[r] = "saving" => stored \in {seen[r], r}

IInv ==
  /\ TypeOK
  /\ SignalMessages
  /\ PutInFlight
  /\ OneReply
  /\ ReleaseInFlight
  /\ ReleaseAnswered
  /\ SaveInFlight
  /\ CriticalHoldsLock
  /\ PlanIsCurrent

-----------------------------------------------------------------------------
\* Every value the protocol's variables take is of its type, signals, crashes and retries included.
THEOREM TypeCorrect == Safety => []TypeOK
<1>1. Init => TypeOK
  BY ConstantsAssumption DEF Init, TypeOK, Versions, MainStates, ProcStates
<1>2. TypeOK /\ [Next]_vars => TypeOK'
  <2> SUFFICES ASSUME TypeOK, [Next]_vars PROVE TypeOK'
    OBVIOUS
  <2> USE ConstantsAssumption
  <2>1. ASSUME NEW r \in Runs, Load(r) \/ Abort(r) \/ EnterPerform(r) PROVE TypeOK'
    BY <2>1 DEF TypeOK, Versions, MainStates, ProcStates, Load, Abort, EnterPerform
  <2>2. ASSUME NEW r \in Runs, SendLock(r) \/ Check(r) \/ SendSave(r) \/ ApplyThrows(r) PROVE TypeOK'
    BY <2>2 DEF TypeOK, Versions, MainStates, ProcStates, SendLock, Check, SendSave, ApplyThrows,
       RequestOf, Request
  <2>3. ASSUME NEW r \in Runs, OnLockReply(r) \/ OnSaveReply(r) \/ OnUnlockReply(r) PROVE TypeOK'
    BY <2>3 DEF TypeOK, Versions, MainStates, ProcStates, OnLockReply, OnSaveReply, OnUnlockReply,
       RequestOf, Request
  <2>4. ASSUME NEW r \in Runs, Signal(r) \/ SendRelease(r) \/ OnReleaseReply(r) \/ Crash(r) PROVE TypeOK'
    BY <2>4 DEF TypeOK, Versions, MainStates, ProcStates, Signal, SendRelease, OnReleaseReply, Crash,
       RequestOf, Request
  <2>5. ASSUME NEW m \in requests, TakeLock(m) \/ TakeUnlock(m) \/ TakeSave(m) PROVE TypeOK'
    <3>1. m \in Request
      BY DEF TypeOK
    <3>2. \A ok \in BOOLEAN : ReplyTo(m, ok) \in Reply
      BY <3>1 DEF Request, Reply, ReplyTo
    <3>3. (lock = NoRun) \in BOOLEAN
      OBVIOUS
    <3>4. m.run \in Runs
      BY <3>1 DEF Request
    <3>5. CASE TakeLock(m)
      BY <3>2, <3>3, <3>4, <3>5 DEF TypeOK, Versions, TakeLock
    <3>6. CASE TakeUnlock(m)
      BY <3>2, <3>6 DEF TypeOK, Versions, TakeUnlock
    <3>7. CASE TakeSave(m)
      BY <3>2, <3>4, <3>7 DEF TypeOK, Versions, TakeSave
    <3>q. QED BY <2>5, <3>5, <3>6, <3>7
  <2>6. ASSUME NEW m \in replies, LoseReply(m) PROVE TypeOK'
    BY <2>6 DEF TypeOK, LoseReply, RequestOf, Request, Reply
  <2>7. CASE UNCHANGED vars
    BY <2>7 DEF TypeOK, vars
  <2>q. QED
    BY <2>1, <2>2, <2>3, <2>4, <2>5, <2>6, <2>7
       DEF Next, MainStep, HandlerStep, ServiceStep, Finished
<1>q. QED
  BY <1>1, <1>2, PTL DEF Safety

-----------------------------------------------------------------------------
\* What one step of the protocol does to the inductive invariant.
LEMMA InductiveStep ==
  ASSUME IInv, [Next]_vars, TypeOK'
  PROVE  IInv'
<1> USE DEF IInv
<1>a. \A m \in requests : m.run \in Runs /\ m.kind \in {"lock", "unlock", "save"}
  BY DEF TypeOK, Request
<1>b. \A n \in replies : n.run \in Runs /\ n.kind \in {"lock", "unlock", "save"}
  BY DEF TypeOK, Reply
<1>e. \A m \in requests : m.from \in {"main", "signal"}
  BY DEF TypeOK, Request
<1>f. \A n \in replies : n.from \in {"main", "signal"}
  BY DEF TypeOK, Reply
<1>c. main \in [Runs -> MainStates] /\ proc \in [Runs -> ProcStates] /\ seen \in [Runs -> Versions]
  BY DEF TypeOK
<1>d. \A m, k \in requests : m.kind = k.kind /\ m.kind # "unlock" /\ m.run = k.run => m = k
  BY <1>e DEF TypeOK, Request, SignalMessages
<1>1. ASSUME NEW r \in Runs, Load(r) \/ Abort(r) \/ EnterPerform(r) PROVE IInv'
  BY <1>1, <1>a, <1>b, <1>c DEF Load, Abort, EnterPerform, SignalMessages, PutInFlight, OneReply, ReleaseInFlight,
     ReleaseAnswered, SaveInFlight, CriticalHoldsLock, Critical, PlanIsCurrent, NoInterruption, Interrupted
<1>2. ASSUME NEW r \in Runs, SendLock(r) PROVE IInv'
  BY <1>2, <1>a, <1>b, <1>c DEF SendLock, RequestOf, SignalMessages, PutInFlight, OneReply, ReleaseInFlight,
     ReleaseAnswered, SaveInFlight, CriticalHoldsLock, Critical, PlanIsCurrent, NoInterruption, Interrupted
<1>3. ASSUME NEW r \in Runs, OnLockReply(r) PROVE IInv'
  BY <1>3, <1>a, <1>b, <1>c DEF OnLockReply, SignalMessages, PutInFlight, OneReply, ReleaseInFlight,
     ReleaseAnswered, SaveInFlight, CriticalHoldsLock, Critical, PlanIsCurrent, NoInterruption, Interrupted
<1>4. ASSUME NEW r \in Runs, Check(r) PROVE IInv'
  BY <1>4, <1>a, <1>b, <1>c DEF Check, RequestOf, SignalMessages, PutInFlight, OneReply, ReleaseInFlight,
     ReleaseAnswered, SaveInFlight, CriticalHoldsLock, Critical, PlanIsCurrent, NoInterruption, Interrupted
<1>5. ASSUME NEW r \in Runs, SendSave(r) PROVE IInv'
  BY <1>5, <1>a, <1>b, <1>c DEF SendSave, RequestOf, SignalMessages, PutInFlight, OneReply, ReleaseInFlight,
     ReleaseAnswered, SaveInFlight, CriticalHoldsLock, Critical, PlanIsCurrent, NoInterruption, Interrupted
<1>6. ASSUME NEW r \in Runs, ApplyThrows(r) PROVE IInv'
  BY <1>6, <1>a, <1>b, <1>c DEF ApplyThrows, RequestOf, SignalMessages, PutInFlight, OneReply, ReleaseInFlight,
     ReleaseAnswered, SaveInFlight, CriticalHoldsLock, Critical, PlanIsCurrent, NoInterruption, Interrupted
<1>7. ASSUME NEW r \in Runs, OnSaveReply(r) PROVE IInv'
  BY <1>7, <1>a, <1>b, <1>c DEF OnSaveReply, RequestOf, SignalMessages, PutInFlight, OneReply, ReleaseInFlight,
     ReleaseAnswered, SaveInFlight, CriticalHoldsLock, Critical, PlanIsCurrent, NoInterruption, Interrupted
<1>8. ASSUME NEW r \in Runs, OnUnlockReply(r) PROVE IInv'
  BY <1>8, <1>a, <1>b, <1>c DEF OnUnlockReply, SignalMessages, PutInFlight, OneReply, ReleaseInFlight,
     ReleaseAnswered, SaveInFlight, CriticalHoldsLock, Critical, PlanIsCurrent, NoInterruption, Interrupted
<1>9. ASSUME NEW r \in Runs, Signal(r) \/ SendRelease(r) \/ OnReleaseReply(r) PROVE IInv'
  <2>1. Interrupted(r)' /\ \A q \in Runs : Interrupted(q) => Interrupted(q)'
    BY <1>9, <1>c DEF Signal, SendRelease, OnReleaseReply, Interrupted
  <2>2. /\ UNCHANGED <<main, lock, stored, seen>>
        /\ \A n \in replies' : n \in replies
        /\ \A m \in requests' : m \in requests \/ (m.kind = "unlock" /\ m.from = "signal" /\ m.run = r)
    BY <1>9 DEF Signal, SendRelease, OnReleaseReply, RequestOf
  <2> QED
    BY <1>a, <1>b, <2>1, <2>2 DEF SignalMessages, PutInFlight, OneReply, ReleaseInFlight, ReleaseAnswered,
       SaveInFlight, CriticalHoldsLock, Critical, PlanIsCurrent, NoInterruption
<1>10. ASSUME NEW r \in Runs, Crash(r) PROVE IInv'
  BY <1>10, <1>a, <1>b, <1>c DEF Crash, SignalMessages, PutInFlight, OneReply, ReleaseInFlight,
     ReleaseAnswered, SaveInFlight, CriticalHoldsLock, Critical, PlanIsCurrent, NoInterruption, Interrupted
<1>11. ASSUME NEW m \in requests, TakeLock(m) PROVE IInv'
  <2> DEFINE n == ReplyTo(m, lock = NoRun)
  <2>1. /\ n.kind = "lock" /\ n.from = "main" /\ n.run = m.run /\ n.run \in Runs
        /\ n.ok => lock = NoRun
    BY <1>11, <1>a, <1>e DEF TakeLock, ReplyTo, SignalMessages
  <2>2. replies' = replies \cup {n} /\ requests' = requests \ {m} /\ UNCHANGED <<main, proc, seen, stored>>
    BY <1>11 DEF TakeLock
  <2>3. main[m.run] = "locking" /\ \A o \in replies : o.kind = "lock" => o.run # m.run
    BY <1>11 DEF TakeLock, PutInFlight
  <2>4. lock # NoRun => lock' = lock
    BY <1>11 DEF TakeLock
  <2>5. lock = NoRun => lock' = m.run
    BY <1>11 DEF TakeLock
  <2> HIDE DEF n
  <2>6. PutInFlight'
    <3>1. \A k \in requests' : k.kind = "lock" => k.run # m.run
      BY <1>d, <1>11, <2>2 DEF TakeLock
    <3>2. \A o \in replies : o.kind = "lock" /\ o.ok /\ ~Interrupted(o.run) => lock # NoRun
      BY <1>b, ConstantsAssumption DEF PutInFlight
    <3> QED
      BY <2>1, <2>2, <2>3, <2>4, <2>5, <3>1, <3>2 DEF PutInFlight, Interrupted
  <2>7. OneReply'
    BY <2>1, <2>2, <2>3 DEF OneReply
  <2>8. CriticalHoldsLock'
    BY <2>2, <2>4, ConstantsAssumption DEF CriticalHoldsLock, Critical, Interrupted
  <2> QED
    BY <2>1, <2>2, <2>6, <2>7, <2>8 DEF SignalMessages, ReleaseInFlight, ReleaseAnswered, SaveInFlight, PlanIsCurrent,
       NoInterruption, Interrupted
<1>12. ASSUME NEW m \in requests, TakeUnlock(m) PROVE IInv'
  <2> DEFINE n == ReplyTo(m, TRUE)
  <2>1. n.kind = "unlock" /\ n.from = m.from /\ n.run = m.run /\ n.run \in Runs
    BY <1>12, <1>a DEF TakeUnlock, ReplyTo
  <2>2. replies' = replies \cup {n} /\ requests' = requests \ {m} /\ UNCHANGED <<main, proc, seen, stored>>
    BY <1>12 DEF TakeUnlock
  <2>3. main[m.run] \in {"unlocking", "ended"} \/ Interrupted(m.run)
    BY <1>12, <1>e DEF TakeUnlock, ReleaseInFlight, SignalMessages
  <2>4. lock # m.run => lock' = lock
    BY <1>12 DEF TakeUnlock
  <2>5. /\ m.from = "signal" => Interrupted(m.run)
        /\ m.from = "main" => main[m.run] \in {"unlocking", "ended"}
    BY <1>12 DEF TakeUnlock, ReleaseInFlight, SignalMessages
  <2> HIDE DEF n
  <2>6. PutInFlight'
    BY <1>b, <2>1, <2>2, <2>3, <2>4 DEF PutInFlight, Interrupted
  <2>7. CriticalHoldsLock'
    BY <1>a, <2>2, <2>3, <2>4 DEF CriticalHoldsLock, Critical, Interrupted
  <2>8. SignalMessages' /\ ReleaseAnswered'
    BY <2>1, <2>2, <2>5 DEF SignalMessages, ReleaseAnswered, Interrupted
  <2> QED
    BY <2>1, <2>2, <2>6, <2>7, <2>8 DEF OneReply, ReleaseInFlight, SaveInFlight, PlanIsCurrent, NoInterruption, Interrupted
<1>13. ASSUME NEW m \in requests, TakeSave(m) PROVE IInv'
  <2> DEFINE n == ReplyTo(m, TRUE)
  <2>1. n.kind = "save" /\ n.from = "main" /\ n.run = m.run /\ n.run \in Runs
    BY <1>13, <1>a, <1>e DEF TakeSave, ReplyTo, SignalMessages
  <2>2. /\ replies' = replies \cup {n} /\ requests' = requests \ {m} /\ stored' = m.run
        /\ UNCHANGED <<main, proc, seen, lock>>
    BY <1>13 DEF TakeSave
  <2>3. main[m.run] = "saving" /\ \A o \in replies : o.kind = "save" => o.run # m.run
    BY <1>13 DEF TakeSave, SaveInFlight
  <2>4. \A k \in requests' : k.kind = "save" => k.run # m.run
    BY <1>d, <1>13, <2>2 DEF TakeSave
  <2> HIDE DEF n
  <2>5. SaveInFlight'
    BY <2>1, <2>2, <2>3, <2>4 DEF SaveInFlight
  <2>6. OneReply'
    BY <2>1, <2>2, <2>3 DEF OneReply
  <2>7. PlanIsCurrent'
    <3>1. NoInterruption => \A r \in Runs : main[r] \in {"applying", "saving"} => r = m.run
      BY <1>a, <2>3 DEF CriticalHoldsLock, Critical, NoInterruption
    <3>2. NoInterruption' => NoInterruption
      BY <2>2 DEF NoInterruption, Interrupted
    <3> QED
      BY <2>2, <2>3, <3>1, <3>2 DEF PlanIsCurrent
  <2> QED
    BY <2>1, <2>2, <2>5, <2>6, <2>7 DEF SignalMessages, PutInFlight, ReleaseInFlight, ReleaseAnswered, CriticalHoldsLock,
       Critical, Interrupted
<1>14. ASSUME NEW m \in replies, LoseReply(m) PROVE IInv'
  BY <1>14, <1>a, <1>b, <1>c DEF LoseReply, RequestOf, SignalMessages, PutInFlight, OneReply,
     ReleaseInFlight, ReleaseAnswered, SaveInFlight, CriticalHoldsLock, Critical, PlanIsCurrent, NoInterruption, Interrupted
<1>15. CASE UNCHANGED vars
  BY <1>15 DEF vars, TypeOK, SignalMessages, PutInFlight, OneReply, ReleaseInFlight, ReleaseAnswered, SaveInFlight,
     CriticalHoldsLock, Critical, PlanIsCurrent, NoInterruption, Interrupted
<1>q. QED
  BY <1>1, <1>2, <1>3, <1>4, <1>5, <1>6, <1>7, <1>8, <1>9, <1>10, <1>11, <1>12, <1>13, <1>14, <1>15
     DEF Next, MainStep, HandlerStep, ServiceStep, Finished

LEMMA Inductive == Safety => []IInv
<1>1. Init => IInv
  <2> SUFFICES ASSUME Init PROVE IInv
    OBVIOUS
  <2>1. TypeOK
    BY ConstantsAssumption DEF Init, TypeOK, Versions, MainStates, ProcStates
  <2> QED
    BY <2>1 DEF Init, IInv, SignalMessages, PutInFlight, OneReply, ReleaseInFlight, ReleaseAnswered, SaveInFlight,
       CriticalHoldsLock, Critical, PlanIsCurrent, NoInterruption, Interrupted
<1>2. IInv /\ [Next]_vars /\ TypeOK' => IInv'
  BY InductiveStep
<1>q. QED
  BY <1>1, <1>2, TypeCorrect, PTL DEF Safety

\* At most one run is between taking the lock and releasing it (perform.ts), whatever the number of runs and
\* however many of them crash; only a run interrupted by a signal may be there beside the owner.
THEOREM LockExcludes == Safety => []MutualExclusion
<1>1. IInv => MutualExclusion
  BY DEF IInv, CriticalHoldsLock, MutualExclusion
<1>q. QED
  BY <1>1, Inductive, PTL

\* What a step does to the stored state: nothing, or a run replaces the version it planned from by its own.
LEMMA StoreStep ==
  ASSUME NoInterruption, IInv, [Next]_vars
  PROVE  \/ UNCHANGED stored
         \/ /\ UNCHANGED seen
            /\ \E r \in Runs : stored' = r /\ stored = seen[r]
<1>1. ASSUME NEW m \in requests, TakeSave(m)
      PROVE  \/ UNCHANGED stored
             \/ UNCHANGED seen /\ \E r \in Runs : stored' = r /\ stored = seen[r]
  <2>1. m.run \in Runs
    BY DEF IInv, TypeOK, Request
  <2>2. main[m.run] = "saving"
    BY <1>1 DEF TakeSave, IInv, SaveInFlight
  <2>3. stored \in {seen[m.run], m.run}
    BY <2>1, <2>2 DEF IInv, PlanIsCurrent
  <2> QED
    BY <1>1, <2>1, <2>3 DEF TakeSave
<1>2. CASE UNCHANGED vars
  BY <1>2 DEF vars
<1>q. QED
  BY <1>1, <1>2 DEF Next, MainStep, HandlerStep, ServiceStep, Finished, Load, Abort, EnterPerform, SendLock,
     OnLockReply, Check, SendSave, ApplyThrows, OnSaveReply, OnUnlockReply, Signal, SendRelease, OnReleaseReply,
     Crash, TakeLock, TakeUnlock, LoseReply

\* Until a run is interrupted, a save only ever replaces the state its plan was made from
\* (assertStateUnchanged under the lock).
THEOREM NoLostUpdate == Safety => SavesExtendTheirPlan
<1>1. IInv /\ [Next]_vars
        => [NoInterruption /\ stored' # stored => stored' \in Runs /\ stored = seen[stored']]_vars
  BY StoreStep
<1>q. QED
  BY <1>1, Inductive, PTL DEF Safety, SavesExtendTheirPlan

-----------------------------------------------------------------------------
\* What one step does to the state that a run has checked: only a run that was interrupted saves under another's lock.
LEMMA CheckedStep ==
  ASSUME IInv, CheckedStateStands, [Next]_vars
  PROVE  CheckedStateStands'
<1>a. \A m \in requests : m.run \in Runs
  BY DEF IInv, TypeOK, Request
<1>b. main \in [Runs -> MainStates] /\ proc \in [Runs -> ProcStates] /\ seen \in [Runs -> Versions]
  BY DEF IInv, TypeOK
<1> USE DEF CheckedStateStands
<1>1. ASSUME NEW r \in Runs, Load(r) \/ Abort(r) \/ EnterPerform(r) \/ SendLock(r) \/ OnLockReply(r)
      PROVE  CheckedStateStands'
  BY <1>1, <1>b DEF Load, Abort, EnterPerform, SendLock, OnLockReply, Interrupted
<1>2. ASSUME NEW r \in Runs, Check(r) \/ SendSave(r) \/ ApplyThrows(r) \/ OnSaveReply(r) \/ OnUnlockReply(r)
      PROVE  CheckedStateStands'
  BY <1>2, <1>b DEF Check, SendSave, ApplyThrows, OnSaveReply, OnUnlockReply, Interrupted
<1>3. ASSUME NEW r \in Runs, Signal(r) \/ SendRelease(r) \/ OnReleaseReply(r) \/ Crash(r) PROVE CheckedStateStands'
  <2>1. UNCHANGED <<main, lock, stored, seen>> /\ \A q \in Runs : Interrupted(q) => Interrupted(q)'
    BY <1>3, <1>b DEF Signal, SendRelease, OnReleaseReply, Crash, Interrupted
  <2> QED
    BY <2>1
<1>4. ASSUME NEW m \in requests, TakeLock(m) PROVE CheckedStateStands'
  <2>1. main[m.run] = "locking" /\ lock' \in {lock, m.run} /\ UNCHANGED <<main, proc, seen, stored>>
    BY <1>4 DEF IInv, PutInFlight, TakeLock
  <2> QED
    BY <2>1 DEF Interrupted
<1>5. ASSUME NEW m \in requests, TakeUnlock(m) PROVE CheckedStateStands'
  BY <1>5, ConstantsAssumption DEF TakeUnlock, Interrupted
<1>6. ASSUME NEW m \in requests, TakeSave(m) PROVE CheckedStateStands'
  <2>1. main[m.run] = "saving" /\ stored' = m.run /\ UNCHANGED <<main, proc, lock>> /\ m.run \in Runs
    BY <1>6, <1>a DEF IInv, SaveInFlight, TakeSave
  <2>2. Interrupted(m.run) \/ lock = m.run
    BY <2>1 DEF IInv, CriticalHoldsLock, Critical
  <2> QED
    BY <2>1, <2>2 DEF Interrupted
<1>7. ASSUME NEW m \in replies, LoseReply(m) PROVE CheckedStateStands'
  BY <1>7 DEF LoseReply, Interrupted
<1>8. CASE UNCHANGED vars
  BY <1>8 DEF vars, Interrupted
<1>q. QED
  BY <1>1, <1>2, <1>3, <1>4, <1>5, <1>6, <1>7, <1>8 DEF Next, MainStep, HandlerStep, ServiceStep, Finished

\* The state that a run checked under the lock stays in place while it applies and holds the lock, whatever the number
\* of runs, crashes and lost replies; only a run whose shutdown handler gave the lock away may still save over it.
THEOREM CheckedStands == Safety => []CheckedStateStands
<1>1. Init => CheckedStateStands
  BY DEF Init, CheckedStateStands
<1>2. IInv /\ CheckedStateStands /\ [Next]_vars => CheckedStateStands'
  BY CheckedStep
<1>q. QED
  BY <1>1, <1>2, Inductive, PTL DEF Safety

-----------------------------------------------------------------------------
(***************************************************************************)
(* Who takes the lock away.  IInv does not say that a release leaves with  *)
(* its run still waiting for the answer; that needs the releases in flight *)
(* to be counted: one request or one reply for each, never both.           *)
(***************************************************************************)

Releases(messages) == {m \in messages : m.kind = "unlock"}

\* A release of the main flow has a single message in flight, while the run waits for it; one of the handler is in
\* flight only after the handler has sent it.
ReleaseAwaited ==
  /\ \A m \in Releases(requests) \cup Releases(replies) :
       IF m.from = "main" THEN main[m.run] = "unlocking" ELSE proc[m.run] \in {"releasing", "exited"}
  /\ \A m \in Releases(requests), n \in Releases(replies) : m.from = "main" /\ n.from = "main" => m.run # n.run
  /\ \A n, o \in Releases(replies) : n.from = "main" /\ o.from = "main" /\ n.run = o.run => n = o

\* What one step does to the releases in flight.
LEMMA ReleaseStep ==
  ASSUME TypeOK, ReleaseAwaited, [Next]_vars
  PROVE  ReleaseAwaited'
<1>a. \A m \in requests : m.run \in Runs /\ m.kind \in {"lock", "unlock", "save"} /\ m.from \in {"main", "signal"}
  BY DEF TypeOK, Request
<1>b. \A n \in replies : n.run \in Runs /\ n.kind \in {"lock", "unlock", "save"} /\ n.from \in {"main", "signal"}
  BY DEF TypeOK, Reply
<1>c. main \in [Runs -> MainStates] /\ proc \in [Runs -> ProcStates]
  BY DEF TypeOK
<1>d. \A m, k \in requests : m.kind = k.kind /\ m.from = k.from /\ m.run = k.run => m = k
  BY DEF TypeOK, Request
<1> USE DEF ReleaseAwaited, Releases
<1>1. ASSUME NEW r \in Runs, Load(r) \/ Abort(r) \/ EnterPerform(r) \/ SendLock(r) \/ OnLockReply(r) \/ SendSave(r)
      PROVE  ReleaseAwaited'
  BY <1>1, <1>a, <1>b, <1>c DEF Load, Abort, EnterPerform, SendLock, OnLockReply, SendSave, RequestOf
<1>2. ASSUME NEW r \in Runs, Check(r) \/ ApplyThrows(r) \/ OnSaveReply(r) PROVE ReleaseAwaited'
  BY <1>2, <1>a, <1>b, <1>c DEF Check, ApplyThrows, OnSaveReply, RequestOf
<1>3. ASSUME NEW r \in Runs, OnUnlockReply(r) PROVE ReleaseAwaited'
  BY <1>3, <1>a, <1>b, <1>c DEF OnUnlockReply
<1>4. ASSUME NEW r \in Runs, Signal(r) \/ SendRelease(r) \/ OnReleaseReply(r) \/ Crash(r) PROVE ReleaseAwaited'
  BY <1>4, <1>a, <1>b, <1>c DEF Signal, SendRelease, OnReleaseReply, Crash, RequestOf
<1>5. ASSUME NEW m \in requests, TakeLock(m) \/ TakeSave(m) PROVE ReleaseAwaited'
  BY <1>5, <1>a, <1>b DEF TakeLock, TakeSave, ReplyTo
<1>6. ASSUME NEW m \in requests, TakeUnlock(m) PROVE ReleaseAwaited'
  <2> DEFINE n == ReplyTo(m, TRUE)
  <2>1. n.kind = "unlock" /\ n.from = m.from /\ n.run = m.run
    BY <1>6 DEF TakeUnlock, ReplyTo
  <2>2. replies' = replies \cup {n} /\ requests' = requests \ {m} /\ UNCHANGED <<main, proc>> /\ m.kind = "unlock"
    BY <1>6 DEF TakeUnlock
  <2> HIDE DEF n
  <2> QED
    BY <1>a, <1>b, <1>d, <2>1, <2>2
<1>7. ASSUME NEW m \in replies, LoseReply(m) PROVE ReleaseAwaited'
  BY <1>7, <1>a, <1>b DEF LoseReply, RequestOf
<1>8. CASE UNCHANGED vars
  BY <1>8 DEF vars
<1>q. QED
  BY <1>1, <1>2, <1>3, <1>4, <1>5, <1>6, <1>7, <1>8 DEF Next, MainStep, HandlerStep, ServiceStep, Finished

\* A lock is only taken away from a run that asked for it, by its main flow past the callback or by its shutdown
\* handler, and no other run's release, however late or repeated, removes it (releaseExclusiveLock: owner_id).
THEOREM OwnerReleases == Safety => OnlyTheOwnerReleases
<1>1. Init => ReleaseAwaited
  BY DEF Init, ReleaseAwaited, Releases
<1>2. TypeOK /\ ReleaseAwaited /\ [Next]_vars => ReleaseAwaited'
  BY ReleaseStep
<1>3. TypeOK /\ ReleaseAwaited /\ [Next]_vars
        => [\A r \in Runs :
              lock = r /\ lock' # r => main[r] = "unlocking" \/ proc[r] \in {"releasing", "exited"}]_vars
  <2> SUFFICES ASSUME TypeOK, ReleaseAwaited, [Next]_vars, NEW r \in Runs, lock = r, lock' # r
               PROVE  main[r] = "unlocking" \/ proc[r] \in {"releasing", "exited"}
    OBVIOUS
  <2>1. PICK m \in requests : TakeUnlock(m)
    BY ConstantsAssumption DEF Next, MainStep, HandlerStep, ServiceStep, Finished, vars, Load, Abort, EnterPerform,
       SendLock, OnLockReply, Check, SendSave, ApplyThrows, OnSaveReply, OnUnlockReply, Signal, SendRelease,
       OnReleaseReply, Crash, TakeLock, TakeSave, LoseReply
  <2>2. m.run = r /\ m.kind = "unlock"
    BY <2>1 DEF TakeUnlock
  <2> QED
    BY <2>2 DEF ReleaseAwaited, Releases
<1>q. QED
  BY <1>1, <1>2, <1>3, TypeCorrect, PTL DEF Safety, OnlyTheOwnerReleases

-----------------------------------------------------------------------------
\* Without signals no run is ever interrupted.
LEMMA NeverInterrupted ==
  ASSUME MaySignal = FALSE
  PROVE  Safety => []NoInterruption
<1>1. Init => NoInterruption
  BY DEF Init, NoInterruption, Interrupted
<1>2. TypeOK /\ NoInterruption /\ [Next]_vars => NoInterruption'
  BY DEF TypeOK, NoInterruption, Interrupted, Next, MainStep, HandlerStep, ServiceStep, Finished, vars, Load, Abort,
     EnterPerform, SendLock, OnLockReply, Check, SendSave, ApplyThrows, OnSaveReply, OnUnlockReply, Signal,
     SendRelease, OnReleaseReply, Crash, TakeLock, TakeUnlock, TakeSave, LoseReply
<1>q. QED
  BY <1>1, <1>2, TypeCorrect, PTL DEF Safety

\* The protocol implements the linear history of StateHistory: a load is a plan, the store's write a commit,
\* and every other step leaves the history alone.
THEOREM ImplementsHistory ==
  ASSUME MaySignal = FALSE
  PROVE  Safety => StateIsLinear
<1>1. Init => History!Init
  BY DEF Init, History!Init
<1>2. NoInterruption /\ IInv /\ [Next]_vars => [History!Next]_<<stored, seen>>
  <2> SUFFICES ASSUME NoInterruption, IInv, [Next]_vars PROVE [History!Next]_<<stored, seen>>
    OBVIOUS
  <2>1. CASE \E r \in Runs : Load(r)
    BY <2>1 DEF Load, History!Next, History!Plan
  <2>2. CASE UNCHANGED seen
    BY <2>2, StoreStep DEF History!Next, History!Commit
  <2>q. QED
    BY <2>1, <2>2 DEF Next, MainStep, HandlerStep, ServiceStep, Finished, vars, Abort, EnterPerform, SendLock,
       OnLockReply, Check, SendSave, ApplyThrows, OnSaveReply, OnUnlockReply, Signal, SendRelease, OnReleaseReply,
       Crash, TakeLock, TakeUnlock, TakeSave, LoseReply
<1>q. QED
  BY <1>1, <1>2, Inductive, NeverInterrupted, PTL DEF Safety, StateIsLinear, History!Spec
=============================================================================
