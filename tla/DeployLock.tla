----------------------------- MODULE DeployLock -----------------------------
(***************************************************************************)
(* The deploy protocol: concurrent runs of `ez4 deploy` / `ez4 destroy`    *)
(* that share one stored state (an S3 object, or a file) and one exclusive *)
(* lock (a DynamoDB item).                                                 *)
(*                                                                         *)
(* A run loads the state, plans, waits for the confirmation, takes the     *)
(* lock, checks that the state is still the one it planned from, applies,  *)
(* saves and releases the lock.  SIGINT / SIGTERM start a shutdown handler *)
(* that releases the lock and exits while the main flow is still running.  *)
(* Requests to the two services are messages in flight: a service takes    *)
(* them in any order, a reply may be lost and the request sent again (the  *)
(* clients are built with maxAttempts: 10), and they outlive the process.  *)
(*                                                                         *)
(* A stored state is identified by the run that wrote it: every save has   *)
(* its own lastUpdate, so two saves never have one checksum.               *)
(***************************************************************************)
EXTENDS Naturals

CONSTANTS
  Runs,        \* the runs of the command (the ownerId of each is unique)
  NoRun,       \* "no owner" for the lock, "nothing stored yet" for the state
  MaySignal,   \* whether SIGINT / SIGTERM reach a run
  MayCrash,    \* whether a run may be killed with no handler running
  MaxLost      \* how many replies the network may lose

ASSUME ConstantsAssumption ==
  /\ NoRun \notin Runs
  /\ MaySignal \in BOOLEAN
  /\ MayCrash \in BOOLEAN
  /\ MaxLost \in Nat

VARIABLES
  main,      \* where the command's main flow is
  proc,      \* the process: running, or how far its shutdown handler is
  seen,      \* the checksum the run planned from
  lock,      \* the lock table: the owner of the item, or NoRun
  stored,    \* the stored state: the run that wrote it, or NoRun
  requests,  \* requests a service has yet to take
  replies,   \* replies a run has yet to receive
  lost       \* replies lost so far

vars == <<main, proc, seen, lock, stored, requests, replies, lost>>

Versions == Runs \cup {NoRun}

MainStates ==
  {"start", "planned", "preparing", "locking", "checking", "applying", "saving", "unlocking", "refused", "ended"}

ProcStates == {"running", "signalled", "releasing", "exited", "crashed"}

Request == [kind : {"lock", "unlock", "save"}, from : {"main", "signal"}, run : Runs]
Reply == [kind : {"lock", "unlock", "save"}, from : {"main", "signal"}, run : Runs, ok : BOOLEAN]

Alive(r) == proc[r] \notin {"exited", "crashed"}
Interrupted(r) == proc[r] \in {"signalled", "releasing", "exited"}

RequestOf(r, kind, from) == [kind |-> kind, from |-> from, run |-> r]
ReplyTo(m, ok) == [kind |-> m.kind, from |-> m.from, run |-> m.run, ok |-> ok]

TypeOK ==
  /\ main \in [Runs -> MainStates]
  /\ proc \in [Runs -> ProcStates]
  /\ seen \in [Runs -> Versions]
  /\ lock \in Versions
  /\ stored \in Versions
  /\ requests \subseteq Request
  /\ replies \subseteq Reply
  /\ lost \in 0..MaxLost

Init ==
  /\ main = [r \in Runs |-> "start"]
  /\ proc = [r \in Runs |-> "running"]
  /\ seen = [r \in Runs |-> NoRun]
  /\ lock = NoRun
  /\ stored = NoRun
  /\ requests = {}
  /\ replies = {}
  /\ lost = 0

-----------------------------------------------------------------------------
(* The command                                                             *)

\* loadState before the plan: the checksum is kept for the check under the lock.
Load(r) ==
  /\ Alive(r) /\ main[r] = "start"
  /\ main' = [main EXCEPT ![r] = "planned"]
  /\ seen' = [seen EXCEPT ![r] = stored]
  /\ UNCHANGED <<proc, lock, stored, requests, replies, lost>>

\* No changes, --plan, or the confirmation declined.
Abort(r) ==
  /\ Alive(r) /\ main[r] = "planned"
  /\ main' = [main EXCEPT ![r] = "ended"]
  /\ UNCHANGED <<proc, seen, lock, stored, requests, replies, lost>>

\* performDeploy installs the signal handlers, then makes sure the lock table is there.
EnterPerform(r) ==
  /\ Alive(r) /\ main[r] = "planned"
  /\ main' = [main EXCEPT ![r] = "preparing"]
  /\ UNCHANGED <<proc, seen, lock, stored, requests, replies, lost>>

\* acquireExclusiveLock sends the conditional put.
SendLock(r) ==
  /\ Alive(r) /\ main[r] = "preparing"
  /\ main' = [main EXCEPT ![r] = "locking"]
  /\ requests' = requests \cup {RequestOf(r, "lock", "main")}
  /\ UNCHANGED <<proc, seen, lock, stored, replies, lost>>

\* The answer to the put: isLocked is set and the callback starts, or the trigger throws and there is
\* nothing to release (isLocked is TRUE exactly from "checking" to "unlocking").
OnLockReply(r) ==
  /\ Alive(r) /\ main[r] = "locking"
  /\ \E m \in replies :
       /\ m.run = r /\ m.kind = "lock"
       /\ replies' = replies \ {m}
       /\ main' = [main EXCEPT ![r] = IF m.ok THEN "checking" ELSE "refused"]
  /\ UNCHANGED <<proc, seen, lock, stored, requests, lost>>

\* Mutant: the state is applied without being checked again.
CheckNothing(r) ==
  /\ Alive(r) /\ main[r] = "checking"
  /\ main' = [main EXCEPT ![r] = "applying"]
  /\ UNCHANGED <<proc, seen, lock, stored, requests, replies, lost>>

\* Mutant: a state other than the planned one is polled instead of refused.
CheckPolls(r) ==
  /\ Alive(r) /\ main[r] = "checking"
  /\ main' = [main EXCEPT ![r] = IF stored = seen[r] THEN "applying" ELSE "checking"]
  /\ UNCHANGED <<proc, seen, lock, stored, requests, replies, lost>>

\* assertStateUnchanged: a state other than the planned one throws, and the finally block releases the lock.
Check(r) ==
  /\ Alive(r) /\ main[r] = "checking"
  /\ \/ /\ stored = seen[r]
        /\ main' = [main EXCEPT ![r] = "applying"]
        /\ UNCHANGED requests
     \/ /\ stored # seen[r]
        /\ main' = [main EXCEPT ![r] = "unlocking"]
        /\ requests' = requests \cup {RequestOf(r, "unlock", "main")}
  /\ UNCHANGED <<proc, seen, lock, stored, replies, lost>>

\* applyDeploy returned (with errors collected or not): the result is sent to the state store.
SendSave(r) ==
  /\ Alive(r) /\ main[r] = "applying"
  /\ main' = [main EXCEPT ![r] = "saving"]
  /\ requests' = requests \cup {RequestOf(r, "save", "main")}
  /\ UNCHANGED <<proc, seen, lock, stored, replies, lost>>

\* applyDeploy threw (no provider, no handler for a type): nothing is saved, the lock is released.
ApplyThrows(r) ==
  /\ Alive(r) /\ main[r] = "applying"
  /\ main' = [main EXCEPT ![r] = "unlocking"]
  /\ requests' = requests \cup {RequestOf(r, "unlock", "main")}
  /\ UNCHANGED <<proc, seen, lock, stored, replies, lost>>

\* Mutant: the lock is released while the save is still in flight (a missing await).
SaveNotAwaited(r) ==
  /\ Alive(r) /\ main[r] = "saving"
  /\ main' = [main EXCEPT ![r] = "unlocking"]
  /\ requests' = requests \cup {RequestOf(r, "unlock", "main")}
  /\ UNCHANGED <<proc, seen, lock, stored, replies, lost>>

\* Mutant: nothing releases the lock after the save.
SavedKeepsLock(r) ==
  /\ Alive(r) /\ main[r] = "saving"
  /\ \E m \in replies :
       /\ m.run = r /\ m.kind = "save"
       /\ replies' = replies \ {m}
  /\ main' = [main EXCEPT ![r] = "ended"]
  /\ UNCHANGED <<proc, seen, lock, stored, requests, lost>>

\* The state is saved: the finally block sends the release.
OnSaveReply(r) ==
  /\ Alive(r) /\ main[r] = "saving"
  /\ \E m \in replies :
       /\ m.run = r /\ m.kind = "save"
       /\ replies' = replies \ {m}
  /\ main' = [main EXCEPT ![r] = "unlocking"]
  /\ requests' = requests \cup {RequestOf(r, "unlock", "main")}
  /\ UNCHANGED <<proc, seen, lock, stored, lost>>

\* The release answered: the signal handlers are removed and the command ends.
OnUnlockReply(r) ==
  /\ Alive(r) /\ main[r] = "unlocking"
  /\ \E m \in replies :
       /\ m.run = r /\ m.kind = "unlock" /\ m.from = "main"
       /\ replies' = replies \ {m}
  /\ main' = [main EXCEPT ![r] = "ended"]
  /\ UNCHANGED <<proc, seen, lock, stored, requests, lost>>

-----------------------------------------------------------------------------
(* Signals and crashes                                                     *)

InPerform(r) == main[r] \in {"preparing", "locking", "checking", "applying", "saving", "unlocking"}

\* handleShutdown starts; the main flow goes on meanwhile.
Signal(r) ==
  /\ MaySignal
  /\ proc[r] = "running" /\ InPerform(r)
  /\ proc' = [proc EXCEPT ![r] = "signalled"]
  /\ UNCHANGED <<main, seen, lock, stored, requests, replies, lost>>

\* releaseLock from the handler: sent whether or not the lock is held.
SendRelease(r) ==
  /\ proc[r] = "signalled"
  /\ proc' = [proc EXCEPT ![r] = "releasing"]
  /\ requests' = requests \cup {RequestOf(r, "unlock", "signal")}
  /\ UNCHANGED <<main, seen, lock, stored, replies, lost>>

\* The handler's release answered: process.exit(0), whatever the main flow is doing.
OnReleaseReply(r) ==
  /\ proc[r] = "releasing"
  /\ \E m \in replies :
       /\ m.run = r /\ m.kind = "unlock" /\ m.from = "signal"
       /\ replies' = replies \ {m}
  /\ proc' = [proc EXCEPT ![r] = "exited"]
  /\ UNCHANGED <<main, seen, lock, stored, requests, lost>>

\* The process dies with no handler running.
Crash(r) ==
  /\ MayCrash
  /\ proc[r] = "running" /\ main[r] # "ended"
  /\ proc' = [proc EXCEPT ![r] = "crashed"]
  /\ UNCHANGED <<main, seen, lock, stored, requests, replies, lost>>

-----------------------------------------------------------------------------
(* The services                                                            *)

\* Mutant: the put overwrites whatever lock is there.
TakeLockAlways(m) ==
  /\ m \in requests /\ m.kind = "lock"
  /\ lock' = m.run
  /\ requests' = requests \ {m}
  /\ replies' = replies \cup {ReplyTo(m, TRUE)}
  /\ UNCHANGED <<main, proc, seen, stored, lost>>

\* PutCommand with attribute_not_exists(lock_id): a failed condition answers false.
TakeLock(m) ==
  /\ m \in requests /\ m.kind = "lock"
  /\ lock' = IF lock = NoRun THEN m.run ELSE lock
  /\ requests' = requests \ {m}
  /\ replies' = replies \cup {ReplyTo(m, lock = NoRun)}
  /\ UNCHANGED <<main, proc, seen, stored, lost>>

\* Mutant: the delete carries no owner condition.
TakeUnlockAnyOwner(m) ==
  /\ m \in requests /\ m.kind = "unlock"
  /\ lock' = NoRun
  /\ requests' = requests \ {m}
  /\ replies' = replies \cup {ReplyTo(m, TRUE)}
  /\ UNCHANGED <<main, proc, seen, stored, lost>>

\* DeleteCommand with owner_id = :owner_id: a failed condition is swallowed.
TakeUnlock(m) ==
  /\ m \in requests /\ m.kind = "unlock"
  /\ lock' = IF lock = m.run THEN NoRun ELSE lock
  /\ requests' = requests \ {m}
  /\ replies' = replies \cup {ReplyTo(m, TRUE)}
  /\ UNCHANGED <<main, proc, seen, stored, lost>>

\* PutObjectCommand: the whole state is overwritten.
TakeSave(m) ==
  /\ m \in requests /\ m.kind = "save"
  /\ stored' = m.run
  /\ requests' = requests \ {m}
  /\ replies' = replies \cup {ReplyTo(m, TRUE)}
  /\ UNCHANGED <<main, proc, seen, lock, lost>>

\* A reply that never reaches a living run: the client sends the same request again.
LoseReply(m) ==
  /\ m \in replies /\ Alive(m.run) /\ lost < MaxLost
  /\ lost' = lost + 1
  /\ replies' = replies \ {m}
  /\ requests' = requests \cup {RequestOf(m.run, m.kind, m.from)}
  /\ UNCHANGED <<main, proc, seen, lock, stored>>

-----------------------------------------------------------------------------
MainStep(r) ==
  \/ EnterPerform(r) \/ SendLock(r) \/ OnLockReply(r) \/ Check(r)
  \/ SendSave(r) \/ OnSaveReply(r) \/ OnUnlockReply(r)

HandlerStep(r) == SendRelease(r) \/ OnReleaseReply(r)

ServiceStep == \E m \in requests : TakeLock(m) \/ TakeUnlock(m) \/ TakeSave(m)

\* Every run has ended or exited and nothing is in flight: the protocol is over.
Finished ==
  /\ \A r \in Runs : ~Alive(r) \/ (main[r] \in {"ended", "refused"} /\ proc[r] = "running")
  /\ requests = {}
  /\ UNCHANGED vars

Next ==
  \/ \E r \in Runs :
       \/ Load(r) \/ Abort(r) \/ MainStep(r) \/ ApplyThrows(r)
       \/ Signal(r) \/ HandlerStep(r) \/ Crash(r)
  \/ ServiceStep
  \/ \E m \in replies : LoseReply(m)
  \/ Finished

Safety == Init /\ [][Next]_vars

\* A run that entered performDeploy goes on, and the services answer; nobody has to start a run, abort
\* it, interrupt it or lose a reply.  Only an aborted plan and a run that has not started may wait for
\* ever (for their user).
Fairness ==
  /\ \A r \in Runs :
       /\ WF_vars(SendLock(r) \/ OnLockReply(r) \/ Check(r) \/ SendSave(r) \/ OnSaveReply(r) \/ OnUnlockReply(r))
       /\ WF_vars(HandlerStep(r))
  /\ WF_vars(ServiceStep)

Spec == Safety /\ Fairness

-----------------------------------------------------------------------------
(* Properties                                                              *)

Critical(r) == main[r] \in {"checking", "applying", "saving"}

\* Between taking the lock and releasing it (perform.ts: the callback), no two runs are checking, applying or saving
\* at once, unless one of them was interrupted by a signal: its handler releases the lock under its feet.
MutualExclusion ==
  \A r, s \in Runs :
    Critical(r) /\ Critical(s) /\ ~Interrupted(r) /\ ~Interrupted(s) => r = s

NoInterruption == \A r \in Runs : ~Interrupted(r)

\* Until a run is interrupted, a save replaces exactly the state its plan was made from (utils/state.ts:
\* assertStateUnchanged), so no run's result is ever lost.
SavesExtendTheirPlan ==
  [][NoInterruption /\ stored' # stored => stored' \in Runs /\ stored = seen[stored']]_vars

\* Checked under the lock, the state does not change until the lock is released (utils/state.ts), except by the save
\* of a run whose shutdown handler released the lock while its callback went on (perform.ts).
CheckedStateStands ==
  \A r \in Runs :
    main[r] = "applying" /\ lock = r =>
      stored = seen[r] \/ (stored \in Runs /\ Interrupted(stored))

\* A lock is only ever taken away from a run that asked for it: its main flow is past the callback, or its
\* shutdown handler sent a release (lock.ts: the owner condition of releaseExclusiveLock).
OnlyTheOwnerReleases ==
  [][\A r \in Runs :
       lock = r /\ lock' # r => main[r] = "unlocking" \/ proc[r] \in {"releasing", "exited"}]_vars

History == INSTANCE StateHistory WITH base <- seen

\* The protocol implements the linear history of StateHistory: the checksum a run loads is the base of its
\* plan, and the store's write is the commit.
StateIsLinear == History!Spec

\* Every run that holds the lock gives it back, whatever the check and the apply do.
LockIsReleased ==
  \A r \in Runs : lock = r ~> lock # r

\* Every run that asked for the lock ends: a refused lock and a stale state both stop the command, and no
\* two runs wait for each other.
RunsEnd ==
  \A r \in Runs : main[r] = "preparing" ~> main[r] \in {"ended", "refused"}

\* perform.ts: an interrupted run releases the lock "either way", so once it has exited and all its requests
\* have been taken the lock is not its own.
InterruptedRunLeavesNoLock ==
  \A r \in Runs :
    proc[r] = "exited" /\ (\A m \in requests : m.run # r) => lock # r
=============================================================================
