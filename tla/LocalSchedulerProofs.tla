------------------------ MODULE LocalSchedulerProofs ------------------------
(***************************************************************************)
(* The local scheduler runs what is scheduled, once, and nothing else, for *)
(* any number of events, dates, retries and reloads.                       *)
(***************************************************************************)
EXTENDS LocalScheduler, FiniteSetTheorems, TLAPS

(***************************************************************************)
(* The inductive invariant.  That only current events run rests on two     *)
(* facts about handles: a timeout that waits is the one under its key, so  *)
(* whoever replaces or deletes the key cancels it; and a run that is still *)
(* active has no timeout beside it, so its retry replaces nothing.         *)
(***************************************************************************)

SchedulerTypeOK ==
  /\ isDynamic \in BOOLEAN /\ exists \in BOOLEAN
  /\ instance \in Nat /\ versions \in Nat
  /\ events \in [Events -> Nat]
  /\ timers \in [TimerIds -> Timeouts \cup {NoTimeout}]
  /\ timeouts \subseteq Timeouts
  /\ runs \subseteq Timeouts

\* A dynamic scheduler has timeouts and runs of events, a static one those of dates, and its timer.
KindsOfIds ==
  /\ \A t \in timeouts : t.id \in (IF isDynamic THEN Events ELSE Dates \cup {Timer})
  /\ \A r \in runs : r.id \in (IF isDynamic THEN Events ELSE Dates)

\* Versions have been given out, the timer has a date, and no run is of a scheduler yet to come.
ValuesInRange ==
  /\ \A t \in timeouts \cup runs : t.id \in Events => t.value \in 1..versions
  /\ \A t \in timeouts : t.id = Timer => t.value \in Dates
  /\ \A r \in runs : r.instance <= instance

\* A handle is kept under the identifier it was made for.
HandlesByKey == \A id \in TimerIds : timers[id] # NoTimeout => timers[id].id = id

\* A timeout that waits is of the scheduler that is there and can be cancelled: it is the one under its key.
WaitingIsArmed == \A t \in timeouts : exists /\ t.instance = instance /\ timers[t.id] = t

\* A timeout that waits is of the event that is there.
WaitingIsCurrent == \A t \in timeouts : t.id \in Events => events[t.id] = t.value

\* A run that is active has no timeout, and no other active run, under its key.
ActiveIsAlone ==
  /\ \A r \in runs, t \in timeouts : IsActive(r) => t.id # r.id
  /\ \A r, s \in runs : IsActive(r) /\ IsActive(s) /\ r.id = s.id => r = s

\* The runs and retries of dates are all of dates before the one that the timer is set to.
DatesHavePassed ==
  \A t \in timeouts : t.id = Timer =>
    \A x \in timeouts \cup runs : x.instance = instance /\ x.id \in Dates => x.id < t.value

\* An event that is there has its timeout or its run.
EventIsPending ==
  \A e \in Events : exists /\ events[e] # 0 =>
    \/ \E t \in timeouts : t.id = e
    \/ \E r \in runs : r.id = e /\ IsActive(r)

\* A static scheduler has its timer until the last date.
TimerIsSet ==
  exists /\ ~isDynamic => (\E t \in timeouts : t.id = Timer) \/ timers[Timer].value = MaxDates

SchedulerInv ==
  /\ SchedulerTypeOK
  /\ KindsOfIds
  /\ ValuesInRange
  /\ HandlesByKey
  /\ WaitingIsArmed
  /\ WaitingIsCurrent
  /\ ActiveIsAlone
  /\ DatesHavePassed
  /\ EventIsPending
  /\ TimerIsSet

-----------------------------------------------------------------------------
\* What the types say of the members of the sets.
LEMMA Members ==
  ASSUME SchedulerTypeOK
  PROVE  /\ \A t \in timeouts \cup runs :
              t \in Timeouts /\ t.id \in TimerIds /\ t.instance \in Nat /\ t.value \in Nat /\ t.attempt \in Nat
         /\ Timer \in TimerIds /\ Timer \notin Events /\ Timer \notin Dates
         /\ \A e \in Events : e \in TimerIds /\ e \notin Dates /\ events[e] \in Nat
         /\ \A d \in Dates : d \in TimerIds /\ d \in Nat
BY SchedulerAssumption DEF SchedulerTypeOK, Timeouts, TimerIds, Dates

\* A scheduler is created only when the one before has left no timeout.
LEMMA CreateStep ==
  ASSUME SchedulerInv, CreateScheduler
  PROVE  SchedulerInv'
<1> USE SchedulerAssumption DEF SchedulerInv
<1>1. timeouts = {}
  BY DEF CreateScheduler, WaitingIsArmed
<1> DEFINE first == [instance |-> instance + 1, id |-> Timer, value |-> 1, attempt |-> 0]
<1>2. /\ first \in Timeouts /\ 1 \in Dates
      /\ first.instance = instance + 1 /\ first.id = Timer /\ first.value = 1
      /\ instance \in Nat
  BY Members DEF SchedulerTypeOK, Timeouts, Dates
<1>3. /\ exists' = TRUE /\ instance' = instance + 1 /\ events' = [e \in Events |-> 0]
      /\ UNCHANGED <<isDynamic, runs, versions>>
  BY DEF CreateScheduler
<1>4. /\ isDynamic => timers' = NoTimers /\ timeouts' = {}
      /\ ~isDynamic => timers' = [NoTimers EXCEPT ![Timer] = first] /\ timeouts' = {first}
  BY <1>1 DEF CreateScheduler
<1> HIDE DEF first
<1>5. SchedulerTypeOK'
  BY <1>2, <1>3, <1>4 DEF SchedulerTypeOK, NoTimers
<1>6. \A r \in runs : r.instance \in Nat /\ r.instance < instance'
  BY <1>2, <1>3, Members DEF ValuesInRange
<1>7. \A r \in runs : ~IsActive(r)'
  BY <1>3, <1>6 DEF IsActive
<1>8. KindsOfIds' /\ ValuesInRange'
  BY <1>2, <1>3, <1>4, <1>6, Members DEF KindsOfIds, ValuesInRange
<1>9. WaitingIsArmed' /\ WaitingIsCurrent' /\ TimerIsSet' /\ HandlesByKey'
  BY <1>2, <1>3, <1>4, Members DEF WaitingIsArmed, WaitingIsCurrent, TimerIsSet, HandlesByKey, NoTimers
<1>10. ActiveIsAlone'
  BY <1>3, <1>7 DEF ActiveIsAlone
<1>11. DatesHavePassed'
  BY <1>2, <1>3, <1>4, <1>6, Members DEF DatesHavePassed
<1>12. EventIsPending'
  BY <1>3 DEF EventIsPending
<1> QED
  BY <1>5, <1>8, <1>9, <1>10, <1>11, <1>12

\* A scheduler that is deleted takes every timeout with it.
LEMMA DeleteStep ==
  ASSUME SchedulerInv, DeleteScheduler
  PROVE  SchedulerInv'
<1> USE DEF SchedulerInv
<1>1. timeouts' = {}
  <2>1. \A t \in timeouts : t \in Range(timers)
    BY Members DEF WaitingIsArmed, SchedulerTypeOK, Range
  <2> QED
    BY <2>1 DEF DeleteScheduler
<1>2. exists' = FALSE /\ UNCHANGED <<isDynamic, instance, events, timers, runs, versions>>
  BY DEF DeleteScheduler
<1> QED
  BY <1>1, <1>2 DEF SchedulerTypeOK, KindsOfIds, ValuesInRange, HandlesByKey, WaitingIsArmed, WaitingIsCurrent,
     ActiveIsAlone, IsActive, DatesHavePassed, EventIsPending, TimerIsSet

\* A new version of an event replaces the timeout of the old one, and no run is of the new one yet.
LEMMA ScheduleStep ==
  ASSUME SchedulerInv, NEW e \in Events, ScheduleEvent(e)
  PROVE  SchedulerInv'
<1> USE SchedulerAssumption DEF SchedulerInv
<1> DEFINE new == Timeout(e, versions + 1, 0)
<1>1. /\ new \in Timeouts /\ new.id = e /\ new.value = versions + 1 /\ new.instance = instance
      /\ versions \in Nat /\ versions + 1 \in Nat
  BY Members DEF SchedulerTypeOK, Timeouts, Timeout
<1>2. /\ exists /\ isDynamic /\ versions' = versions + 1
      /\ events' = [events EXCEPT ![e] = versions + 1]
      /\ timers' = [timers EXCEPT ![e] = new]
      /\ timeouts' = (timeouts \ {timers[e]}) \cup {new}
      /\ UNCHANGED <<isDynamic, instance, exists, runs>>
  BY <1>1 DEF ScheduleEvent, Arm
<1> HIDE DEF new
<1>3. \A t \in timeouts' : t = new \/ (t \in timeouts /\ t.id # e)
  BY <1>2 DEF WaitingIsArmed
<1>4. \A t \in timeouts : t.id # e => t \in timeouts'
  BY <1>2, Members DEF HandlesByKey
<1>5. SchedulerTypeOK'
  BY <1>1, <1>2, Members DEF SchedulerTypeOK
<1>6. \A f \in Events : events'[f] = IF f = e THEN versions + 1 ELSE events[f]
  BY <1>2 DEF SchedulerTypeOK
<1>7. \A r \in runs : IsActive(r)' => r.id # e /\ IsActive(r)
  BY <1>1, <1>2, <1>6, Members DEF IsActive, ValuesInRange
<1>8. \A r \in runs : IsActive(r) /\ r.id # e => IsActive(r)'
  BY <1>2, <1>6 DEF IsActive
<1>9. KindsOfIds' /\ ValuesInRange'
  BY <1>1, <1>2, <1>3, Members DEF KindsOfIds, ValuesInRange
<1>10. WaitingIsArmed' /\ WaitingIsCurrent' /\ HandlesByKey'
  BY <1>1, <1>2, <1>3, <1>6, Members DEF WaitingIsArmed, WaitingIsCurrent, HandlesByKey, SchedulerTypeOK
<1>11. ActiveIsAlone'
  BY <1>1, <1>2, <1>3, <1>7 DEF ActiveIsAlone
<1>12. DatesHavePassed'
  BY <1>1, <1>2, <1>3, Members DEF DatesHavePassed
<1>13. EventIsPending'
  BY <1>1, <1>2, <1>4, <1>6, <1>8 DEF EventIsPending
<1>14. TimerIsSet'
  BY <1>2 DEF TimerIsSet
<1> QED
  BY <1>5, <1>9, <1>10, <1>11, <1>12, <1>13, <1>14

\* Deleting an event cancels its timeout.
LEMMA DeleteEventStep ==
  ASSUME SchedulerInv, NEW e \in Events, DeleteEvent(e)
  PROVE  SchedulerInv'
<1> USE SchedulerAssumption DEF SchedulerInv
<1>1. /\ timeouts' = timeouts \ {timers[e]}
      /\ timers' = [timers EXCEPT ![e] = NoTimeout]
      /\ events' = [events EXCEPT ![e] = 0]
      /\ UNCHANGED <<isDynamic, instance, exists, runs, versions>>
  BY DEF DeleteEvent
<1>2. \A t \in timeouts' : t \in timeouts /\ t.id # e
  BY <1>1 DEF WaitingIsArmed
<1>3. \A t \in timeouts : t.id # e => t \in timeouts'
  BY <1>1, Members DEF HandlesByKey
<1>4. \A f \in Events : events'[f] = IF f = e THEN 0 ELSE events[f]
  BY <1>1 DEF SchedulerTypeOK
<1>5. \A r \in runs : IsActive(r)' => r.id # e /\ IsActive(r)
  BY <1>1, <1>4, Members DEF IsActive, ValuesInRange
<1>6. \A r \in runs : IsActive(r) /\ r.id # e => IsActive(r)'
  BY <1>1, <1>4 DEF IsActive
<1>7. SchedulerTypeOK' /\ KindsOfIds' /\ ValuesInRange'
  BY <1>1, <1>2, Members DEF SchedulerTypeOK, KindsOfIds, ValuesInRange
<1>8. WaitingIsArmed' /\ WaitingIsCurrent' /\ HandlesByKey'
  BY <1>1, <1>2, <1>4, Members DEF WaitingIsArmed, WaitingIsCurrent, HandlesByKey, SchedulerTypeOK
<1>9. ActiveIsAlone' /\ DatesHavePassed'
  BY <1>1, <1>2, <1>5 DEF ActiveIsAlone, DatesHavePassed
<1>10. EventIsPending'
  BY <1>1, <1>3, <1>4, <1>6 DEF EventIsPending
<1>11. TimerIsSet'
  BY <1>1, <1>3, Members DEF TimerIsSet, SchedulerTypeOK
<1> QED
  BY <1>7, <1>8, <1>9, <1>10, <1>11

\* The run that a timeout starts takes its place.
LEMMA FireTimeoutStep ==
  ASSUME SchedulerInv, NEW t \in timeouts, FireTimeout(t)
  PROVE  SchedulerInv' /\ \A r \in runs' \ runs : IsActive(r)
<1> USE SchedulerAssumption DEF SchedulerInv
<1>1. /\ t.id # Timer /\ timeouts' = timeouts \ {t} /\ runs' = runs \cup {t}
      /\ UNCHANGED <<isDynamic, instance, exists, events, timers, versions>>
  BY DEF FireTimeout
<1>2. \A u \in timeouts : u \in timeouts' <=> u.id # t.id
  BY <1>1 DEF WaitingIsArmed
<1>3. \A r : IsActive(r)' <=> IsActive(r)
  BY <1>1 DEF IsActive
<1>4. IsActive(t)
  BY DEF IsActive, WaitingIsArmed, WaitingIsCurrent
<1>5. SchedulerTypeOK' /\ KindsOfIds' /\ ValuesInRange'
  BY <1>1, Members DEF SchedulerTypeOK, KindsOfIds, ValuesInRange, WaitingIsArmed
<1>6. HandlesByKey' /\ WaitingIsArmed' /\ WaitingIsCurrent' /\ DatesHavePassed' /\ TimerIsSet'
  BY <1>1, <1>2 DEF HandlesByKey, WaitingIsArmed, WaitingIsCurrent, DatesHavePassed, TimerIsSet
<1>7. ActiveIsAlone'
  BY <1>1, <1>2, <1>3 DEF ActiveIsAlone
<1>8. EventIsPending'
  BY <1>1, <1>2, <1>3, <1>4 DEF EventIsPending
<1> QED
  BY <1>1, <1>4, <1>5, <1>6, <1>7, <1>8

\* The timer goes on to the next date; the run of a date is the first one of it.
LEMMA FireTimerStep ==
  ASSUME SchedulerInv, NEW t \in timeouts, FireTimer(t)
  PROVE  SchedulerInv' /\ \A r \in runs' \ runs : IsActive(r)
<1> USE SchedulerAssumption DEF SchedulerInv
<1> DEFINE run == [t EXCEPT !.id = t.value]
           next == Timeout(Timer, t.value + 1, 0)
<1>1. t.id = Timer /\ t.value \in Dates /\ t \in Timeouts /\ t.instance = instance /\ exists /\ timers[Timer] = t
  BY Members DEF FireTimer, ValuesInRange, WaitingIsArmed
<1>2. /\ run \in Timeouts /\ run.id = t.value /\ run.id \in Dates /\ run.instance = instance /\ run.value = t.value
      /\ t.value \in Nat /\ run.id \notin Events /\ run.id # Timer
  <2>1. t.value \in Nat /\ t.value \notin Events /\ t.value # Timer /\ t.value \in TimerIds
    BY <1>1, Members
  <2> QED
    BY <1>1, <2>1 DEF Timeouts
<1>3. t.value < MaxDates =>
        next \in Timeouts /\ next.id = Timer /\ next.value = t.value + 1 /\ next.value \in Dates /\ next.instance = instance
  BY <1>1, <1>2, Members DEF Timeout, Timeouts, Dates, SchedulerTypeOK
<1>4. /\ runs' = runs \cup {run}
      /\ UNCHANGED <<isDynamic, instance, exists, events, versions>>
      /\ t.value < MaxDates => timers' = [timers EXCEPT ![Timer] = next] /\ timeouts' = (timeouts \ {t}) \cup {next}
      /\ ~(t.value < MaxDates) => timeouts' = timeouts \ {t} /\ UNCHANGED timers
  BY DEF FireTimer
<1> HIDE DEF run, next
<1>5. ~isDynamic
  BY <1>1, Members DEF KindsOfIds
<1>6. /\ \A u \in timeouts' : (t.value < MaxDates /\ u = next) \/ (u \in timeouts /\ u.id # Timer)
      /\ \A u \in timeouts : u.id # Timer => u \in timeouts'
  BY <1>1, <1>4 DEF WaitingIsArmed
<1>7. \A r : IsActive(r)' <=> IsActive(r)
  BY <1>4 DEF IsActive
<1>8. IsActive(run)
  BY <1>1, <1>2 DEF IsActive
<1>9. \A x \in timeouts \cup runs : x.instance = instance => x.id # run.id
  <2> SUFFICES ASSUME NEW x \in timeouts \cup runs, x.instance = instance, x.id = run.id PROVE FALSE
    OBVIOUS
  <2>1. x.id \in Dates /\ x.id = t.value
    BY <1>2
  <2>2. x.id < t.value
    BY <1>1, <2>1 DEF DatesHavePassed
  <2> QED
    BY <1>2, <2>1, <2>2
<1>10. SchedulerTypeOK' /\ KindsOfIds'
  BY <1>2, <1>3, <1>4, <1>5, <1>6, Members DEF SchedulerTypeOK, KindsOfIds
<1>11. ValuesInRange'
  <2>1. instance \in Nat
    BY DEF SchedulerTypeOK
  <2> QED
    BY <1>2, <1>3, <1>4, <1>6, <2>1, Members DEF ValuesInRange
<1>12. WaitingIsArmed' /\ WaitingIsCurrent' /\ HandlesByKey'
  BY <1>1, <1>3, <1>4, <1>6, Members DEF WaitingIsArmed, WaitingIsCurrent, HandlesByKey, SchedulerTypeOK
<1>13. ActiveIsAlone'
  <2>1. \A r \in runs : IsActive(r) => r.instance = instance
    BY DEF IsActive
  <2>2. \A u \in timeouts : u.instance = instance
    BY DEF WaitingIsArmed
  <2>3. \A r \in runs : r.id # Timer
    BY Members DEF KindsOfIds
  <2> QED
    BY <1>2, <1>3, <1>4, <1>6, <1>7, <1>9, <2>1, <2>2, <2>3 DEF ActiveIsAlone
<1>14. DatesHavePassed'
  <2> SUFFICES ASSUME NEW u \in timeouts', u.id = Timer, NEW x \in timeouts' \cup runs', x.instance = instance, x.id \in Dates
               PROVE  x.id < u.value
    BY <1>4 DEF DatesHavePassed
  <2>1. u.value = t.value + 1 /\ t.value < MaxDates
    BY <1>3, <1>6
  <2>2. x = run \/ x \in timeouts \cup runs
    BY <1>3, <1>4, <1>6, Members
  <2>3. x.id = t.value \/ x.id < t.value
    BY <1>1, <1>2, <2>2 DEF DatesHavePassed
  <2>4. x.id \in Nat
    BY Members
  <2> QED
    BY <1>2, <2>1, <2>3, <2>4
<1>15. EventIsPending'
  BY <1>4, <1>6, <1>7, Members DEF EventIsPending
<1>16. TimerIsSet'
  <2>1. CASE t.value < MaxDates
    BY <1>3, <1>4, <2>1
       DEF TimerIsSet
  <2>2. CASE ~(t.value < MaxDates)
    BY <1>1, <1>2, <1>4, <2>2 DEF TimerIsSet, Dates
  <2> QED
    BY <2>1, <2>2
<1> QED
  BY <1>4, <1>8, <1>10, <1>11, <1>12, <1>13, <1>14, <1>15, <1>16

\* A run that ends for good takes its event with it, if that is still the one it ran for.
LEMMA CompleteStep ==
  ASSUME SchedulerInv, NEW r \in runs, HandlerReturns(r) \/ HandlerGivesUp(r) \/ HandlerAbandoned(r)
  PROVE  SchedulerInv'
<1> USE SchedulerAssumption DEF SchedulerInv
<1>1. runs' = runs \ {r} /\ UNCHANGED <<isDynamic, instance, exists, timeouts, versions>>
  BY DEF HandlerReturns, HandlerGivesUp, HandlerAbandoned
<1>2. CASE IsActive(r)
  <2>1. /\ timers' = [timers EXCEPT ![r.id] = NoTimeout]
        /\ events' = IF r.id \in Events THEN [events EXCEPT ![r.id] = 0] ELSE events
    BY <1>2 DEF HandlerReturns, HandlerGivesUp, HandlerAbandoned, OnComplete
  <2>2. \A e \in Events : events'[e] = IF e = r.id THEN 0 ELSE events[e]
    BY <2>1 DEF SchedulerTypeOK
  <2>3. \A t \in timeouts : t.id # r.id
    BY <1>2 DEF ActiveIsAlone
  <2>4. \A s \in runs' : IsActive(s)' => IsActive(s)
    BY <1>1, <2>2, Members DEF IsActive, ValuesInRange
  <2>5. \A s \in runs : IsActive(s) /\ s.id # r.id => s \in runs' /\ IsActive(s)'
    BY <1>1, <2>2 DEF IsActive
  <2>6. SchedulerTypeOK' /\ KindsOfIds' /\ ValuesInRange'
    BY <1>1, <2>1, Members DEF SchedulerTypeOK, KindsOfIds, ValuesInRange
  <2>7. WaitingIsArmed' /\ WaitingIsCurrent' /\ HandlesByKey'
    BY <1>1, <2>1, <2>2, <2>3, Members DEF WaitingIsArmed, WaitingIsCurrent, HandlesByKey, SchedulerTypeOK
  <2>8. ActiveIsAlone' /\ DatesHavePassed'
    BY <1>1, <2>4 DEF ActiveIsAlone, DatesHavePassed
  <2>9. EventIsPending'
    BY <1>1, <2>2, <2>5 DEF EventIsPending
  <2>10. TimerIsSet'
    BY <1>1, <2>1, Members DEF TimerIsSet, SchedulerTypeOK, KindsOfIds
  <2> QED
    BY <2>6, <2>7, <2>8, <2>9, <2>10
<1>3. CASE ~IsActive(r)
  <2>1. UNCHANGED <<timers, events>>
    BY <1>3 DEF HandlerReturns, HandlerGivesUp, HandlerAbandoned, OnComplete
  <2>2. \A s : IsActive(s)' <=> IsActive(s)
    BY <1>1, <2>1 DEF IsActive
  <2>3. SchedulerTypeOK' /\ KindsOfIds' /\ ValuesInRange' /\ HandlesByKey' /\ WaitingIsArmed' /\ WaitingIsCurrent'
    BY <1>1, <2>1 DEF HandlesByKey, SchedulerTypeOK, KindsOfIds, ValuesInRange, WaitingIsArmed, WaitingIsCurrent
  <2>4. ActiveIsAlone' /\ DatesHavePassed' /\ EventIsPending' /\ TimerIsSet'
    BY <1>1, <1>3, <2>1, <2>2 DEF ActiveIsAlone, DatesHavePassed, EventIsPending, TimerIsSet
  <2> QED
    BY <2>3, <2>4
<1> QED
  BY <1>2, <1>3

\* A retry takes the place of its run; it cancels nothing, and has nothing to cancel.
LEMMA RetryStep ==
  ASSUME SchedulerInv, NEW r \in runs, HandlerRetries(r)
  PROVE  SchedulerInv'
<1> USE SchedulerAssumption DEF SchedulerInv
<1> DEFINE again == Timeout(r.id, r.value, r.attempt + 1)
<1>1. /\ again \in Timeouts /\ again.id = r.id /\ again.value = r.value /\ again.instance = instance
      /\ r.id \in TimerIds /\ r.id # Timer /\ r.instance = instance
      /\ exists /\ (r.id \in Events => events[r.id] = r.value)
  BY Members DEF SchedulerTypeOK, Timeouts, Timeout, KindsOfIds, HandlerRetries, IsActive
<1>2. /\ runs' = runs \ {r}
      /\ timers' = [timers EXCEPT ![r.id] = again]
      /\ timeouts' = timeouts \cup {again}
      /\ UNCHANGED <<isDynamic, instance, exists, events, versions>>
  BY <1>1 DEF HandlerRetries, Arm
<1> HIDE DEF again
<1>3. \A t \in timeouts : t.id # r.id
  BY DEF HandlerRetries, ActiveIsAlone
<1>4. \A s \in runs' : s \in runs /\ (IsActive(s) => s.id # r.id)
  BY <1>2 DEF HandlerRetries, ActiveIsAlone
<1>5. \A s : IsActive(s)' <=> IsActive(s)
  BY <1>2 DEF IsActive
<1>6. SchedulerTypeOK' /\ KindsOfIds' /\ ValuesInRange'
  BY <1>1, <1>2, <1>4 DEF SchedulerTypeOK, KindsOfIds, ValuesInRange
<1>7. WaitingIsArmed' /\ WaitingIsCurrent' /\ HandlesByKey'
  BY <1>1, <1>2, <1>3, Members DEF WaitingIsArmed, WaitingIsCurrent, HandlesByKey, SchedulerTypeOK
<1>8. ActiveIsAlone'
  BY <1>1, <1>2, <1>4, <1>5 DEF ActiveIsAlone
<1>9. DatesHavePassed'
  BY <1>1, <1>2, <1>4 DEF DatesHavePassed
<1>10. EventIsPending'
  BY <1>1, <1>2, <1>5 DEF EventIsPending
<1>11. TimerIsSet'
  BY <1>1, <1>2, Members DEF TimerIsSet, SchedulerTypeOK
<1> QED
  BY <1>6, <1>7, <1>8, <1>9, <1>10, <1>11

-----------------------------------------------------------------------------
\* What one step does to the invariant, and which runs it starts.
LEMMA SchedulerStep ==
  ASSUME SchedulerInv, [SchedulerNext]_schedulerVars
  PROVE  SchedulerInv' /\ \A r \in runs' \ runs : IsActive(r)
<1>1. CASE CreateScheduler
  BY <1>1, CreateStep DEF CreateScheduler
<1>2. CASE DeleteScheduler
  BY <1>2, DeleteStep DEF DeleteScheduler
<1>3. ASSUME NEW e \in Events, ScheduleEvent(e) PROVE SchedulerInv' /\ \A r \in runs' \ runs : IsActive(r)
  BY <1>3, ScheduleStep DEF ScheduleEvent
<1>4. ASSUME NEW e \in Events, DeleteEvent(e) PROVE SchedulerInv' /\ \A r \in runs' \ runs : IsActive(r)
  BY <1>4, DeleteEventStep DEF DeleteEvent
<1>5. ASSUME NEW t \in timeouts, Fires(t) PROVE SchedulerInv' /\ \A r \in runs' \ runs : IsActive(r)
  BY <1>5, FireTimeoutStep, FireTimerStep DEF Fires
<1>6. ASSUME NEW r \in runs, Ends(r) PROVE SchedulerInv' /\ \A s \in runs' \ runs : IsActive(s)
  <2>1. runs' \subseteq runs
    BY <1>6 DEF Ends, HandlerReturns, HandlerGivesUp, HandlerRetries, HandlerAbandoned
  <2> QED
    BY <1>6, <2>1, CompleteStep, RetryStep DEF Ends
<1>7. CASE UNCHANGED schedulerVars
  BY <1>7 DEF schedulerVars, SchedulerInv, SchedulerTypeOK, KindsOfIds, ValuesInRange, HandlesByKey, WaitingIsArmed,
     WaitingIsCurrent, ActiveIsAlone, IsActive, DatesHavePassed, EventIsPending, TimerIsSet
<1> QED
  BY <1>1, <1>2, <1>3, <1>4, <1>5, <1>6, <1>7 DEF SchedulerNext

\* The invariant holds in every state that the scheduler can be in.
LEMMA SchedulerInvariance == SchedulerSpec => []SchedulerInv
<1>1. SchedulerInit => SchedulerInv
  <2> SUFFICES ASSUME SchedulerInit PROVE SchedulerInv
    OBVIOUS
  <2>1. SchedulerTypeOK /\ HandlesByKey
    BY DEF SchedulerInit, NoTimers, SchedulerTypeOK, HandlesByKey
  <2>2. KindsOfIds /\ ValuesInRange /\ WaitingIsArmed /\ WaitingIsCurrent
    BY DEF SchedulerInit, KindsOfIds, ValuesInRange, WaitingIsArmed, WaitingIsCurrent
  <2>3. ActiveIsAlone /\ DatesHavePassed /\ EventIsPending /\ TimerIsSet
    BY DEF SchedulerInit, ActiveIsAlone, DatesHavePassed, EventIsPending, TimerIsSet
  <2> QED
    BY <2>1, <2>2, <2>3 DEF SchedulerInv
<1>2. SchedulerInv /\ [SchedulerNext]_schedulerVars => SchedulerInv'
  BY SchedulerStep
<1>q. QED
  BY <1>1, <1>2, PTL DEF SchedulerSpec

\* A handler is called only for the event that is in the scheduler: not for one replaced or deleted meanwhile, nor for one
\* of a scheduler before the reload, with any number of events, retries and reloads (runHandler, deleteScheduler).
THEOREM CurrentRuns == SchedulerSpec => OnlyCurrentRuns
<1>1. SchedulerInv /\ [SchedulerNext]_schedulerVars => [\A r \in runs' \ runs : IsActive(r)]_schedulerVars
  BY SchedulerStep
<1>q. QED
  BY <1>1, SchedulerInvariance, PTL DEF SchedulerSpec, OnlyCurrentRuns

\* An event in the scheduler has exactly one timeout or run, and the timer of a static scheduler is set until its last
\* date: whatever runs fail, are retried or replaced, no event is lost and none runs twice (scheduleEvent, onComplete).
THEOREM ScheduledOnce == SchedulerSpec => []ScheduledIsPending
<1>1. SchedulerInv => ScheduledIsPending
  <2> SUFFICES ASSUME SchedulerInv, exists PROVE ScheduledIsPending
    BY DEF ScheduledIsPending
  <2> USE DEF SchedulerInv
  <2>1. ASSUME NEW e \in Events, events[e] # 0
        PROVE  Cardinality({t \in timeouts : t.id = e /\ t.value = events[e]} \cup
                           {r \in runs : r.instance = instance /\ r.id = e /\ r.value = events[e]}) = 1
    <3> DEFINE waiting == {t \in timeouts : t.id = e /\ t.value = events[e]}
               running == {r \in runs : r.instance = instance /\ r.id = e /\ r.value = events[e]}
    <3>1. \A r \in runs : r \in running <=> r.id = e /\ IsActive(r)
      BY DEF IsActive
    <3>2. \A t \in timeouts : t \in waiting <=> t.id = e
      BY DEF WaitingIsCurrent
    <3>3. PICK x : x \in waiting \cup running
      BY <2>1, <3>1, <3>2 DEF EventIsPending
    <3>4. \A y \in waiting \cup running : y = x
      BY <3>1, <3>2, <3>3 DEF ActiveIsAlone, WaitingIsArmed
    <3>5. waiting \cup running = {x}
      BY <3>3, <3>4
    <3> QED
      BY <3>5, FS_Singleton
  <2>2. ~isDynamic => (\E t \in timeouts : t.id = Timer /\ t.instance = instance) \/ timers[Timer].value = MaxDates
    BY DEF TimerIsSet, WaitingIsArmed
  <2> QED
    BY <2>1, <2>2 DEF ScheduledIsPending
<1>q. QED
  BY <1>1, SchedulerInvariance, PTL
=============================================================================
