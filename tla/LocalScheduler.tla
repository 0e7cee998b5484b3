--------------------------- MODULE LocalScheduler ---------------------------
(***************************************************************************)
(* The scheduler of the local emulator.                                    *)
(*                                                                         *)
(* A dynamic scheduler keeps events by identifier and runs its handler     *)
(* when the date of an event has come; a static one runs it at the dates   *)
(* of its expression.  A handler that fails runs again, after a delay and  *)
(* up to a limit.  While handlers run and timers wait, events are set,     *)
(* updated and deleted, by handlers too, and the project is reloaded: the  *)
(* scheduler is deleted and another one created under its name.            *)
(*                                                                         *)
(* Every event that is scheduled is an object of its own and has its own   *)
(* number, its version; the dates of an expression are numbered too.       *)
(* Dates, delays and the maximum age are left out: a timeout fires some    *)
(* time after it was made, and a retry may be found too old.               *)
(***************************************************************************)
EXTENDS Naturals, FiniteSets, Functions

CONSTANTS
  Events,        \* identifiers of events
  Timer,         \* the identifier of the timer of a static scheduler
  NoTimeout,     \* no handle under an identifier
  MaxRetries,
  MaxVersions,   \* events that are scheduled
  MaxDates,      \* dates of the expression
  MaxInstances   \* reloads, and the first load

Dates == 1..MaxDates

\* Retries of a static scheduler have a timer for each date.
TimerIds == Events \cup {Timer} \cup Dates

\* What is known of a timeout, and of the run that it starts: the scheduler it belongs to, its key among the timers, a
\* version or a date, and how many runs failed before it.
Timeouts == [instance : Nat, id : TimerIds, value : Nat, attempt : Nat]

ASSUME SchedulerAssumption ==
  /\ Timer \notin Events \cup Dates
  /\ Events \cap Dates = {}
  /\ NoTimeout \notin Timeouts
  /\ {MaxRetries, MaxVersions, MaxInstances} \subseteq Nat
  /\ MaxDates \in Nat \ {0}

VARIABLES
  isDynamic,  \* isDynamicCronService
  instance,   \* number of the last scheduler created under the name
  exists,     \* ALL_SCHEDULERS[schedulerName]
  events,     \* versions by identifier, 0 for none
  timers,     \* handles by identifier, of timeouts that wait or have fired
  timeouts,   \* timeouts that wait
  runs,       \* handlers that run
  versions    \* events scheduled so far

schedulerVars == <<isDynamic, instance, exists, events, timers, timeouts, runs, versions>>

-----------------------------------------------------------------------------

\* A timeout of the scheduler that is there.
Timeout(id, value, attempt) == [instance |-> instance, id |-> id, value |-> value, attempt |-> attempt]

NoTimers == [id \in TimerIds |-> NoTimeout]

SchedulerInit ==
  /\ isDynamic \in BOOLEAN
  /\ instance = 0 /\ exists = FALSE
  /\ events = [e \in Events |-> 0]
  /\ timers = NoTimers
  /\ timeouts = {}
  /\ runs = {}
  /\ versions = 0

\* createTimeout under an identifier; the handle that is there is cancelled first, or not.
Arm(timeout, cancel) ==
  /\ timers' = [timers EXCEPT ![timeout.id] = timeout]
  /\ timeouts' = (timeouts \ (IF cancel THEN {timers[timeout.id]} ELSE {})) \cup {timeout}

\* createScheduler, and for a static one its first timer (bootstrapHandler, processTimerEvent).
CreateScheduler ==
  /\ ~exists /\ instance < MaxInstances
  /\ exists' = TRUE
  /\ instance' = instance + 1
  /\ events' = [e \in Events |-> 0]
  /\ IF isDynamic
     THEN timers' = NoTimers /\ UNCHANGED timeouts
     ELSE LET first == [instance |-> instance + 1, id |-> Timer, value |-> 1, attempt |-> 0]
          IN timers' = [NoTimers EXCEPT ![Timer] = first] /\ timeouts' = timeouts \cup {first}
  /\ UNCHANGED <<isDynamic, runs, versions>>

\* deleteScheduler
DeleteScheduler ==
  /\ exists
  /\ exists' = FALSE
  /\ timeouts' = timeouts \ Range(timers)
  /\ UNCHANGED <<isDynamic, instance, events, timers, runs, versions>>

\* Mutant: the timeout of the event that is replaced is not cancelled.
ScheduleEventAgain(e) ==
  /\ exists /\ isDynamic /\ versions < MaxVersions
  /\ versions' = versions + 1
  /\ events' = [events EXCEPT ![e] = versions + 1]
  /\ Arm(Timeout(e, versions + 1, 0), FALSE)
  /\ UNCHANGED <<isDynamic, instance, exists, runs>>

\* setEvent; createEvent where there is none, and updateEvent where there is one.
ScheduleEvent(e) ==
  /\ exists /\ isDynamic /\ versions < MaxVersions
  /\ versions' = versions + 1
  /\ events' = [events EXCEPT ![e] = versions + 1]
  /\ Arm(Timeout(e, versions + 1, 0), TRUE)
  /\ UNCHANGED <<isDynamic, instance, exists, runs>>

DeleteEvent(e) ==
  /\ exists /\ events[e] # 0
  /\ timeouts' = timeouts \ {timers[e]}
  /\ timers' = [timers EXCEPT ![e] = NoTimeout]
  /\ events' = [events EXCEPT ![e] = 0]
  /\ UNCHANGED <<isDynamic, instance, exists, runs, versions>>

\* The timeout of an event, or of a retry, fires: the handler runs.
FireTimeout(t) ==
  /\ t.id # Timer
  /\ timeouts' = timeouts \ {t}
  /\ runs' = runs \cup {t}
  /\ UNCHANGED <<isDynamic, instance, exists, events, timers, versions>>

\* The timer of a static scheduler fires: it is set to the next date, if there is one, and the handler runs.
FireTimer(t) ==
  /\ t.id = Timer
  /\ runs' = runs \cup {[t EXCEPT !.id = t.value]}
  /\ IF t.value < MaxDates
     THEN LET next == Timeout(Timer, t.value + 1, 0)
          IN timers' = [timers EXCEPT ![Timer] = next] /\ timeouts' = (timeouts \ {t}) \cup {next}
     ELSE timeouts' = timeouts \ {t} /\ UNCHANGED timers
  /\ UNCHANGED <<isDynamic, instance, exists, events, versions>>

\* isActive: the scheduler is the one that the run began with, and its event the one that is there.
IsActive(r) ==
  /\ exists /\ r.instance = instance
  /\ r.id \in Events => events[r.id] = r.value

\* onComplete: an event is deleted if it is still the same one, a date's retries always.  What it deletes of a scheduler
\* that is gone has no effect.
OnComplete(r) ==
  IF IsActive(r)
  THEN /\ timers' = [timers EXCEPT ![r.id] = NoTimeout]
       /\ events' = IF r.id \in Events THEN [events EXCEPT ![r.id] = 0] ELSE events
  ELSE UNCHANGED <<timers, events>>

HandlerReturns(r) ==
  /\ runs' = runs \ {r}
  /\ OnComplete(r)
  /\ UNCHANGED <<isDynamic, instance, exists, timeouts, versions>>

\* Mutant: a run that is dropped does not complete.
DropRun(r) ==
  /\ IsActive(r)
  /\ runs' = runs \ {r}
  /\ UNCHANGED <<isDynamic, instance, exists, events, timers, timeouts, versions>>

\* The handler threw, and will not be called again: its retries are used up, or the next one would come too late.
HandlerGivesUp(r) ==
  /\ IsActive(r)
  /\ runs' = runs \ {r}
  /\ OnComplete(r)
  /\ UNCHANGED <<isDynamic, instance, exists, timeouts, versions>>

\* Mutant: the attempts are not counted.
RetryForEver(r) ==
  /\ IsActive(r) /\ r.attempt < MaxRetries
  /\ runs' = runs \ {r}
  /\ Arm(Timeout(r.id, r.value, r.attempt), FALSE)
  /\ UNCHANGED <<isDynamic, instance, exists, events, versions>>

\* The handler threw, and is called again later.
HandlerRetries(r) ==
  /\ IsActive(r) /\ r.attempt < MaxRetries
  /\ runs' = runs \ {r}
  /\ Arm(Timeout(r.id, r.value, r.attempt + 1), FALSE)
  /\ UNCHANGED <<isDynamic, instance, exists, events, versions>>

\* The handler threw, after its event was replaced or deleted, or its scheduler stopped.
HandlerAbandoned(r) ==
  /\ ~IsActive(r)
  /\ runs' = runs \ {r}
  /\ UNCHANGED <<isDynamic, instance, exists, events, timers, timeouts, versions>>

-----------------------------------------------------------------------------

Fires(t) == FireTimeout(t) \/ FireTimer(t)

Ends(r) == HandlerReturns(r) \/ HandlerGivesUp(r) \/ HandlerRetries(r) \/ HandlerAbandoned(r)

SchedulerNext ==
  \/ CreateScheduler \/ DeleteScheduler
  \/ \E e \in Events : ScheduleEvent(e) \/ DeleteEvent(e)
  \/ \E t \in timeouts : Fires(t)
  \/ \E r \in runs : Ends(r)

\* Timeouts fire and handlers end.
SchedulerSpec ==
  /\ SchedulerInit /\ [][SchedulerNext]_schedulerVars
  /\ WF_schedulerVars(\E t \in timeouts : Fires(t))
  /\ WF_schedulerVars(\E r \in runs : Ends(r))

-----------------------------------------------------------------------------
(* Properties                                                              *)

\* A handler is only called for the event that is in the scheduler, never for one that was replaced, deleted or belongs
\* to a scheduler before the reload (scheduleEvent, deleteEvent, deleteScheduler: every timeout that waits can still be
\* cancelled; runHandler: isActive).
OnlyCurrentRuns == [][\A r \in runs' \ runs : IsActive(r)]_schedulerVars

\* An event that is in the scheduler waits for its timeout or is being handled, and only once; the timer of a static
\* scheduler waits until its last date has come, whatever its runs do (runHandler, onComplete).
ScheduledIsPending ==
  exists =>
    /\ \A e \in Events : events[e] # 0 =>
         Cardinality({t \in timeouts : t.id = e /\ t.value = events[e]} \cup
                     {r \in runs : r.instance = instance /\ r.id = e /\ r.value = events[e]}) = 1
    /\ ~isDynamic =>
         \/ \E t \in timeouts : t.id = Timer /\ t.instance = instance
         \/ timers[Timer].value = MaxDates

\* Every event that is in the scheduler is done some time, or replaced or deleted, or the scheduler is (runHandler:
\* retries are counted; "the event is gone once it's done").
EventsAreDone ==
  \A e \in Events, v \in 1..MaxVersions : (exists /\ events[e] = v) ~> (~exists \/ events[e] # v)
=============================================================================
