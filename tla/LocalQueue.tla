----------------------------- MODULE LocalQueue -----------------------------
(***************************************************************************)
(* The local queue service: an in-memory queue that works like SQS, the    *)
(* pollers of its subscriptions, the clients that poll it themselves and   *)
(* the waiters for its drain.                                              *)
(*                                                                         *)
(* Messages are numbered in the order they are sent, which is their order  *)
(* in the queue: a send appends, and nothing is ever inserted.  The n-th   *)
(* receive of message i hands out the receipt <<i, n>>, so the receipt the *)
(* queue keeps for a message is its receive count (0: never received).     *)
(* What the runtime does with a batch is left open here: it acknowledges   *)
(* or hands back its messages in any order, or not at all.                 *)
(*                                                                         *)
(* One step is one turn of the event loop.  Listeners run once per turn    *)
(* that changed something (`notifying`), one after another, with nothing   *)
(* in between; timers only fire when no listener is about to run.          *)
(***************************************************************************)
EXTENDS Naturals, FiniteSets, Functions

CONSTANTS
  FifoModes,          \* the modes of queue considered: a subset of BOOLEAN
  Groups,             \* message groups of a FIFO queue
  NoGroup,            \* the group of the messages of a standard queue
  DedupIds,           \* deduplication ids of a FIFO queue
  Delays,             \* the delays of queues, and of the messages of a standard queue
  MaxDelay,           \* the longest of them
  VisibilityTimeout,
  MaxVisibility,      \* MAX_VISIBILITY_TIMEOUT
  Timeouts,           \* the timeouts changeVisibility is called with
  Retention,
  DeadRetention,
  MaxAttempts,        \* deadLetter.maxAttempts
  DedupInterval,      \* DEDUPLICATION_INTERVAL
  Pollers,
  BatchSize,
  BatchWindow,        \* of a standard queue: a FIFO queue has none
  Concurrency,
  Clients,            \* callers of receiveMessage
  WaitTime,           \* how long a client waits
  MaxSent,            \* bound on the messages sent
  MaxTime             \* bound on the time

ASSUME ConstantsAssumption ==
  /\ FifoModes \subseteq BOOLEAN
  /\ NoGroup \notin Groups
  /\ MaxDelay \in Nat /\ Delays \subseteq 0..MaxDelay /\ Timeouts \subseteq Nat
  /\ VisibilityTimeout \in Nat \ {0} /\ MaxVisibility \in Nat /\ VisibilityTimeout <= MaxVisibility
  /\ Retention \in Nat \ {0} /\ DeadRetention \in Nat /\ MaxAttempts \in Nat \ {0} /\ DedupInterval \in Nat
  /\ BatchSize \in Nat \ {0} /\ BatchWindow \in Nat /\ Concurrency \in Nat \ {0}
  /\ WaitTime \in Nat /\ MaxSent \in Nat /\ MaxTime \in Nat

VARIABLES
  fifo,         \* fifoMode, fixed when the queue is created
  delay,        \* parameters.delay, fixed as well
  now,          \* Date.now()
  sent,         \* messages sent so far
  messages,     \* the queue: its messages by number
  deadLetters,  \* the dead-letter queue: expire times by number
  dedups,       \* deduplications: expire times by key
  wakeUp,       \* when the wake-up timer fires
  notifying,    \* isNotifying: the listeners are about to run
  stopped,      \* isStopped
  due,          \* pollers the running notification has yet to call
  active,       \* activeBatches of each poller
  batches,      \* the receipts each batch has yet to settle
  pending,      \* pendingMessages of each poller
  window,       \* when the window timer of each poller fires
  client,       \* clients: idle, waiting or woken up, and until when they wait
  drain         \* the waiter of waitForDrain: absent, waiting, or about to check

queueVars == <<messages, deadLetters, wakeUp, notifying>>
pollerVars == <<due, active, batches, pending, window>>
vars == <<fifo, delay, now, sent, dedups, stopped, client, drain, queueVars, pollerVars>>

Ids == 1..MaxSent
Slots == 1..(Concurrency + 1)
Receipts == Ids \X (Nat \ {0})

\* A time past all others, for a timer that is not set.
Never == MaxTime + Retention + MaxVisibility + DedupInterval + BatchWindow + WaitTime + MaxDelay + 1
Times == 0..Never

Idle == [is |-> "idle", until |-> 0]

Message ==
  [group : Groups \cup {NoGroup}, dedup : DedupIds \cup {NoGroup}, sentAt : Times, visibleAt : Times,
   receiveCount : Nat, receivedAt : Times]

TypeOK ==
  /\ fifo \in FifoModes /\ delay \in Delays /\ now \in 0..MaxTime /\ sent \in 0..MaxSent /\ stopped \in BOOLEAN
  /\ DOMAIN messages \subseteq 1..sent /\ messages \in [DOMAIN messages -> Message]
  /\ DOMAIN deadLetters \subseteq 1..sent \ DOMAIN messages
  /\ DOMAIN dedups \subseteq Groups \X DedupIds /\ \A k \in DOMAIN dedups : dedups[k] \in Times
  /\ wakeUp \in Times /\ notifying \in BOOLEAN
  /\ due \subseteq Pollers
  /\ active \in [Pollers -> SUBSET Slots] /\ batches \in [Pollers -> [Slots -> SUBSET Receipts]]
  /\ pending \in [Pollers -> SUBSET Receipts] /\ window \in [Pollers -> Times]
  /\ \A p \in Pollers :
       /\ \A s \in Slots : s \in active[p] \/ batches[p][s] = {}
       /\ pending[p] # {} <=> window[p] # Never
       /\ Cardinality(pending[p]) < BatchSize
  /\ client \in [Clients -> [is : {"idle", "waiting", "woken"}, until : Times]]
  /\ drain \in {"absent", "waiting", "check"}

Init ==
  /\ fifo \in FifoModes /\ delay \in Delays
  /\ now = 0 /\ sent = 0
  /\ messages = <<>> /\ deadLetters = <<>> /\ dedups = <<>>
  /\ wakeUp = Never /\ notifying = FALSE /\ stopped = FALSE
  /\ due = {}
  /\ active = [p \in Pollers |-> {}]
  /\ batches = [p \in Pollers |-> [s \in Slots |-> {}]]
  /\ pending = [p \in Pollers |-> {}]
  /\ window = [p \in Pollers |-> Never]
  /\ client = [c \in Clients |-> Idle]
  /\ drain = "absent"

-----------------------------------------------------------------------------
(* The queue                                                               *)

MinOf(S) == CHOOSE x \in S : \A y \in S : x <= y

ExpireTime(m) == m.sentAt + Retention
IsInFlight(m) == m.receiveCount > 0 /\ m.visibleAt > now

\* dropExpiredMessages: the messages that are left.
Unexpired == {i \in DOMAIN messages : ExpireTime(messages[i]) > now}

\* Mutant: the timer only waits for messages to become visible.
NextVisibleTime(msgs) ==
  MinOf({Never} \cup {msgs[i].visibleAt : i \in {j \in DOMAIN msgs : msgs[j].visibleAt > now}})

\* The time of the next message to become visible or to expire.
NextTime(msgs) ==
  MinOf({Never} \cup {msgs[i].visibleAt : i \in {j \in DOMAIN msgs : msgs[j].visibleAt > now}}
                \cup {ExpireTime(msgs[i]) : i \in DOMAIN msgs})

\* scheduleWakeUp, with the messages as they are after the change.
ScheduleWakeUp == wakeUp' = IF stopped THEN wakeUp ELSE NextTime(messages')

SameGroup(i, j) == fifo /\ messages[i].group = messages[j].group

\* Mutant: a group is not held by its later messages in flight.
ReadyDespiteFlight ==
  {i \in Unexpired :
     /\ messages[i].visibleAt <= now
     /\ \A j \in Unexpired : SameGroup(i, j) /\ j < i => messages[j].visibleAt <= now}

\* The messages a receive looks at and does not skip: visible, in no group with a message in flight, and with
\* no earlier message of the group that is not visible yet.
Ready ==
  {i \in Unexpired :
     /\ messages[i].visibleAt <= now
     /\ \A j \in Unexpired :
          SameGroup(i, j) => ~IsInFlight(messages[j]) /\ (j < i => messages[j].visibleAt <= now)}

Receivable == {i \in Ready : messages[i].receiveCount < MaxAttempts}

\* Mutant: a receive goes through the messages by the time they became visible, not in the order they were sent.
ReachesByVisibility(i, max) ==
  LET Precedes(j) == \/ messages[j].visibleAt < messages[i].visibleAt
                     \/ messages[j].visibleAt = messages[i].visibleAt /\ j < i
  IN  Cardinality({j \in Receivable : Precedes(j)}) < max

\* Whether a receive of up to max messages gets as far as message i before it is full.
Reaches(i, max) == Cardinality({j \in Receivable : j < i}) < max

Taken(max) == {i \in Receivable : Reaches(i, max)}
Exhausted(max) == {i \in Ready \ Receivable : Reaches(i, max)}

\* The receipts of a receive.
Received(max) == {<<i, messages[i].receiveCount + 1>> : i \in Taken(max)}

\* receiveMessages: expired messages are dropped, those out of attempts go to the dead-letter queue, and up to
\* max of the others become invisible for the visibility timeout.
ReceiveMessages(max) ==
  /\ messages' = [i \in Unexpired \ Exhausted(max) |->
       IF i \in Taken(max)
       THEN [messages[i] EXCEPT !.receiveCount = @ + 1, !.receivedAt = now, !.visibleAt = now + VisibilityTimeout]
       ELSE messages[i]]
  /\ deadLetters' = [i \in DOMAIN deadLetters \cup Exhausted(max) |->
       IF i \in DOMAIN deadLetters THEN deadLetters[i]
       ELSE (IF fifo THEN now ELSE messages[i].sentAt) + DeadRetention]
  /\ ScheduleWakeUp
  /\ notifying' = (notifying \/ Unexpired # DOMAIN messages \/ Exhausted(max) # {})

\* Nothing runs between the listeners of one notification.
Quiet == due = {} /\ drain # "check"

LiveDedups == {k \in DOMAIN dedups : dedups[k] > now}

\* sendMessage: a message of a FIFO queue has the delay of its queue, one of a standard queue the queue's or its
\* own (see Next).  A FIFO queue takes a duplicate within the interval without delivering it.
Send(group, dedup, d) ==
  /\ Quiet /\ sent < MaxSent
  /\ IF fifo
     THEN dedups' = [k \in LiveDedups \cup {<<group, dedup>>} |->
            IF k \in LiveDedups THEN dedups[k] ELSE now + DedupInterval]
     ELSE UNCHANGED dedups
  /\ IF fifo /\ <<group, dedup>> \in LiveDedups
     THEN UNCHANGED <<sent, queueVars>>
     ELSE /\ sent' = sent + 1
          /\ messages' = [i \in DOMAIN messages \cup {sent + 1} |->
               IF i = sent + 1
               THEN [group |-> group, dedup |-> dedup, sentAt |-> now, visibleAt |-> now + d,
                     receiveCount |-> 0, receivedAt |-> 0]
               ELSE messages[i]]
          /\ ScheduleWakeUp
          /\ notifying' = TRUE
          /\ UNCHANGED deadLetters
  /\ UNCHANGED <<fifo, delay, now, stopped, client, drain, pollerVars>>

\* The wake-up timer.
WakeUp ==
  /\ Quiet /\ ~notifying /\ ~stopped /\ wakeUp <= now
  /\ messages' = Restrict(messages, Unexpired)
  /\ ScheduleWakeUp
  /\ notifying' = TRUE
  /\ UNCHANGED <<fifo, delay, now, sent, dedups, deadLetters, stopped, client, drain, pollerVars>>

\* getDeadLetterMessages.
GetDeadLetterMessages ==
  /\ Quiet
  /\ deadLetters' = Restrict(deadLetters, {i \in DOMAIN deadLetters : deadLetters[i] > now})
  /\ UNCHANGED <<fifo, delay, now, sent, dedups, messages, wakeUp, notifying, stopped, client, drain, pollerVars>>

WakeClients == client' = [c \in Clients |-> IF client[c] = Idle THEN Idle ELSE [client[c] EXCEPT !.is = "woken"]]

\* notify: the listeners, the pollers before the waiters.
Notify ==
  /\ Quiet /\ notifying
  /\ notifying' = FALSE
  /\ due' = IF stopped THEN {} ELSE Pollers
  /\ WakeClients
  /\ drain' = IF drain = "waiting" THEN "check" ELSE drain
  /\ UNCHANGED <<fifo, delay, now, sent, dedups, messages, deadLetters, wakeUp, stopped, active, batches, pending, window>>

-----------------------------------------------------------------------------
(* The pollers                                                             *)

Window == IF fifo THEN 0 ELSE BatchWindow

HasCapacity(p) == Cardinality(active[p]) < Concurrency
IsIdle(p) == active[p] = {} /\ pending[p] = {}

DispatchBatch(p, receipts) ==
  LET s == MinOf(Slots \ active[p]) IN
  /\ active' = [active EXCEPT ![p] = @ \cup {s}]
  /\ batches' = [batches EXCEPT ![p][s] = receipts]

Room(p) == BatchSize - Cardinality(pending[p])
Batch(p) == pending[p] \cup Received(Room(p))

\* pollQueue, one turn of its loop: it goes on until it is out of capacity or the queue out of messages.
PollQueue(p) ==
  /\ p \in due
  /\ \/ /\ ~HasCapacity(p)
        /\ due' = due \ {p}
        /\ UNCHANGED <<queueVars, active, batches, pending, window>>
     \/ /\ HasCapacity(p) /\ Received(Room(p)) = {}
        /\ ReceiveMessages(Room(p))
        /\ due' = due \ {p}
        /\ UNCHANGED <<active, batches, pending, window>>
     \/ /\ HasCapacity(p) /\ Received(Room(p)) # {}
        /\ ReceiveMessages(Room(p))
        /\ IF Window = 0 \/ Cardinality(Batch(p)) = BatchSize
           THEN /\ DispatchBatch(p, Batch(p))
                /\ pending' = [pending EXCEPT ![p] = {}]
                /\ window' = [window EXCEPT ![p] = Never]
                /\ UNCHANGED due
           ELSE /\ pending' = [pending EXCEPT ![p] = Batch(p)]
                /\ window' = [window EXCEPT ![p] = IF @ = Never THEN now + Window ELSE @]
                /\ due' = due \ {p}
                /\ UNCHANGED <<active, batches>>
  /\ UNCHANGED <<fifo, delay, now, sent, dedups, stopped, client, drain>>

\* Mutant: the window timer is not cleared with the batch it fills.
WindowTimerKept(p) ==
  /\ Quiet /\ ~notifying /\ window[p] <= now /\ pending[p] # {}
  /\ DispatchBatch(p, pending[p])
  /\ pending' = [pending EXCEPT ![p] = {}]
  /\ UNCHANGED <<fifo, delay, now, sent, dedups, stopped, client, drain, queueVars, due, window>>

\* The window timer: dispatchPending.
WindowTimer(p) ==
  /\ Quiet /\ ~notifying /\ window[p] <= now
  /\ DispatchBatch(p, pending[p])
  /\ pending' = [pending EXCEPT ![p] = {}]
  /\ window' = [window EXCEPT ![p] = Never]
  /\ UNCHANGED <<fifo, delay, now, sent, dedups, stopped, client, drain, queueVars, due>>

Settle(p, s, receipt) == batches' = [batches EXCEPT ![p][s] = @ \ {receipt}]

IsCurrent(receipt) == receipt[1] \in DOMAIN messages /\ messages[receipt[1]].receiveCount = receipt[2]

\* Mutant: the message of a receipt is deleted, whichever receipt it has now.
AckAnyReceipt(p, s, receipt) ==
  /\ Quiet /\ receipt \in batches[p][s]
  /\ Settle(p, s, receipt)
  /\ IF receipt[1] \in DOMAIN messages
     THEN /\ messages' = Restrict(messages, DOMAIN messages \ {receipt[1]})
          /\ ScheduleWakeUp
          /\ notifying' = TRUE
     ELSE UNCHANGED <<messages, wakeUp, notifying>>
  /\ UNCHANGED <<fifo, delay, now, sent, dedups, deadLetters, stopped, due, active, pending, window, client, drain>>

\* deleteMessage: the receipt of an earlier receive deletes nothing.
Ack(p, s, receipt) ==
  /\ Quiet /\ receipt \in batches[p][s]
  /\ Settle(p, s, receipt)
  /\ IF IsCurrent(receipt)
     THEN /\ messages' = Restrict(messages, DOMAIN messages \ {receipt[1]})
          /\ ScheduleWakeUp
          /\ notifying' = TRUE
     ELSE UNCHANGED <<messages, wakeUp, notifying>>
  /\ UNCHANGED <<fifo, delay, now, sent, dedups, deadLetters, stopped, due, active, pending, window, client, drain>>

\* changeVisibility: only a message in flight changes, and within the limit counted from its receive.
HandBack(p, s, receipt, timeout) ==
  /\ Quiet /\ receipt \in batches[p][s]
  /\ Settle(p, s, receipt)
  /\ IF /\ IsCurrent(receipt) /\ IsInFlight(messages[receipt[1]])
        /\ now + timeout <= messages[receipt[1]].receivedAt + MaxVisibility
     THEN /\ messages' = [messages EXCEPT ![receipt[1]].visibleAt = now + timeout]
          /\ ScheduleWakeUp
          /\ notifying' = TRUE
     ELSE UNCHANGED <<messages, wakeUp, notifying>>
  /\ UNCHANGED <<fifo, delay, now, sent, dedups, deadLetters, stopped, due, active, pending, window, client, drain>>

\* Mutant: the end of a batch tells nobody.
EndBatchSilently(p, s) ==
  /\ Quiet /\ s \in active[p]
  /\ active' = [active EXCEPT ![p] = @ \ {s}]
  /\ batches' = [batches EXCEPT ![p][s] = {}]
  /\ UNCHANGED <<fifo, delay, now, sent, dedups, stopped, client, drain, queueVars, due, pending, window>>

\* The batch finished, failed or reached its timeout: what it did not settle waits for its visibility timeout.
EndBatch(p, s) ==
  /\ Quiet /\ s \in active[p]
  /\ active' = [active EXCEPT ![p] = @ \ {s}]
  /\ batches' = [batches EXCEPT ![p][s] = {}]
  /\ notifying' = TRUE
  /\ UNCHANGED <<fifo, delay, now, sent, dedups, stopped, client, drain, messages, deadLetters, wakeUp, due, pending, window>>

-----------------------------------------------------------------------------
(* Clients that receive, waiters for the drain, shutdown and time          *)

\* pollMessages, a receive of one message: with nothing received, the client waits for a change.
ClientReceive(c, until) ==
  /\ ReceiveMessages(1)
  /\ client' = [client EXCEPT ![c] =
       IF Taken(1) = {} /\ ~stopped /\ now < until THEN [is |-> "waiting", until |-> until] ELSE Idle]
  /\ UNCHANGED <<fifo, delay, now, sent, dedups, stopped, drain, pollerVars>>

PollMessages(c) ==
  /\ Quiet /\ client[c] = Idle
  /\ ClientReceive(c, now + WaitTime)

\* waitForChange resolved, by a change or by its timeout.
ClientWoken(c) ==
  /\ Quiet
  /\ \/ client[c].is = "woken"
     \/ client[c].is = "waiting" /\ ~notifying /\ client[c].until <= now
  /\ ClientReceive(c, client[c].until)

\* waitForDrain: the condition is checked at once, then after every notification.
WaitForDrain ==
  /\ Quiet /\ drain = "absent" /\ ~stopped
  /\ drain' = "check"
  /\ UNCHANGED <<fifo, delay, now, sent, dedups, stopped, client, queueVars, pollerVars>>

CheckDrain ==
  /\ due = {} /\ drain = "check"
  /\ messages' = Restrict(messages, Unexpired)
  /\ notifying' = (notifying \/ Unexpired # DOMAIN messages)
  /\ drain' = IF stopped \/ (Unexpired = {} /\ \A p \in Pollers : IsIdle(p)) THEN "absent" ELSE "waiting"
  /\ UNCHANGED <<fifo, delay, now, sent, dedups, deadLetters, wakeUp, stopped, client, pollerVars>>

\* shutdownHandler: the pollers stop, their batches are abandoned, and whoever waits gets an answer.
Shutdown ==
  /\ Quiet /\ ~stopped
  /\ stopped' = TRUE
  /\ wakeUp' = Never
  /\ active' = [p \in Pollers |-> {}]
  /\ batches' = [p \in Pollers |-> [s \in Slots |-> {}]]
  /\ pending' = [p \in Pollers |-> {}]
  /\ window' = [p \in Pollers |-> Never]
  /\ WakeClients
  /\ drain' = "absent"
  /\ UNCHANGED <<fifo, delay, now, sent, dedups, messages, deadLetters, notifying, due>>

Tick ==
  /\ Quiet /\ now < MaxTime
  /\ now' = now + 1
  /\ UNCHANGED <<fifo, delay, sent, dedups, stopped, client, drain, queueVars, pollerVars>>

Next ==
  \/ \E g \in Groups, k \in DedupIds : fifo /\ Send(g, k, delay)
  \/ \E d \in Delays : ~fifo /\ Send(NoGroup, NoGroup, d)
  \/ WakeUp \/ GetDeadLetterMessages \/ Notify
  \/ \E p \in Pollers :
       \/ PollQueue(p) \/ WindowTimer(p)
       \/ \E s \in Slots :
            \/ EndBatch(p, s)
            \/ \E receipt \in batches[p][s] : Ack(p, s, receipt) \/ \E t \in Timeouts : HandBack(p, s, receipt, t)
  \/ \E c \in Clients : PollMessages(c) \/ ClientWoken(c)
  \/ WaitForDrain \/ CheckDrain \/ Shutdown \/ Tick

Spec == Init /\ [][Next]_vars

-----------------------------------------------------------------------------
(* Properties                                                              *)

\* A receipt that still gives a consumer power over its message.
IsLive(receipt) == IsCurrent(receipt) /\ IsInFlight(messages[receipt[1]])

\* A FIFO group is worked on by one batch at a time (queue.ts: blockedGroups): receipts of one group that are
\* still good are never in two batches, whatever was handed back, timed out or received again.
OneBatchPerGroup ==
  fifo => \A p, q \in Pollers, s, t \in Slots :
    \A x \in batches[p][s], y \in batches[q][t] :
      IsLive(x) /\ IsLive(y) /\ messages[x[1]].group = messages[y[1]].group => p = q /\ s = t

\* No message of a FIFO group is received before an earlier one of its group, whether the earlier one waits for
\* its delay, is in flight or was handed back (queue.ts: blockedGroups, and the order the messages are gone
\* through): what is received takes along all that precedes it in the group.
GroupsInOrder ==
  [][fifo => \A i, j \in DOMAIN messages' :
       /\ i \in DOMAIN messages /\ messages'[i].receiveCount > messages[i].receiveCount
       /\ j < i /\ messages'[j].group = messages'[i].group
       => messages'[j].receiveCount > messages[j].receiveCount]_vars

\* The receipts some batch, or some batch being filled, still has to settle.
Open == UNION {(UNION {batches[p][s] : s \in Slots}) \cup pending[p] : p \in Pollers}

\* A message is never lost: it leaves the queue only when its latest receipt is settled, at the end of its
\* retention, or to the dead-letter queue with its attempts spent and nobody holding it.
LeavesOnlySettled ==
  [][\A i \in DOMAIN messages \ DOMAIN messages' :
       LET receipt == <<i, messages[i].receiveCount>> IN
       \/ ExpireTime(messages[i]) <= now
       \/ i \in DOMAIN deadLetters' /\ messages[i].receiveCount = MaxAttempts /\ ~IsInFlight(messages[i])
       \/ receipt \in Open /\ receipt \notin Open']_vars

\* The wake-up timer covers every message (queue.ts: scheduleWakeUp): it fires no later than the next message
\* becomes visible or expires.
TimerCoversMessages ==
  ~stopped => \A i \in DOMAIN messages :
    /\ wakeUp <= ExpireTime(messages[i])
    /\ messages[i].visibleAt > now => wakeUp <= messages[i].visibleAt

WakeUpPending == notifying \/ ~Quiet \/ wakeUp <= now

\* Poller p has capacity, message i is there for it to receive, and nothing is about to call the poller: no
\* notification is coming or has yet to reach it, and the wake-up timer is set for a later time.
Sleeps(p, i) == i \in Receivable /\ ~stopped /\ HasCapacity(p) /\ ~notifying /\ p \notin due /\ wakeUp > now

\* A client receives (pollMessages) although the wake-up timer is due and has not fired yet.
ClientCameFirst ==
  /\ Quiet /\ ~notifying /\ wakeUp <= now
  /\ \E i \in DOMAIN messages \cap DOMAIN messages' : messages'[i].receiveCount > messages[i].receiveCount
  /\ UNCHANGED pollerVars

\* No step leaves a poller with capacity asleep over a message it could receive (queue.ts: scheduleWakeUp): no
\* send, settlement, hand-back, timeout or end of a batch, and no receive of this or of another poller.  The one
\* exception is the receive of a client between the time a message becomes visible and the firing of the timer
\* set for it: the timer is moved on, and the notification it stood for is never sent.
PollersDontSleep ==
  [][\A p \in Pollers, i \in Ids : Sleeps(p, i)' => Sleeps(p, i) \/ ClientCameFirst]_vars

\* A drained queue is noticed: with nothing left and every poller idle, whoever waits for the drain is about to
\* be called (local.ts: waitForDrain).
DrainIsNoticed ==
  drain = "waiting" /\ ~stopped /\ Unexpired = {} /\ (\A p \in Pollers : IsIdle(p)) => WakeUpPending
=============================================================================
