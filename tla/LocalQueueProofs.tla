-------------------------- MODULE LocalQueueProofs --------------------------
(***************************************************************************)
(* The local queue, for any number of pollers, clients, messages and       *)
(* groups, any times and any limits: its types, its groups, its wake-up    *)
(* timer and its drain.                                                    *)
(***************************************************************************)
EXTENDS LocalQueue, FiniteSetTheorems, TLAPS

-----------------------------------------------------------------------------
(* Sets of numbers                                                         *)

\* A set of numbers has a smallest one.
LEMMA MinOfIsLeast ==
  ASSUME NEW S \in SUBSET Nat, S # {}
  PROVE  MinOf(S) \in S /\ \A y \in S : MinOf(S) <= y
<1> DEFINE R == OpToRel(<, Nat)
<1>1. \A x, y \in Nat : x < y => <<x, y>> \in R
  BY DEF OpToRel
<1>2. IsWellFoundedOn(R, Nat)
  BY NatLessThanWellFounded
<1> HIDE DEF R
<1>3. PICK x \in S : \A y \in S : ~(<<y, x>> \in R)
  BY <1>2, WFMin
<1>4. \A y \in S : ~(y < x)
  BY <1>1, <1>3
<1>5. \A y \in S : x <= y
  BY <1>4
<1> QED
  BY <1>5 DEF MinOf

\* A bounded set of numbers has a largest one.
LEMMA HasLargest ==
  ASSUME NEW n \in Nat, NEW S \in SUBSET (0..n), S # {}
  PROVE  \E m \in S : \A y \in S : y <= m
<1> DEFINE T == {n - y : y \in S}
<1>1. T \in SUBSET Nat /\ T # {}
  <2>1. \A y \in S : y \in 0..n /\ n - y \in Nat
    OBVIOUS
  <2> QED
    BY <2>1
<1>2. MinOf(T) \in T /\ \A y \in T : MinOf(T) <= y
  BY <1>1, MinOfIsLeast
<1>3. PICK m \in S : MinOf(T) = n - m
  BY <1>2
<1>4. \A y \in S : n - m <= n - y
  BY <1>2, <1>3
<1> QED
  BY <1>4

\* Those of a bounded set with fewer than max before them are at most max, and there are some if max allows any.
LEMMA AtMostMax ==
  ASSUME NEW n \in Nat, NEW S \in SUBSET (1..n), NEW max \in Nat,
         NEW T, T = {i \in S : Cardinality({j \in S : j < i}) < max}
  PROVE  /\ IsFiniteSet(T) /\ Cardinality(T) <= max
         /\ max # 0 /\ S # {} => T # {}
<1>1. IsFiniteSet(S)
  <2>1. IsFiniteSet(1..n)
    BY FS_Interval
  <2> QED
    BY <2>1, FS_Subset
<1>2. IsFiniteSet(T)
  BY <1>1, FS_Subset
<1>3. Cardinality(T) <= max
  <2>1. CASE T = {}
    <3>1. Cardinality({}) = 0
      BY FS_EmptySet
    <3>2. 0 <= max
      OBVIOUS
    <3> QED
      BY <2>1, <3>1, <3>2
  <2>2. CASE T # {}
    <3>1. T \in SUBSET (0..n)
      <4>1. \A y \in T : y \in 1..n
        OBVIOUS
      <4>2. \A y \in 1..n : y \in 0..n
        OBVIOUS
      <4> QED
        BY <4>1, <4>2
    <3>2. PICK m \in T : \A y \in T : y <= m
      BY <3>1, <2>2, HasLargest
    <3> DEFINE before == {j \in S : j < m}
    <3>3. IsFiniteSet(before) /\ Cardinality(before) \in Nat
      BY <1>1, FS_Subset, FS_CardinalityType
    <3>4. Cardinality(before) < max
      BY <3>2
    <3>5. IsFiniteSet(before \cup {m}) /\ Cardinality(before \cup {m}) = Cardinality(before) + 1
      <4>1. m \notin before
        BY <3>1
      <4> HIDE DEF before
      <4> QED
        BY <3>3, <4>1, FS_AddElement
    <3>6. T \in SUBSET (before \cup {m})
      BY <3>1, <3>2
    <3> HIDE DEF before
    <3>7. Cardinality(T) <= Cardinality(before \cup {m})
      BY <3>5, <3>6, FS_Subset
    <3>8. Cardinality(T) \in Nat
      BY <1>2, FS_CardinalityType
    <3> QED
      BY <3>3, <3>4, <3>5, <3>7, <3>8
  <2> QED
    BY <2>1, <2>2
<1>4. ASSUME max # 0, S # {} PROVE T # {}
  <2>1. S \in SUBSET Nat
    OBVIOUS
  <2>2. MinOf(S) \in S /\ \A y \in S : MinOf(S) <= y
    BY <1>4, <2>1, MinOfIsLeast
  <2>3. PICK m \in S : \A y \in S : m <= y
    BY <2>2
  <2>4. \A y \in S : ~(y < m)
    BY <2>1, <2>3
  <2>5. {j \in S : j < m} = {}
    BY <2>4
  <2>6. Cardinality({j \in S : j < m}) = 0
    BY <2>5, FS_EmptySet
  <2>7. 0 < max
    BY <1>4
  <2> QED
    BY <2>6, <2>7
<1> QED
  BY <1>2, <1>3, <1>4

-----------------------------------------------------------------------------
(* The inductive invariants                                                *)

QueueTypeOK ==
  /\ fifo \in FifoModes /\ now \in 0..MaxTime /\ sent \in 0..MaxSent /\ stopped \in BOOLEAN
  /\ DOMAIN messages \subseteq 1..sent /\ messages \in [DOMAIN messages -> Message]
  /\ DOMAIN deadLetters \subseteq 1..sent \ DOMAIN messages
  /\ wakeUp \in Times /\ notifying \in BOOLEAN

\* What a message counts is of the past, and its attempts are limited.
InBounds(m) == m.sentAt <= now /\ m.receivedAt <= now /\ m.receiveCount <= MaxAttempts

MessagesInBounds == \A i \in DOMAIN messages : InBounds(messages[i])

PollersTypeOK ==
  /\ due \subseteq Pollers
  /\ active \in [Pollers -> SUBSET Slots] /\ batches \in [Pollers -> [Slots -> SUBSET Receipts]]
  /\ pending \in [Pollers -> SUBSET Receipts] /\ window \in [Pollers -> Times]

\* A poller that fills a batch has room for the batch; only one with a batch window does.
PollerInv(p) ==
  /\ \A s \in Slots : s \in active[p] \/ batches[p][s] = {}
  /\ pending[p] # {} <=> window[p] # Never
  /\ IsFiniteSet(pending[p]) /\ Cardinality(pending[p]) < BatchSize
  /\ Cardinality(active[p]) <= Concurrency
  /\ pending[p] # {} => HasCapacity(p) /\ ~fifo

RestTypeOK ==
  /\ DOMAIN dedups \subseteq Groups \X DedupIds /\ \A k \in DOMAIN dedups : dedups[k] \in Times
  /\ client \in [Clients -> [is : {"idle", "waiting", "woken"}, until : Times]]
  /\ drain \in {"absent", "waiting", "check"}

QueueInv == QueueTypeOK /\ MessagesInBounds
TypeInv == QueueInv /\ PollersTypeOK /\ (\A p \in Pollers : PollerInv(p)) /\ RestTypeOK /\ delay \in Delays

\* What every step does to the messages: those that come are new, and those that stay keep their group; a
\* receipt that does not change gets no second life.
Continues ==
  /\ sent <= sent' /\ fifo' = fifo
  /\ \A i \in DOMAIN messages' :
       \/ i \notin DOMAIN messages /\ sent < i
       \/ /\ i \in DOMAIN messages
          /\ messages'[i].group = messages[i].group
          /\ messages[i].receiveCount <= messages'[i].receiveCount
          /\ messages'[i].receiveCount = messages[i].receiveCount /\ messages'[i].visibleAt > now'
               => messages[i].visibleAt > now

LEMMA Constants ==
  /\ MaxTime \in Nat /\ MaxSent \in Nat /\ MaxDelay \in Nat /\ MaxVisibility \in Nat /\ Retention \in Nat
  /\ DedupInterval \in Nat /\ BatchWindow \in Nat /\ WaitTime \in Nat /\ VisibilityTimeout \in Nat
  /\ MaxAttempts \in Nat /\ MaxAttempts # 0 /\ BatchSize \in Nat /\ BatchSize # 0
  /\ Concurrency \in Nat /\ Concurrency # 0
  /\ VisibilityTimeout <= MaxVisibility
  /\ Never \in Nat
  /\ Times = 0..Never
  /\ \A t \in 0..MaxTime :
       /\ t + Retention \in Times /\ t + MaxVisibility \in Times /\ t + VisibilityTimeout \in Times
       /\ t + DedupInterval \in Times
       /\ t + BatchWindow \in Times /\ t + BatchWindow # Never /\ t + WaitTime \in Times /\ t \in Times
       /\ \A d \in 0..MaxDelay : t + d \in Times
       /\ t # Never
  /\ IsFiniteSet(Slots) /\ Cardinality(Slots) = Concurrency + 1 /\ Slots \in SUBSET Nat
<1>1. /\ MaxTime \in Nat /\ MaxSent \in Nat /\ MaxDelay \in Nat /\ MaxVisibility \in Nat /\ Retention \in Nat
      /\ DedupInterval \in Nat /\ BatchWindow \in Nat /\ WaitTime \in Nat /\ VisibilityTimeout \in Nat
      /\ MaxAttempts \in Nat /\ MaxAttempts # 0 /\ BatchSize \in Nat /\ BatchSize # 0
      /\ Concurrency \in Nat /\ Concurrency # 0
      /\ VisibilityTimeout <= MaxVisibility
  BY ConstantsAssumption
<1>2. Never \in Nat /\ Times = 0..Never
  BY <1>1 DEF Never, Times
<1>3. ASSUME NEW t \in 0..MaxTime
      PROVE  /\ t + Retention \in Times /\ t + MaxVisibility \in Times /\ t + VisibilityTimeout \in Times
             /\ t + DedupInterval \in Times
             /\ t + BatchWindow \in Times /\ t + BatchWindow # Never /\ t + WaitTime \in Times /\ t \in Times
             /\ \A d \in 0..MaxDelay : t + d \in Times
             /\ t # Never
  BY <1>1, <1>2 DEF Never
<1>4. IsFiniteSet(Slots) /\ Cardinality(Slots) = Concurrency + 1 /\ Slots \in SUBSET Nat
  <2>1. 1 \in Int /\ Concurrency + 1 \in Int /\ ~(1 > Concurrency + 1) /\ (Concurrency + 1) - 1 + 1 = Concurrency + 1
    BY <1>1
  <2>2. IsFiniteSet(Slots) /\ Cardinality(Slots) = Concurrency + 1
    BY <2>1, FS_Interval DEF Slots
  <2>3. \A s \in Slots : s \in Nat
    BY DEF Slots
  <2> QED
    BY <2>2, <2>3
<1> QED
  BY <1>1, <1>2, <1>3, <1>4

-----------------------------------------------------------------------------
(* The operations of the queue                                             *)

\* The wake-up timer is set to the first of its times.
LEMMA NextTimeIsFirst ==
  ASSUME now \in 0..MaxTime, NEW msgs, msgs \in [DOMAIN msgs -> Message],
         \A i \in DOMAIN msgs : msgs[i].sentAt <= now
  PROVE  /\ NextTime(msgs) \in Times
         /\ \A i \in DOMAIN msgs :
              /\ NextTime(msgs) <= ExpireTime(msgs[i])
              /\ msgs[i].visibleAt > now => NextTime(msgs) <= msgs[i].visibleAt
<1> DEFINE visible == {msgs[i].visibleAt : i \in {j \in DOMAIN msgs : msgs[j].visibleAt > now}}
           expire == {ExpireTime(msgs[i]) : i \in DOMAIN msgs}
           S == {Never} \cup visible \cup expire
<1>1. NextTime(msgs) = MinOf(S)
  BY DEF NextTime
<1>2. \A i \in DOMAIN msgs : msgs[i] \in Message /\ msgs[i].visibleAt \in Times /\ msgs[i].sentAt \in Times
  BY DEF Message
<1>3. \A i \in DOMAIN msgs : ExpireTime(msgs[i]) \in Times
  <2> SUFFICES ASSUME NEW i \in DOMAIN msgs PROVE ExpireTime(msgs[i]) \in Times
    OBVIOUS
  <2>1. \A x \in Times : x \in Nat
    BY Constants
  <2>2. msgs[i].sentAt \in Nat /\ msgs[i].sentAt <= now
    BY <1>2, <2>1
  <2>3. MaxTime \in Nat
    BY Constants
  <2>4. msgs[i].sentAt \in 0..MaxTime
    BY <2>2, <2>3
  <2> QED
    BY <2>4, Constants DEF ExpireTime
<1>4. \A x \in S : x \in Times
  <2>1. Never \in Times
    BY Constants
  <2> QED
    BY <1>2, <1>3, <2>1
<1>5. \A x \in Times : x \in Nat
  BY Constants
<1>6. S \in SUBSET Nat /\ S # {}
  BY <1>4, <1>5
<1>7. \A i \in DOMAIN msgs : ExpireTime(msgs[i]) \in S /\ (msgs[i].visibleAt > now => msgs[i].visibleAt \in S)
  OBVIOUS
<1> HIDE DEF S, visible, expire
<1>8. MinOf(S) \in S /\ \A y \in S : MinOf(S) <= y
  BY <1>6, MinOfIsLeast
<1> QED
  BY <1>1, <1>4, <1>7, <1>8

\* scheduleWakeUp covers the messages as they are after the change.
LEMMA WakeUpCovers ==
  ASSUME QueueInv, ScheduleWakeUp, now' = now, stopped' = stopped,
         messages' \in [DOMAIN messages' -> Message], MessagesInBounds'
  PROVE  wakeUp' \in Times /\ TimerCoversMessages'
<1>1. CASE stopped
  BY <1>1 DEF ScheduleWakeUp, TimerCoversMessages, QueueInv, QueueTypeOK
<1>2. CASE ~stopped
  <2>1. now \in 0..MaxTime
    BY DEF QueueInv, QueueTypeOK
  <2>2. \A i \in DOMAIN messages' : messages'[i].sentAt <= now
    BY DEF MessagesInBounds, InBounds
  <2>3. /\ NextTime(messages') \in Times
        /\ \A i \in DOMAIN messages' :
             /\ NextTime(messages') <= ExpireTime(messages'[i])
             /\ messages'[i].visibleAt > now => NextTime(messages') <= messages'[i].visibleAt
    BY <2>1, <2>2, NextTimeIsFirst
  <2>4. wakeUp' = NextTime(messages')
    BY <1>2 DEF ScheduleWakeUp
  <2> QED
    BY <2>3, <2>4 DEF TimerCoversMessages, ExpireTime
<1> QED
  BY <1>1, <1>2

\* Messages leave the queue.
LEMMA SomeLeave ==
  ASSUME QueueInv, NEW S, S \subseteq DOMAIN messages, messages' = Restrict(messages, S),
         UNCHANGED <<fifo, now, sent, stopped, deadLetters>>, notifying' \in BOOLEAN
  PROVE  /\ MessagesInBounds' /\ Continues /\ DOMAIN messages' = S
         /\ messages' \in [DOMAIN messages' -> Message]
         /\ wakeUp' \in Times => QueueInv'
<1>1. DOMAIN messages' = S /\ \A i \in S : messages'[i] = messages[i]
  BY DEF Restrict
<1>2. messages' \in [DOMAIN messages' -> Message]
  BY <1>1 DEF QueueInv, QueueTypeOK, Restrict
<1>3. MessagesInBounds'
  BY <1>1 DEF QueueInv, MessagesInBounds, InBounds
<1>4. sent \in Nat /\ \A i \in DOMAIN messages : messages[i].receiveCount \in Nat
  BY Constants DEF QueueInv, QueueTypeOK, Message
<1>5. Continues
  BY <1>1, <1>4 DEF Continues
<1>6. ASSUME wakeUp' \in Times PROVE QueueInv'
  BY <1>1, <1>2, <1>3, <1>6 DEF QueueInv, QueueTypeOK
<1> QED
  BY <1>1, <1>2, <1>3, <1>5, <1>6

\* With the wake-up timer set again, or left alone.
LEMMA SomeLeaveAndTimer ==
  ASSUME QueueInv, TimerCoversMessages, NEW S, S \subseteq DOMAIN messages, messages' = Restrict(messages, S),
         UNCHANGED <<fifo, now, sent, stopped, deadLetters>>, notifying' \in BOOLEAN,
         ScheduleWakeUp \/ wakeUp' = wakeUp
  PROVE  QueueInv' /\ TimerCoversMessages' /\ Continues
<1>1. /\ MessagesInBounds' /\ Continues /\ DOMAIN messages' = S
      /\ messages' \in [DOMAIN messages' -> Message]
      /\ wakeUp' \in Times => QueueInv'
  BY SomeLeave
<1>2. CASE ScheduleWakeUp
  BY <1>1, <1>2, WakeUpCovers
<1>3. CASE wakeUp' = wakeUp
  <2>1. wakeUp' \in Times
    BY <1>3 DEF QueueInv, QueueTypeOK
  <2>2. TimerCoversMessages'
    BY <1>1, <1>3 DEF TimerCoversMessages, Restrict, ExpireTime
  <2> QED
    BY <1>1, <2>1, <2>2
<1> QED
  BY <1>2, <1>3

\* A message is sent.
LEMMA OneComes ==
  ASSUME QueueInv, TimerCoversMessages, NEW m \in Message, InBounds(m), sent < MaxSent, sent' = sent + 1,
         messages' = [i \in DOMAIN messages \cup {sent + 1} |-> IF i = sent + 1 THEN m ELSE messages[i]],
         ScheduleWakeUp, UNCHANGED <<fifo, now, stopped, deadLetters>>, notifying' \in BOOLEAN
  PROVE  QueueInv' /\ TimerCoversMessages' /\ Continues
<1>1. /\ sent \in Nat /\ MaxSent \in Nat
      /\ \A i \in DOMAIN messages : i \in 1..sent /\ i # sent + 1
      /\ \A i \in DOMAIN messages : messages[i].receiveCount \in Nat
  <2>1. sent \in 0..MaxSent /\ MaxSent \in Nat /\ DOMAIN messages \subseteq 1..sent
    BY Constants DEF QueueInv, QueueTypeOK
  <2>2. \A i \in 1..sent : i # sent + 1
    BY <2>1
  <2>3. \A i \in DOMAIN messages : messages[i].receiveCount \in Nat
    BY DEF QueueInv, QueueTypeOK, Message
  <2> QED
    BY <2>1, <2>2, <2>3
<1>2. /\ DOMAIN messages' = DOMAIN messages \cup {sent + 1}
      /\ messages'[sent + 1] = m
      /\ \A i \in DOMAIN messages : messages'[i] = messages[i]
  BY <1>1
<1>3. messages' \in [DOMAIN messages' -> Message]
  BY <1>1, <1>2 DEF QueueInv, QueueTypeOK
<1>4. MessagesInBounds'
  BY <1>2 DEF QueueInv, MessagesInBounds, InBounds
<1>5. wakeUp' \in Times /\ TimerCoversMessages'
  BY <1>3, <1>4, WakeUpCovers
<1>6. /\ DOMAIN messages' \subseteq 1..sent'
      /\ DOMAIN deadLetters' \subseteq 1..sent' \ DOMAIN messages'
      /\ sent' \in 0..MaxSent
  BY <1>1, <1>2 DEF QueueInv, QueueTypeOK
<1>7. QueueInv'
  BY <1>3, <1>4, <1>5, <1>6 DEF QueueInv, QueueTypeOK
<1>8. Continues
  BY <1>1, <1>2 DEF Continues
<1> QED
  BY <1>5, <1>7, <1>8

\* The parts of a receive.
LEMMA ReceiveParts ==
  ASSUME QueueInv, NEW max \in Nat
  PROVE  /\ Taken(max) \subseteq Receivable /\ Receivable \subseteq Ready /\ Ready \subseteq Unexpired
         /\ Unexpired \subseteq DOMAIN messages
         /\ Exhausted(max) \subseteq Ready \ Receivable
         /\ \A i \in Ready : messages[i].visibleAt <= now
         /\ \A i \in Receivable : messages[i].receiveCount < MaxAttempts
         /\ \A i \in Ready \ Receivable : messages[i].receiveCount = MaxAttempts
         /\ IsFiniteSet(Taken(max)) /\ Cardinality(Taken(max)) <= max
         /\ max # 0 /\ Receivable # {} => Taken(max) # {}
<1>1. /\ Taken(max) \subseteq Receivable /\ Receivable \subseteq Ready /\ Ready \subseteq Unexpired
      /\ Unexpired \subseteq DOMAIN messages
      /\ Exhausted(max) \subseteq Ready \ Receivable
  BY DEF Taken, Receivable, Ready, Unexpired, Exhausted
<1>2. /\ \A i \in Ready : messages[i].visibleAt <= now
      /\ \A i \in Receivable : messages[i].receiveCount < MaxAttempts
  BY DEF Ready, Receivable
<1>3. \A i \in Ready \ Receivable : messages[i].receiveCount = MaxAttempts
  <2> SUFFICES ASSUME NEW i \in Ready \ Receivable PROVE messages[i].receiveCount = MaxAttempts
    OBVIOUS
  <2>1. i \in DOMAIN messages
    BY <1>1
  <2>2. messages[i].receiveCount \in Nat /\ messages[i].receiveCount <= MaxAttempts
    BY <2>1 DEF QueueInv, QueueTypeOK, MessagesInBounds, InBounds, Message
  <2>3. ~(messages[i].receiveCount < MaxAttempts)
    BY DEF Receivable
  <2> QED
    BY <2>2, <2>3, Constants
<1>4. Receivable \in SUBSET (1..sent) /\ sent \in Nat
  <2>1. sent \in 0..MaxSent /\ MaxSent \in Nat /\ DOMAIN messages \subseteq 1..sent
    BY Constants DEF QueueInv, QueueTypeOK
  <2>2. sent \in Nat
    BY <2>1
  <2> QED
    BY <1>1, <2>1, <2>2
<1>5. Taken(max) = {i \in Receivable : Cardinality({j \in Receivable : j < i}) < max}
  BY DEF Taken, Reaches
<1>6. /\ IsFiniteSet(Taken(max)) /\ Cardinality(Taken(max)) <= max
      /\ max # 0 /\ Receivable # {} => Taken(max) # {}
  BY <1>4, <1>5, AtMostMax
<1> QED
  BY <1>1, <1>2, <1>3, <1>6

\* What a receive does to each message.
LEMMA ReceiveDoes ==
  ASSUME QueueInv, NEW max \in Nat, ReceiveMessages(max)
  PROVE  /\ DOMAIN messages' = Unexpired \ Exhausted(max)
         /\ Taken(max) \subseteq DOMAIN messages'
         /\ \A i \in Taken(max) :
              /\ messages'[i].receiveCount = messages[i].receiveCount + 1
              /\ messages'[i].receivedAt = now /\ messages'[i].visibleAt = now + VisibilityTimeout
              /\ messages'[i].group = messages[i].group /\ messages'[i].sentAt = messages[i].sentAt
              /\ messages'[i] \in Message
         /\ \A i \in DOMAIN messages' \ Taken(max) : messages'[i] = messages[i]
<1>1. /\ DOMAIN messages' = Unexpired \ Exhausted(max)
      /\ \A i \in DOMAIN messages' :
           messages'[i] = IF i \in Taken(max)
                          THEN [messages[i] EXCEPT !.receiveCount = @ + 1, !.receivedAt = now,
                                                   !.visibleAt = now + VisibilityTimeout]
                          ELSE messages[i]
  BY DEF ReceiveMessages
<1>2. Taken(max) \subseteq DOMAIN messages'
  BY <1>1, ReceiveParts
<1>3. ASSUME NEW i \in Taken(max)
      PROVE  /\ messages'[i].receiveCount = messages[i].receiveCount + 1
             /\ messages'[i].receivedAt = now /\ messages'[i].visibleAt = now + VisibilityTimeout
             /\ messages'[i].group = messages[i].group /\ messages'[i].sentAt = messages[i].sentAt
             /\ messages'[i] \in Message
  <2>1. messages[i] \in Message
    BY ReceiveParts DEF QueueInv, QueueTypeOK
  <2>2. messages'[i] = [messages[i] EXCEPT !.receiveCount = @ + 1, !.receivedAt = now,
                                           !.visibleAt = now + VisibilityTimeout]
    BY <1>1, <1>2
  <2>3. now \in Times /\ now + VisibilityTimeout \in Times
    BY Constants DEF QueueInv, QueueTypeOK
  <2>4. messages[i].receiveCount \in Nat
    BY <2>1 DEF Message
  <2>5. messages[i].receiveCount + 1 \in Nat
    BY <2>4
  <2> QED
    BY <2>1, <2>2, <2>3, <2>5 DEF Message
<1> QED
  BY <1>1, <1>2, <1>3

LEMMA Receives ==
  ASSUME QueueInv, NEW max \in Nat, ReceiveMessages(max), UNCHANGED <<fifo, now, sent, stopped>>
  PROVE  QueueInv' /\ TimerCoversMessages' /\ Continues
<1>1. now \in Nat /\ VisibilityTimeout \in Nat /\ MaxAttempts \in Nat /\ sent \in Nat
  BY Constants DEF QueueInv, QueueTypeOK
<1>2. \A i \in DOMAIN messages : /\ messages[i].receiveCount \in Nat /\ messages[i] \in Message
                                 /\ InBounds(messages[i])
  BY DEF QueueInv, QueueTypeOK, MessagesInBounds, Message
<1>3. messages' \in [DOMAIN messages' -> Message]
  <2>1. \A i \in DOMAIN messages' : messages'[i] \in Message
    BY <1>2, ReceiveDoes, ReceiveParts
  <2>2. messages' = [i \in DOMAIN messages' |-> messages'[i]]
    BY DEF ReceiveMessages
  <2> QED
    BY <2>1, <2>2
<1>4. MessagesInBounds'
  <2> SUFFICES ASSUME NEW i \in DOMAIN messages' PROVE InBounds(messages[i])'
    BY DEF MessagesInBounds
  <2>1. i \in DOMAIN messages
    BY ReceiveDoes, ReceiveParts
  <2>2. CASE i \in Taken(max)
    <3>1. /\ messages'[i].receiveCount = messages[i].receiveCount + 1
          /\ messages'[i].receivedAt = now /\ messages'[i].sentAt = messages[i].sentAt
      BY <2>2, ReceiveDoes
    <3>2. messages[i].receiveCount < MaxAttempts
      BY <2>2, ReceiveParts
    <3> QED
      BY <1>1, <1>2, <2>1, <3>1, <3>2 DEF InBounds
  <2>3. CASE i \notin Taken(max)
    BY <1>2, <2>1, <2>3, ReceiveDoes DEF InBounds
  <2> QED
    BY <2>2, <2>3
<1>5. wakeUp' \in Times /\ TimerCoversMessages'
  BY <1>3, <1>4, WakeUpCovers DEF ReceiveMessages
<1>6. DOMAIN messages' \subseteq 1..sent /\ DOMAIN deadLetters' \subseteq 1..sent \ DOMAIN messages'
  <2>1. DOMAIN deadLetters' = DOMAIN deadLetters \cup Exhausted(max)
    BY DEF ReceiveMessages
  <2> QED
    BY <2>1, ReceiveDoes, ReceiveParts DEF QueueInv, QueueTypeOK
<1>7. notifying' \in BOOLEAN
  BY DEF ReceiveMessages, QueueInv, QueueTypeOK
<1>8. QueueInv'
  BY <1>3, <1>4, <1>5, <1>6, <1>7 DEF QueueInv, QueueTypeOK
<1>9. Continues
  <2> SUFFICES ASSUME NEW i \in DOMAIN messages'
               PROVE  /\ i \in DOMAIN messages
                      /\ messages'[i].group = messages[i].group
                      /\ messages[i].receiveCount <= messages'[i].receiveCount
                      /\ messages'[i].receiveCount = messages[i].receiveCount /\ messages'[i].visibleAt > now'
                           => messages[i].visibleAt > now
    BY <1>1 DEF Continues
  <2>1. i \in DOMAIN messages /\ messages[i].receiveCount \in Nat
    BY <1>2, ReceiveDoes, ReceiveParts
  <2>2. CASE i \in Taken(max)
    <3>1. messages'[i].group = messages[i].group /\ messages'[i].receiveCount = messages[i].receiveCount + 1
      BY <2>2, ReceiveDoes
    <3> QED
      BY <2>1, <3>1
  <2>3. CASE i \notin Taken(max)
    <3>1. messages'[i] = messages[i]
      BY <2>3, ReceiveDoes
    <3> QED
      BY <2>1, <3>1
  <2> QED
    BY <2>1, <2>2, <2>3
<1> QED
  BY <1>5, <1>8, <1>9

\* A message in flight is handed back: its receipt is what it was.
LEMMA OneChanges ==
  ASSUME QueueInv, TimerCoversMessages, NEW i \in DOMAIN messages, NEW t \in Nat, messages[i].visibleAt > now,
         now + t <= messages[i].receivedAt + MaxVisibility,
         messages' = [messages EXCEPT ![i].visibleAt = now + t], ScheduleWakeUp,
         UNCHANGED <<fifo, now, sent, stopped, deadLetters>>, notifying' \in BOOLEAN
  PROVE  QueueInv' /\ TimerCoversMessages' /\ Continues
<1>1. now \in Nat /\ sent \in Nat /\ MaxTime \in Nat /\ now <= MaxTime /\ MaxVisibility \in Nat
  BY Constants DEF QueueInv, QueueTypeOK
<1>2. \A j \in DOMAIN messages : messages[j] \in Message /\ InBounds(messages[j])
  BY DEF QueueInv, QueueTypeOK, MessagesInBounds
<1>3. now + t \in Times
  <2>1. messages[i].receivedAt \in Times /\ messages[i].receivedAt <= now
    BY <1>2 DEF Message, InBounds
  <2>2. messages[i].receivedAt \in Nat
    BY <2>1, Constants
  <2>3. now + t \in Nat /\ now + t <= MaxTime + MaxVisibility
    BY <1>1, <2>1, <2>2
  <2>4. MaxTime \in 0..MaxTime
    BY <1>1
  <2>5. MaxTime + MaxVisibility \in 0..Never /\ Never \in Nat
    BY <2>4, Constants
  <2> QED
    BY <2>3, <2>5, Constants
<1>4. /\ DOMAIN messages' = DOMAIN messages
      /\ messages' \in [DOMAIN messages' -> Message]
      /\ \A j \in DOMAIN messages :
           /\ messages'[j].group = messages[j].group /\ messages'[j].receiveCount = messages[j].receiveCount
           /\ messages'[j].sentAt = messages[j].sentAt /\ messages'[j].receivedAt = messages[j].receivedAt
           /\ j # i => messages'[j] = messages[j]
  BY <1>2, <1>3 DEF Message, QueueInv, QueueTypeOK
<1>5. MessagesInBounds'
  BY <1>2, <1>4 DEF MessagesInBounds, InBounds
<1>6. wakeUp' \in Times /\ TimerCoversMessages'
  BY <1>4, <1>5, WakeUpCovers
<1>7. QueueInv'
  BY <1>4, <1>5, <1>6 DEF QueueInv, QueueTypeOK
<1>8. \A j \in DOMAIN messages : messages[j].receiveCount \in Nat
  BY <1>2 DEF Message
<1>9. Continues
  BY <1>1, <1>4, <1>8 DEF Continues
<1> QED
  BY <1>6, <1>7, <1>9

-----------------------------------------------------------------------------
(* The steps of the queue                                                  *)

QueueGoesOn == QueueInv' /\ TimerCoversMessages' /\ Continues

\* A poller has room for at least one message.
LEMMA RoomIsLeft ==
  ASSUME TypeInv, NEW p \in Pollers
  PROVE  Room(p) \in Nat /\ Room(p) # 0 /\ Room(p) = BatchSize - Cardinality(pending[p])
<1>1. IsFiniteSet(pending[p]) /\ Cardinality(pending[p]) < BatchSize
  BY DEF TypeInv, PollerInv
<1>2. Cardinality(pending[p]) \in Nat /\ BatchSize \in Nat
  BY <1>1, FS_CardinalityType, Constants
<1> QED
  BY <1>1, <1>2 DEF Room

\* A step that leaves the queue alone.
LEMMA QueueUnchanged ==
  ASSUME QueueInv, TimerCoversMessages, UNCHANGED <<fifo, now, sent, stopped, messages, wakeUp>>,
         notifying' \in BOOLEAN, DOMAIN deadLetters' \subseteq DOMAIN deadLetters
  PROVE  QueueGoesOn
<1>1. sent \in Nat /\ \A i \in DOMAIN messages : messages[i].receiveCount \in Nat
  BY Constants DEF QueueInv, QueueTypeOK, Message
<1>2. Continues
  BY <1>1 DEF Continues
<1>3. QueueTypeOK'
  BY DEF QueueInv, QueueTypeOK
<1>4. MessagesInBounds' /\ TimerCoversMessages'
  BY DEF QueueInv, MessagesInBounds, InBounds, TimerCoversMessages, ExpireTime
<1> QED
  BY <1>2, <1>3, <1>4 DEF QueueGoesOn, QueueInv

LEMMA QueueSends ==
  ASSUME TypeInv, TimerCoversMessages, NEW g, NEW k, NEW d, Send(g, k, d),
         d \in Delays, (g \in Groups /\ k \in DedupIds) \/ (g = NoGroup /\ k = NoGroup)
  PROVE  QueueGoesOn
<1>1. QueueInv /\ notifying \in BOOLEAN
  BY DEF TypeInv, QueueInv, QueueTypeOK
<1>2. CASE fifo /\ <<g, k>> \in LiveDedups
  BY <1>1, <1>2, QueueUnchanged DEF Send, queueVars
<1>3. CASE ~(fifo /\ <<g, k>> \in LiveDedups)
  <2> DEFINE m == [group |-> g, dedup |-> k, sentAt |-> now, visibleAt |-> now + d,
                   receiveCount |-> 0, receivedAt |-> 0]
  <2>1. /\ sent < MaxSent /\ sent' = sent + 1
        /\ messages' = [i \in DOMAIN messages \cup {sent + 1} |-> IF i = sent + 1 THEN m ELSE messages[i]]
        /\ ScheduleWakeUp /\ notifying' = TRUE /\ UNCHANGED <<fifo, now, stopped, deadLetters>>
    BY <1>3 DEF Send
  <2>2. now \in 0..MaxTime /\ now \in Nat /\ MaxAttempts \in Nat /\ 0 \in Times
    BY <1>1, Constants DEF QueueInv, QueueTypeOK
  <2>3. d \in 0..MaxDelay
    BY ConstantsAssumption
  <2>4. now \in Times /\ now + d \in Times
    BY <2>2, <2>3, Constants
  <2>5. m \in Message
    BY <2>2, <2>4 DEF Message
  <2>6. m.sentAt = now /\ m.receivedAt = 0 /\ m.receiveCount = 0
    OBVIOUS
  <2> HIDE DEF m
  <2>7. InBounds(m)
    BY <2>2, <2>6 DEF InBounds
  <2> QED
    BY <1>1, <2>1, <2>5, <2>7, OneComes DEF QueueGoesOn
<1> QED
  BY <1>2, <1>3

LEMMA QueueDrops ==
  ASSUME TypeInv, TimerCoversMessages, WakeUp \/ CheckDrain
  PROVE  QueueGoesOn
<1>1. QueueInv /\ notifying \in BOOLEAN /\ Unexpired \subseteq DOMAIN messages
  BY DEF TypeInv, QueueInv, QueueTypeOK, Unexpired
<1>2. /\ messages' = Restrict(messages, Unexpired) /\ notifying' \in BOOLEAN
      /\ UNCHANGED <<fifo, now, sent, stopped, deadLetters>>
      /\ ScheduleWakeUp \/ wakeUp' = wakeUp
  BY <1>1 DEF WakeUp, CheckDrain
<1> QED
  BY <1>1, <1>2, SomeLeaveAndTimer DEF QueueGoesOn

LEMMA QueuePolls ==
  ASSUME TypeInv, TimerCoversMessages, NEW p \in Pollers, PollQueue(p)
  PROVE  QueueGoesOn
<1>1. QueueInv /\ notifying \in BOOLEAN
  BY DEF TypeInv, QueueInv, QueueTypeOK
<1>2. UNCHANGED <<fifo, now, sent, stopped>> /\ (ReceiveMessages(Room(p)) \/ UNCHANGED queueVars)
  BY DEF PollQueue
<1>3. CASE ReceiveMessages(Room(p))
  BY <1>1, <1>2, <1>3, RoomIsLeft, Receives DEF QueueGoesOn
<1>4. CASE UNCHANGED queueVars
  BY <1>1, <1>2, <1>4, QueueUnchanged DEF queueVars
<1> QED
  BY <1>2, <1>3, <1>4

LEMMA QueueClients ==
  ASSUME TypeInv, TimerCoversMessages, NEW c \in Clients, PollMessages(c) \/ ClientWoken(c)
  PROVE  QueueGoesOn
<1>1. ReceiveMessages(1) /\ UNCHANGED <<fifo, now, sent, stopped>>
  BY DEF PollMessages, ClientWoken, ClientReceive
<1>2. QueueInv
  BY DEF TypeInv
<1> QED
  BY <1>1, <1>2, Receives DEF QueueGoesOn

LEMMA QueueAcks ==
  ASSUME TypeInv, TimerCoversMessages, NEW p \in Pollers, NEW s \in Slots, NEW receipt, Ack(p, s, receipt)
  PROVE  QueueGoesOn
<1>1. QueueInv /\ notifying \in BOOLEAN
  BY DEF TypeInv, QueueInv, QueueTypeOK
<1>2. UNCHANGED <<fifo, now, sent, stopped, deadLetters>>
  BY DEF Ack
<1>3. CASE IsCurrent(receipt)
  <2>1. messages' = Restrict(messages, DOMAIN messages \ {receipt[1]}) /\ ScheduleWakeUp /\ notifying' = TRUE
    BY <1>3 DEF Ack
  <2> QED
    BY <1>1, <1>2, <2>1, SomeLeaveAndTimer DEF QueueGoesOn
<1>4. CASE ~IsCurrent(receipt)
  BY <1>1, <1>2, <1>4, QueueUnchanged DEF Ack
<1> QED
  BY <1>3, <1>4

LEMMA QueueHandsBack ==
  ASSUME TypeInv, TimerCoversMessages, NEW p \in Pollers, NEW s \in Slots, NEW receipt, NEW t \in Timeouts,
         HandBack(p, s, receipt, t)
  PROVE  QueueGoesOn
<1>1. QueueInv /\ notifying \in BOOLEAN
  BY DEF TypeInv, QueueInv, QueueTypeOK
<1>2. UNCHANGED <<fifo, now, sent, stopped, deadLetters>>
  BY DEF HandBack
<1>3. CASE /\ IsCurrent(receipt) /\ IsInFlight(messages[receipt[1]])
           /\ now + t <= messages[receipt[1]].receivedAt + MaxVisibility
  <2>1. /\ messages' = [messages EXCEPT ![receipt[1]].visibleAt = now + t] /\ ScheduleWakeUp /\ notifying' = TRUE
    BY <1>3 DEF HandBack
  <2>2. receipt[1] \in DOMAIN messages /\ messages[receipt[1]].visibleAt > now
    BY <1>3 DEF IsCurrent, IsInFlight
  <2>3. t \in Nat
    BY ConstantsAssumption
  <2> QED
    BY <1>1, <1>2, <1>3, <2>1, <2>2, <2>3, OneChanges DEF QueueGoesOn
<1>4. CASE ~(/\ IsCurrent(receipt) /\ IsInFlight(messages[receipt[1]])
             /\ now + t <= messages[receipt[1]].receivedAt + MaxVisibility)
  BY <1>1, <1>2, <1>4, QueueUnchanged DEF HandBack
<1> QED
  BY <1>3, <1>4

LEMMA QueueShutsDown ==
  ASSUME TypeInv, TimerCoversMessages, Shutdown
  PROVE  QueueGoesOn
<1>1. /\ QueueInv /\ stopped' = TRUE /\ wakeUp' = Never
      /\ UNCHANGED <<fifo, now, sent, messages, deadLetters, notifying>>
  BY DEF TypeInv, Shutdown
<1>2. sent \in Nat /\ \A i \in DOMAIN messages : messages[i].receiveCount \in Nat
  BY <1>1, Constants DEF QueueInv, QueueTypeOK, Message
<1>3. Continues
  BY <1>1, <1>2 DEF Continues
<1>4. Never \in Times
  BY Constants
<1>5. QueueTypeOK'
  BY <1>1, <1>4 DEF QueueInv, QueueTypeOK
<1>6. MessagesInBounds' /\ TimerCoversMessages'
  BY <1>1 DEF QueueInv, MessagesInBounds, InBounds, TimerCoversMessages
<1> QED
  BY <1>3, <1>5, <1>6 DEF QueueGoesOn, QueueInv

LEMMA QueueTicks ==
  ASSUME TypeInv, TimerCoversMessages, Tick
  PROVE  QueueGoesOn
<1>1. QueueInv /\ now < MaxTime /\ now' = now + 1
      /\ UNCHANGED <<fifo, sent, stopped, messages, deadLetters, wakeUp, notifying>>
  BY DEF TypeInv, Tick, queueVars
<1>2. /\ sent \in Nat /\ now \in Nat /\ now' \in 0..MaxTime
      /\ \A i \in DOMAIN messages : messages[i].receiveCount \in Nat
  <2>1. sent \in 0..MaxSent /\ MaxSent \in Nat /\ now \in 0..MaxTime /\ MaxTime \in Nat
    BY <1>1, Constants DEF QueueInv, QueueTypeOK
  <2>2. \A i \in DOMAIN messages : messages[i].receiveCount \in Nat
    BY <1>1 DEF QueueInv, QueueTypeOK, Message
  <2>3. sent \in Nat /\ now \in Nat /\ now + 1 \in 0..MaxTime
    BY <1>1, <2>1
  <2> QED
    BY <1>1, <2>2, <2>3
<1>3. \A i \in DOMAIN messages :
        /\ messages[i].visibleAt \in Nat /\ messages[i].sentAt \in Nat /\ messages[i].receivedAt \in Nat
  <2>1. \A i \in DOMAIN messages :
          /\ messages[i].visibleAt \in Times /\ messages[i].sentAt \in Times /\ messages[i].receivedAt \in Times
    BY <1>1 DEF QueueInv, QueueTypeOK, Message
  <2>2. \A x \in Times : x \in Nat
    BY Constants
  <2> QED
    BY <2>1, <2>2
<1>4. Continues
  BY <1>1, <1>2, <1>3 DEF Continues
<1>5. QueueTypeOK'
  BY <1>1, <1>2 DEF QueueInv, QueueTypeOK
<1>6. MessagesInBounds'
  BY <1>1, <1>2, <1>3 DEF QueueInv, MessagesInBounds, InBounds
<1>7. TimerCoversMessages'
  BY <1>1, <1>2, <1>3 DEF TimerCoversMessages, ExpireTime
<1> QED
  BY <1>4, <1>5, <1>6, <1>7 DEF QueueGoesOn, QueueInv

LEMMA QueueSteps ==
  ASSUME TypeInv, TimerCoversMessages, [Next]_vars
  PROVE  QueueGoesOn
<1>1. QueueInv /\ notifying \in BOOLEAN
  BY DEF TypeInv, QueueInv, QueueTypeOK
<1>2. ASSUME NEW g \in Groups, NEW k \in DedupIds, Send(g, k, delay) PROVE QueueGoesOn
  <2>1. delay \in Delays
    BY DEF TypeInv
  <2> QED
    BY <1>2, <2>1, QueueSends
<1>3. ASSUME NEW d \in Delays, Send(NoGroup, NoGroup, d) PROVE QueueGoesOn
  BY <1>3, QueueSends
<1>4. CASE WakeUp \/ CheckDrain
  BY <1>4, QueueDrops
<1>5. CASE GetDeadLetterMessages
  BY <1>1, <1>5, QueueUnchanged DEF GetDeadLetterMessages, Restrict
<1>6. CASE Notify
  BY <1>1, <1>6, QueueUnchanged DEF Notify
<1>7. ASSUME NEW p \in Pollers, PollQueue(p) PROVE QueueGoesOn
  BY <1>7, QueuePolls
<1>8. ASSUME NEW p \in Pollers, WindowTimer(p) PROVE QueueGoesOn
  BY <1>1, <1>8, QueueUnchanged DEF WindowTimer, queueVars
<1>9. ASSUME NEW p \in Pollers, NEW s \in Slots, EndBatch(p, s) PROVE QueueGoesOn
  BY <1>1, <1>9, QueueUnchanged DEF EndBatch
<1>10. ASSUME NEW p \in Pollers, NEW s \in Slots, NEW receipt \in batches[p][s], Ack(p, s, receipt)
       PROVE  QueueGoesOn
  BY <1>10, QueueAcks
<1>11. ASSUME NEW p \in Pollers, NEW s \in Slots, NEW receipt \in batches[p][s], NEW t \in Timeouts,
              HandBack(p, s, receipt, t)
       PROVE  QueueGoesOn
  BY <1>11, QueueHandsBack
<1>12. ASSUME NEW c \in Clients, PollMessages(c) \/ ClientWoken(c) PROVE QueueGoesOn
  BY <1>12, QueueClients
<1>13. CASE WaitForDrain
  BY <1>1, <1>13, QueueUnchanged DEF WaitForDrain, queueVars
<1>14. CASE Shutdown
  BY <1>14, QueueShutsDown
<1>15. CASE Tick
  BY <1>15, QueueTicks
<1>16. CASE UNCHANGED vars
  BY <1>1, <1>16, QueueUnchanged DEF vars, queueVars
<1> QED
  BY <1>2, <1>3, <1>4, <1>5, <1>6, <1>7, <1>8, <1>9, <1>10, <1>11, <1>12, <1>13, <1>14, <1>15, <1>16 DEF Next

-----------------------------------------------------------------------------
(* The steps of the pollers                                                *)

\* A poll that dispatches a batch, and one that leaves it to be filled.
PollDispatches(p) ==
  /\ HasCapacity(p) /\ ReceiveMessages(Room(p))
  /\ DispatchBatch(p, Batch(p))
  /\ pending' = [pending EXCEPT ![p] = {}] /\ window' = [window EXCEPT ![p] = Never]

PollFills(p) ==
  /\ HasCapacity(p) /\ ReceiveMessages(Room(p))
  /\ Received(Room(p)) # {} /\ Window # 0 /\ Cardinality(Batch(p)) # BatchSize
  /\ pending' = [pending EXCEPT ![p] = Batch(p)]
  /\ window' = [window EXCEPT ![p] = IF @ = Never THEN now + Window ELSE @]
  /\ UNCHANGED <<active, batches>>

Settles(p, s, receipt) ==
  /\ Settle(p, s, receipt) /\ receipt \in batches[p][s]
  /\ UNCHANGED <<active, pending, window>>

\* Everything that happens to the batches.
PollersStep ==
  \/ UNCHANGED <<active, batches, pending, window>>
  \/ \E p \in Pollers : PollDispatches(p) \/ PollFills(p) \/ WindowTimer(p)
  \/ \E p \in Pollers, s \in Slots : EndBatch(p, s) \/ \E receipt \in batches[p][s] : Settles(p, s, receipt)
  \/ Shutdown

LEMMA PollersSteps ==
  ASSUME TypeInv, [Next]_vars
  PROVE  PollersStep /\ fifo' = fifo /\ due' \subseteq Pollers
<1>1. due \subseteq Pollers
  BY DEF TypeInv, PollersTypeOK
<1>2. ASSUME NEW g, NEW k, NEW d, Send(g, k, d) PROVE PollersStep /\ fifo' = fifo /\ due' \subseteq Pollers
  BY <1>1, <1>2 DEF Send, pollerVars, PollersStep
<1>3. CASE WakeUp \/ CheckDrain
  BY <1>1, <1>3 DEF WakeUp, CheckDrain, pollerVars, PollersStep
<1>4. CASE GetDeadLetterMessages
  BY <1>1, <1>4 DEF GetDeadLetterMessages, pollerVars, PollersStep
<1>5. CASE Notify
  BY <1>1, <1>5 DEF Notify, PollersStep
<1>6. ASSUME NEW p \in Pollers, PollQueue(p) PROVE PollersStep /\ fifo' = fifo /\ due' \subseteq Pollers
  <2>1. fifo' = fifo /\ due' \subseteq Pollers
    BY <1>1, <1>6 DEF PollQueue
  <2>2. UNCHANGED <<active, batches, pending, window>> \/ PollDispatches(p) \/ PollFills(p)
    BY <1>6 DEF PollQueue, PollDispatches, PollFills
  <2> QED
    BY <2>1, <2>2 DEF PollersStep
<1>7. ASSUME NEW p \in Pollers, WindowTimer(p) PROVE PollersStep /\ fifo' = fifo /\ due' \subseteq Pollers
  <2>1. fifo' = fifo /\ due' = due
    BY <1>7 DEF WindowTimer
  <2> QED
    BY <1>1, <1>7, <2>1 DEF PollersStep
<1>8. ASSUME NEW p \in Pollers, NEW s \in Slots, EndBatch(p, s)
      PROVE  PollersStep /\ fifo' = fifo /\ due' \subseteq Pollers
  <2>1. fifo' = fifo /\ due' = due
    BY <1>8 DEF EndBatch
  <2> QED
    BY <1>1, <1>8, <2>1 DEF PollersStep
<1>9. ASSUME NEW p \in Pollers, NEW s \in Slots, NEW receipt \in batches[p][s],
             Ack(p, s, receipt) \/ \E t \in Timeouts : HandBack(p, s, receipt, t)
      PROVE  PollersStep /\ fifo' = fifo /\ due' \subseteq Pollers
  <2>1. fifo' = fifo /\ due' = due /\ Settles(p, s, receipt)
    BY <1>9 DEF Ack, HandBack, Settles
  <2> QED
    BY <1>1, <2>1 DEF PollersStep
<1>10. ASSUME NEW c \in Clients, PollMessages(c) \/ ClientWoken(c)
       PROVE  PollersStep /\ fifo' = fifo /\ due' \subseteq Pollers
  BY <1>1, <1>10 DEF PollMessages, ClientWoken, ClientReceive, pollerVars, PollersStep
<1>11. CASE WaitForDrain
  BY <1>1, <1>11 DEF WaitForDrain, pollerVars, PollersStep
<1>12. CASE Shutdown
  <2>1. fifo' = fifo /\ due' = due
    BY <1>12 DEF Shutdown
  <2> QED
    BY <1>1, <1>12, <2>1 DEF PollersStep
<1>13. CASE Tick
  BY <1>1, <1>13 DEF Tick, pollerVars, PollersStep
<1>14. CASE UNCHANGED vars
  BY <1>1, <1>14 DEF vars, pollerVars, PollersStep
<1> QED
  BY <1>2, <1>3, <1>4, <1>5, <1>6, <1>7, <1>8, <1>9, <1>10, <1>11, <1>12, <1>13, <1>14 DEF Next

\* A batch has at most the size it may have.
LEMMA BatchInBounds ==
  ASSUME TypeInv, NEW p \in Pollers
  PROVE  /\ Received(Room(p)) \subseteq Receipts /\ Batch(p) \subseteq Receipts
         /\ IsFiniteSet(Batch(p)) /\ Cardinality(Batch(p)) \in Nat /\ Cardinality(Batch(p)) <= BatchSize
<1> DEFINE max == Room(p)
           new == Received(max)
<1>1. max \in Nat /\ max = BatchSize - Cardinality(pending[p])
  BY RoomIsLeft
<1>2. QueueInv /\ pending[p] \subseteq Receipts /\ IsFiniteSet(pending[p])
  BY DEF TypeInv, PollersTypeOK, PollerInv
<1>3. IsFiniteSet(Taken(max)) /\ Cardinality(Taken(max)) <= max /\ Taken(max) \subseteq DOMAIN messages
  <2> HIDE DEF max
  <2> QED
    BY <1>1, <1>2, ReceiveParts
<1>4. new \subseteq Receipts
  <2> SUFFICES ASSUME NEW i \in Taken(max) PROVE <<i, messages[i].receiveCount + 1>> \in Receipts
    BY DEF Received
  <2>1. i \in 1..sent /\ sent \in 0..MaxSent /\ MaxSent \in Nat /\ messages[i].receiveCount \in Nat
    BY <1>2, <1>3, Constants DEF QueueInv, QueueTypeOK, Message
  <2>2. i \in Ids /\ messages[i].receiveCount + 1 \in Nat \ {0}
    BY <2>1 DEF Ids
  <2> QED
    BY <2>2 DEF Receipts
<1>5. IsFiniteSet(new) /\ Cardinality(new) <= Cardinality(Taken(max))
  <2> DEFINE f == [i \in Taken(max) |-> <<i, messages[i].receiveCount + 1>>]
  <2>1. new = {f[i] : i \in Taken(max)}
    BY DEF Received
  <2>2. f \in Surjection(Taken(max), new)
    BY <2>1 DEF Surjection
  <2> HIDE DEF f, max, new
  <2> QED
    BY <1>3, <2>2, FS_Surjection
<1>6. /\ Cardinality(new) \in Nat /\ Cardinality(pending[p]) \in Nat /\ Cardinality(Taken(max)) \in Nat
      /\ BatchSize \in Nat
  BY <1>2, <1>3, <1>5, FS_CardinalityType, Constants
<1>7. /\ IsFiniteSet(pending[p] \cup new)
      /\ Cardinality(pending[p] \cup new)
           = Cardinality(pending[p]) + Cardinality(new) - Cardinality(pending[p] \cap new)
  <2> HIDE DEF new
  <2> QED
    BY <1>2, <1>5, FS_Union
<1>8. Cardinality(pending[p] \cap new) \in Nat /\ Cardinality(pending[p] \cup new) \in Nat
  <2> HIDE DEF new
  <2> QED
    BY <1>2, <1>5, <1>7, FS_Intersection, FS_CardinalityType
<1>9. Cardinality(pending[p] \cup new) <= BatchSize
  <2> HIDE DEF new, max
  <2> QED
    BY <1>1, <1>3, <1>5, <1>6, <1>7, <1>8
<1>10. Batch(p) = pending[p] \cup new
  BY DEF Batch
<1> QED
  BY <1>2, <1>4, <1>7, <1>8, <1>9, <1>10

\* A poller with capacity has a free place for a batch.
LEMMA Dispatches ==
  ASSUME TypeInv, NEW p \in Pollers, HasCapacity(p), NEW receipts, receipts \subseteq Receipts,
         DispatchBatch(p, receipts)
  PROVE  \E s \in Slots :
           /\ s \notin active[p] /\ batches[p][s] = {}
           /\ active' = [active EXCEPT ![p] = @ \cup {s}]
           /\ batches' = [batches EXCEPT ![p][s] = receipts]
           /\ active' \in [Pollers -> SUBSET Slots] /\ batches' \in [Pollers -> [Slots -> SUBSET Receipts]]
           /\ Cardinality(active'[p]) <= Concurrency
<1> DEFINE s == MinOf(Slots \ active[p])
<1>1. active[p] \in SUBSET Slots /\ PollerInv(p) /\ active \in [Pollers -> SUBSET Slots]
      /\ batches \in [Pollers -> [Slots -> SUBSET Receipts]]
  BY DEF TypeInv, PollersTypeOK
<1>2. IsFiniteSet(active[p]) /\ Cardinality(active[p]) \in Nat
  BY <1>1, Constants, FS_Subset, FS_CardinalityType
<1>3. Concurrency \in Nat /\ Cardinality(active[p]) < Concurrency
  BY Constants DEF HasCapacity
<1>4. Slots \ active[p] # {}
  <2>1. SUFFICES ASSUME Slots \ active[p] = {} PROVE FALSE
    OBVIOUS
  <2>2. active[p] = Slots
    BY <1>1, <2>1
  <2>3. Cardinality(active[p]) = Concurrency + 1
    BY <2>2, Constants
  <2> QED
    BY <1>3, <2>3
<1>5. Slots \ active[p] \in SUBSET Nat
  BY Constants
<1>6. s \in Slots \ active[p]
  BY <1>4, <1>5, MinOfIsLeast
<1>7. /\ active' = [active EXCEPT ![p] = @ \cup {s}]
      /\ batches' = [batches EXCEPT ![p][s] = receipts]
  BY DEF DispatchBatch
<1> HIDE DEF s
<1>8. batches[p][s] = {}
  BY <1>1, <1>6 DEF PollerInv
<1>9. active' \in [Pollers -> SUBSET Slots] /\ batches' \in [Pollers -> [Slots -> SUBSET Receipts]]
      /\ active'[p] = active[p] \cup {s}
  BY <1>1, <1>6, <1>7
<1>10. Cardinality(active'[p]) <= Concurrency
  <2>1. Cardinality(active[p] \cup {s}) = Cardinality(active[p]) + 1
    BY <1>2, <1>6, FS_AddElement
  <2> QED
    BY <1>2, <1>3, <1>9, <2>1
<1> QED
  BY <1>6, <1>7, <1>8, <1>9, <1>10

PollersInv == PollersTypeOK /\ \A p \in Pollers : PollerInv(p)

LEMMA PollersKeep ==
  ASSUME TypeInv, [Next]_vars
  PROVE  PollersInv'
<1>1. PollersTypeOK /\ PollersStep /\ fifo' = fifo /\ due' \subseteq Pollers
  BY PollersSteps DEF TypeInv
<1>2. \A p \in Pollers : PollerInv(p)
  BY DEF TypeInv
<1>3. now \in 0..MaxTime /\ Never \in Times
  BY Constants DEF TypeInv, QueueInv, QueueTypeOK
<1>4. IsFiniteSet({}) /\ Cardinality({}) = 0 /\ 0 < BatchSize /\ 0 <= Concurrency /\ 0 < Concurrency
  BY FS_EmptySet, Constants
<1>5. CASE UNCHANGED <<active, batches, pending, window>>
  BY <1>1, <1>2, <1>5 DEF PollersInv, PollersTypeOK, PollerInv, HasCapacity
<1>6. ASSUME NEW p \in Pollers, HasCapacity(p), NEW receipts, receipts \subseteq Receipts, DispatchBatch(p, receipts),
             pending' = [pending EXCEPT ![p] = {}], window' = [window EXCEPT ![p] = Never]
      PROVE  PollersInv'
  <2>1. PICK s \in Slots :
          /\ s \notin active[p] /\ batches[p][s] = {}
          /\ active' = [active EXCEPT ![p] = @ \cup {s}]
          /\ batches' = [batches EXCEPT ![p][s] = receipts]
          /\ active' \in [Pollers -> SUBSET Slots] /\ batches' \in [Pollers -> [Slots -> SUBSET Receipts]]
          /\ Cardinality(active'[p]) <= Concurrency
    BY <1>6, Dispatches
  <2>2. PollersTypeOK'
    BY <1>1, <1>3, <1>6, <2>1 DEF PollersTypeOK
  <2>3. PollerInv(p)'
    <3>1. pending'[p] = {} /\ window'[p] = Never /\ s \in active'[p]
      BY <1>1, <1>6, <2>1 DEF PollersTypeOK
    <3>2. \A t \in Slots : t \in active'[p] \/ batches'[p][t] = {}
      BY <1>1, <1>2, <2>1, <3>1 DEF PollersTypeOK, PollerInv
    <3> QED
      BY <1>4, <2>1, <3>1, <3>2 DEF PollerInv
  <2>4. ASSUME NEW q \in Pollers, q # p PROVE PollerInv(q)'
    <3>1. /\ pending'[q] = pending[q] /\ window'[q] = window[q] /\ active'[q] = active[q]
          /\ batches'[q] = batches[q]
      BY <1>1, <1>6, <2>1, <2>4 DEF PollersTypeOK
    <3> QED
      BY <1>1, <1>2, <3>1 DEF PollerInv, HasCapacity
  <2> QED
    BY <2>2, <2>3, <2>4 DEF PollersInv
<1>7. ASSUME NEW p \in Pollers, PollDispatches(p) PROVE PollersInv'
  BY <1>6, <1>7, BatchInBounds DEF PollDispatches
<1>8. ASSUME NEW p \in Pollers, WindowTimer(p) PROVE PollersInv'
  <2>1. window[p] <= now
    BY <1>8 DEF WindowTimer
  <2>2. window[p] # Never
    BY <1>3, <2>1, Constants DEF Never
  <2>3. HasCapacity(p) /\ pending[p] \subseteq Receipts
    BY <1>1, <1>2, <2>2 DEF PollerInv, PollersTypeOK
  <2> QED
    BY <1>6, <1>8, <2>3 DEF WindowTimer
<1>9. ASSUME NEW p \in Pollers, PollFills(p) PROVE PollersInv'
  <2>1. /\ Batch(p) \subseteq Receipts /\ IsFiniteSet(Batch(p))
        /\ Cardinality(Batch(p)) \in Nat /\ Cardinality(Batch(p)) <= BatchSize /\ BatchSize \in Nat
    BY BatchInBounds, Constants
  <2>2. Cardinality(Batch(p)) < BatchSize /\ Batch(p) # {}
    BY <1>9, <2>1 DEF PollFills, Batch
  <2>3. ~fifo /\ Window = BatchWindow
    BY <1>9 DEF PollFills, Window
  <2>4. now + Window \in Times /\ now + Window # Never
    BY <1>3, <2>3, Constants
  <2>5. /\ UNCHANGED <<active, batches>> /\ HasCapacity(p)
        /\ pending' = [pending EXCEPT ![p] = Batch(p)]
        /\ window' = [window EXCEPT ![p] = IF @ = Never THEN now + Window ELSE @]
    BY <1>9 DEF PollFills
  <2>6. /\ window'[p] \in Times /\ window'[p] # Never /\ pending'[p] = Batch(p)
        /\ \A q \in Pollers \ {p} : pending'[q] = pending[q] /\ window'[q] = window[q]
    BY <1>1, <2>4, <2>5 DEF PollersTypeOK
  <2>7. PollersTypeOK'
    BY <1>1, <2>1, <2>4, <2>5 DEF PollersTypeOK
  <2>8. PollerInv(p)'
    BY <1>1, <1>2, <2>1, <2>2, <2>3, <2>5, <2>6 DEF PollerInv, HasCapacity
  <2>9. ASSUME NEW q \in Pollers, q # p PROVE PollerInv(q)'
    BY <1>1, <1>2, <2>5, <2>6, <2>9 DEF PollerInv, HasCapacity
  <2> QED
    BY <2>7, <2>8, <2>9 DEF PollersInv
<1>10. ASSUME NEW p \in Pollers, NEW s \in Slots, EndBatch(p, s) PROVE PollersInv'
  <2>1. /\ UNCHANGED <<pending, window>>
        /\ active' = [active EXCEPT ![p] = @ \ {s}]
        /\ batches' = [batches EXCEPT ![p][s] = {}]
    BY <1>10 DEF EndBatch
  <2>2. PollersTypeOK'
    BY <1>1, <2>1 DEF PollersTypeOK
  <2>3. /\ active'[p] = active[p] \ {s} /\ batches'[p][s] = {}
        /\ \A t \in Slots \ {s} : batches'[p][t] = batches[p][t]
        /\ \A q \in Pollers \ {p} : active'[q] = active[q] /\ batches'[q] = batches[q]
    BY <1>1, <2>1 DEF PollersTypeOK
  <2>4. /\ Cardinality(active[p]) \in Nat /\ Cardinality(active'[p]) \in Nat
        /\ Cardinality(active'[p]) <= Cardinality(active[p])
    <3>1. IsFiniteSet(active[p])
      BY <1>1, Constants, FS_Subset DEF PollersTypeOK
    <3>2. active'[p] \in SUBSET active[p]
      BY <2>3
    <3> QED
      BY <3>1, <3>2, FS_Subset, FS_CardinalityType
  <2>5. PollerInv(p)'
    BY <1>1, <1>2, <2>1, <2>3, <2>4, Constants DEF PollerInv, HasCapacity
  <2>6. ASSUME NEW q \in Pollers, q # p PROVE PollerInv(q)'
    BY <1>1, <1>2, <2>1, <2>3, <2>6 DEF PollerInv, HasCapacity
  <2> QED
    BY <2>2, <2>5, <2>6 DEF PollersInv
<1>11. ASSUME NEW p \in Pollers, NEW s \in Slots, NEW receipt \in batches[p][s], Settles(p, s, receipt)
       PROVE  PollersInv'
  <2>1. UNCHANGED <<active, pending, window>> /\ batches' = [batches EXCEPT ![p][s] = @ \ {receipt}]
    BY <1>11 DEF Settles, Settle
  <2>2. PollersTypeOK'
    BY <1>1, <2>1 DEF PollersTypeOK
  <2>3. \A q \in Pollers, t \in Slots : batches'[q][t] \subseteq batches[q][t]
    BY <1>1, <2>1 DEF PollersTypeOK
  <2>4. ASSUME NEW q \in Pollers PROVE PollerInv(q)'
    <3>1. \A t \in Slots : t \in active[q] \/ batches'[q][t] = {}
      BY <1>2, <2>3 DEF PollerInv
    <3> QED
      BY <1>1, <1>2, <2>1, <3>1 DEF PollerInv, HasCapacity
  <2> QED
    BY <2>2, <2>4 DEF PollersInv
<1>12. CASE Shutdown
  <2>1. /\ active' = [p \in Pollers |-> {}] /\ batches' = [p \in Pollers |-> [s \in Slots |-> {}]]
        /\ pending' = [p \in Pollers |-> {}] /\ window' = [p \in Pollers |-> Never]
    BY <1>12 DEF Shutdown
  <2>2. PollersTypeOK'
    BY <1>1, <1>3, <2>1 DEF PollersTypeOK
  <2>3. ASSUME NEW p \in Pollers PROVE PollerInv(p)'
    <3>1. active'[p] = {} /\ pending'[p] = {} /\ window'[p] = Never /\ \A s \in Slots : batches'[p][s] = {}
      BY <2>1
    <3> QED
      BY <1>4, <3>1 DEF PollerInv
  <2> QED
    BY <2>2, <2>3 DEF PollersInv
<1> QED
  BY <1>1, <1>5, <1>7, <1>8, <1>9, <1>10, <1>11, <1>12 DEF PollersStep

\* The clients, the deduplication and the waiter for the drain.
LEMMA RestKeeps ==
  ASSUME TypeInv, [Next]_vars
  PROVE  RestTypeOK'
<1>1. RestTypeOK
  BY DEF TypeInv
<1>2. now \in 0..MaxTime /\ 0 \in Times
  BY Constants DEF TypeInv, QueueInv, QueueTypeOK
<1>3. ASSUME NEW g, NEW k, NEW d, Send(g, k, d), fifo => g \in Groups /\ k \in DedupIds PROVE RestTypeOK'
  <2>1. now + DedupInterval \in Times
    BY <1>2, Constants
  <2>2. UNCHANGED <<client, drain>>
    BY <1>3 DEF Send
  <2>3. CASE fifo
    <3>1. dedups' = [x \in LiveDedups \cup {<<g, k>>} |-> IF x \in LiveDedups THEN dedups[x] ELSE now + DedupInterval]
      BY <1>3, <2>3 DEF Send
    <3>2. LiveDedups \subseteq DOMAIN dedups /\ <<g, k>> \in Groups \X DedupIds
      BY <1>3, <2>3 DEF LiveDedups
    <3> QED
      BY <1>1, <2>1, <2>2, <3>1, <3>2 DEF RestTypeOK
  <2>4. CASE ~fifo
    BY <1>1, <1>3, <2>2, <2>4 DEF RestTypeOK, Send
  <2> QED
    BY <2>3, <2>4
<1>4. ASSUME WakeClients PROVE client' \in [Clients -> [is : {"idle", "waiting", "woken"}, until : Times]]
  BY <1>1, <1>2, <1>4 DEF WakeClients, RestTypeOK, Idle
<1>5. ASSUME NEW c \in Clients, NEW until \in Times, ClientReceive(c, until) PROVE RestTypeOK'
  <2>1. UNCHANGED <<dedups, drain>>
    BY <1>5 DEF ClientReceive
  <2> DEFINE new == IF Taken(1) = {} /\ ~stopped /\ now < until THEN [is |-> "waiting", until |-> until] ELSE Idle
  <2>2. client' = [client EXCEPT ![c] = new] /\ new \in [is : {"idle", "waiting", "woken"}, until : Times]
    BY <1>2, <1>5 DEF ClientReceive, Idle
  <2> QED
    BY <1>1, <2>1, <2>2 DEF RestTypeOK
<1>6. ASSUME NEW c \in Clients, PollMessages(c) \/ ClientWoken(c) PROVE RestTypeOK'
  <2>1. now + WaitTime \in Times /\ client[c].until \in Times
    BY <1>1, <1>2, Constants DEF RestTypeOK
  <2> QED
    BY <1>5, <1>6, <2>1 DEF PollMessages, ClientWoken
<1>7. CASE WakeUp \/ CheckDrain
  BY <1>1, <1>7 DEF WakeUp, CheckDrain, RestTypeOK
<1>8. CASE GetDeadLetterMessages
  BY <1>1, <1>8 DEF GetDeadLetterMessages, RestTypeOK
<1>9. CASE Notify
  BY <1>1, <1>4, <1>9 DEF Notify, RestTypeOK
<1>10. ASSUME NEW p \in Pollers, PollQueue(p) PROVE RestTypeOK'
  BY <1>1, <1>10 DEF PollQueue, RestTypeOK
<1>11. ASSUME NEW p \in Pollers, WindowTimer(p) PROVE RestTypeOK'
  BY <1>1, <1>11 DEF WindowTimer, RestTypeOK
<1>12. ASSUME NEW p \in Pollers, NEW s \in Slots, EndBatch(p, s) PROVE RestTypeOK'
  BY <1>1, <1>12 DEF EndBatch, RestTypeOK
<1>13. ASSUME NEW p \in Pollers, NEW s \in Slots, NEW receipt \in batches[p][s],
              Ack(p, s, receipt) \/ \E t \in Timeouts : HandBack(p, s, receipt, t)
       PROVE  RestTypeOK'
  BY <1>1, <1>13 DEF Ack, HandBack, RestTypeOK
<1>14. CASE WaitForDrain
  BY <1>1, <1>14 DEF WaitForDrain, RestTypeOK
<1>15. CASE Shutdown
  BY <1>1, <1>4, <1>15 DEF Shutdown, RestTypeOK
<1>16. CASE Tick \/ UNCHANGED vars
  BY <1>1, <1>16 DEF Tick, vars, RestTypeOK
<1> QED
  BY <1>3, <1>6, <1>7, <1>8, <1>9, <1>10, <1>11, <1>12, <1>13, <1>14, <1>15, <1>16 DEF Next

LEMMA TypeInvInit == Init => TypeInv /\ TimerCoversMessages
<1> SUFFICES ASSUME Init PROVE TypeInv /\ TimerCoversMessages
  OBVIOUS
<1>1. /\ fifo \in FifoModes /\ now = 0 /\ sent = 0 /\ messages = <<>> /\ deadLetters = <<>> /\ dedups = <<>>
      /\ wakeUp = Never /\ notifying = FALSE /\ stopped = FALSE /\ due = {} /\ drain = "absent"
  BY DEF Init
<1>2. DOMAIN messages = {} /\ DOMAIN deadLetters = {} /\ DOMAIN dedups = {} /\ messages \in [{} -> Message]
  BY <1>1
<1>3. 0 \in 0..MaxTime /\ 0 \in 0..MaxSent /\ 0 \in Times /\ Never \in Times /\ {} \in SUBSET Slots
  BY Constants
<1>4. QueueInv
  BY <1>1, <1>2, <1>3 DEF QueueInv, QueueTypeOK, MessagesInBounds
<1>5. /\ PollersTypeOK
      /\ \A p \in Pollers : active[p] = {} /\ pending[p] = {} /\ window[p] = Never /\ \A s \in Slots : batches[p][s] = {}
  BY <1>1, <1>3 DEF Init, PollersTypeOK
<1>6. ASSUME NEW p \in Pollers PROVE PollerInv(p)
  <2>1. IsFiniteSet({}) /\ Cardinality({}) = 0 /\ 0 < BatchSize /\ 0 <= Concurrency
    BY FS_EmptySet, Constants
  <2> QED
    BY <1>5, <2>1 DEF PollerInv
<1>7. RestTypeOK
  BY <1>1, <1>2, <1>3 DEF Init, RestTypeOK, Idle
<1>8. TimerCoversMessages
  BY <1>2 DEF TimerCoversMessages
<1>9. delay \in Delays
  BY DEF Init
<1> QED
  BY <1>4, <1>5, <1>6, <1>7, <1>8, <1>9 DEF TypeInv

\* The parameters of the queue don't change.
LEMMA DelayIsFixed ==
  ASSUME [Next]_vars
  PROVE  delay' = delay
BY DEF Next, vars, Send, WakeUp, GetDeadLetterMessages, Notify, PollQueue, WindowTimer, EndBatch, Ack, HandBack,
   PollMessages, ClientWoken, ClientReceive, WaitForDrain, CheckDrain, Shutdown, Tick

LEMMA TypeInvNext ==
  ASSUME TypeInv, TimerCoversMessages, [Next]_vars
  PROVE  TypeInv' /\ TimerCoversMessages' /\ Continues
<1>1. delay' = delay /\ delay \in Delays
  BY DelayIsFixed DEF TypeInv
<1>2. QueueGoesOn /\ PollersInv' /\ RestTypeOK'
  BY QueueSteps, PollersKeep, RestKeeps DEF TypeInv, PollersInv
<1> QED
  BY <1>1, <1>2 DEF TypeInv, QueueGoesOn, PollersInv

LEMMA TypeInvariant == Spec => [](TypeInv /\ TimerCoversMessages)
<1>1. TypeInv /\ TimerCoversMessages /\ [Next]_vars => (TypeInv /\ TimerCoversMessages)'
  BY TypeInvNext
<1> QED
  BY <1>1, TypeInvInit, PTL DEF Spec

\* The state of the local queue keeps its type: no time passes the end of the timers, no poller has more batches
\* than its concurrency or fills one beyond its size, and a window timer runs just for a batch being filled.
THEOREM TypeCorrect == Spec => []TypeOK
<1>1. TypeInv => TypeOK
  BY DEF TypeInv, QueueInv, QueueTypeOK, PollersTypeOK, PollerInv, RestTypeOK, TypeOK
<1> QED
  BY <1>1, TypeInvariant, PTL

\* The wake-up timer covers every message, whatever was sent, received, handed back or dropped: scheduleWakeUp.
THEOREM TimerCovers == Spec => []TimerCoversMessages
BY TypeInvariant, PTL

-----------------------------------------------------------------------------
(* The receipts                                                            *)

\* Where a receipt may be: in a batch of a poller (its place is the batch's), or in the one being filled (0).
Places == 0..(Concurrency + 1)
Held(p, s) == IF s = 0 THEN pending[p] ELSE batches[p][s]

\* A receipt is of a message that was sent, and of its latest receive or an earlier one.
Past(x) == x[1] <= sent /\ (x[1] \in DOMAIN messages => x[2] <= messages[x[1]].receiveCount)

\* Receipts are of the past, and each one is in one place.
ReceiptsInv ==
  \A p \in Pollers, s \in Places : \A x \in Held(p, s) :
    Past(x) /\ \A q \in Pollers, t \in Places : x \in Held(q, t) => p = q /\ s = t

\* The receipts of a FIFO group that are good are in one place.
GroupInv ==
  fifo => \A p, q \in Pollers, s, t \in Places : \A x \in Held(p, s), y \in Held(q, t) :
    IsLive(x) /\ IsLive(y) /\ messages[x[1]].group = messages[y[1]].group => p = q /\ s = t

\* Receipts leave their places, or those of the batch being filled, with new ones, become a batch or go on waiting.
Shrinks == \A q \in Pollers, t \in Places : Held(q, t)' \subseteq Held(q, t)

Moves(p, to, new) ==
  /\ Held(p, to)' \subseteq Held(p, 0) \cup new
  /\ \A q \in Pollers, t \in Places : ~(q = p /\ t = to) => Held(q, t)' \subseteq Held(q, t)
  /\ to # 0 => Held(p, 0)' = {}
  /\ fifo => to # 0
  /\ new # {} => \E max \in Nat : new = Received(max) /\ ReceiveMessages(max)

LEMMA PlacesAndSlots == 0 \in Places /\ 0 \notin Slots /\ Places = Slots \cup {0}
BY Constants DEF Places, Slots

LEMMA HeldIsReceipts ==
  ASSUME TypeInv, NEW p \in Pollers, NEW s \in Places
  PROVE  Held(p, s) \subseteq Receipts
BY PlacesAndSlots DEF TypeInv, PollersTypeOK, Held

LEMMA ReceiptsMove ==
  ASSUME TypeInv, [Next]_vars
  PROVE  \/ Shrinks
         \/ \E p \in Pollers, to \in Places, new \in SUBSET Receipts : Moves(p, to, new)
<1>1. PollersTypeOK /\ PollersStep
  BY PollersSteps DEF TypeInv
<1>2. Places = Slots \cup {0} /\ 0 \notin Slots
  BY PlacesAndSlots
<1>3. CASE UNCHANGED <<active, batches, pending, window>>
  BY <1>3 DEF Shrinks, Held
<1>4. ASSUME NEW p \in Pollers, HasCapacity(p), NEW new, new \subseteq Receipts, DispatchBatch(p, pending[p] \cup new),
             pending' = [pending EXCEPT ![p] = {}],
             new # {} => \E max \in Nat : new = Received(max) /\ ReceiveMessages(max)
      PROVE  \E to \in Places : Moves(p, to, new)
  <2>1. pending[p] \cup new \subseteq Receipts
    BY <1>1, <1>4 DEF PollersTypeOK
  <2>2. PICK s \in Slots : batches' = [batches EXCEPT ![p][s] = pending[p] \cup new]
    BY <1>4, <2>1, Dispatches
  <2>3. s \in Places /\ s # 0
    BY <1>2
  <2>4. Held(p, s)' = Held(p, 0) \cup new
    BY <1>1, <2>2, <2>3 DEF Held, PollersTypeOK
  <2>5. ASSUME NEW q \in Pollers, NEW t \in Places, ~(q = p /\ t = s) PROVE Held(q, t)' \subseteq Held(q, t)
    BY <1>1, <1>2, <1>4, <2>2, <2>5 DEF Held, PollersTypeOK
  <2>6. Held(p, 0)' = {}
    BY <1>1, <1>4 DEF Held, PollersTypeOK
  <2> QED
    BY <1>4, <2>3, <2>4, <2>5, <2>6 DEF Moves
<1>5. ASSUME NEW p \in Pollers, PollDispatches(p)
      PROVE  \E to \in Places, new \in SUBSET Receipts : Moves(p, to, new)
  <2>1. Room(p) \in Nat /\ Received(Room(p)) \subseteq Receipts
    BY RoomIsLeft, BatchInBounds
  <2>2. DispatchBatch(p, pending[p] \cup Received(Room(p))) /\ HasCapacity(p) /\ ReceiveMessages(Room(p))
        /\ pending' = [pending EXCEPT ![p] = {}]
    BY <1>5 DEF PollDispatches, Batch
  <2> QED
    BY <1>4, <2>1, <2>2
<1>6. ASSUME NEW p \in Pollers, WindowTimer(p)
      PROVE  \E to \in Places, new \in SUBSET Receipts : Moves(p, to, new)
  <2>1. window[p] # Never
    <3>1. window[p] <= now /\ now \in 0..MaxTime
      BY <1>6 DEF WindowTimer, TypeInv, QueueInv, QueueTypeOK
    <3> QED
      BY <3>1, Constants DEF Never
  <2>2. HasCapacity(p)
    BY <2>1 DEF TypeInv, PollerInv
  <2>3. DispatchBatch(p, pending[p] \cup {}) /\ pending' = [pending EXCEPT ![p] = {}]
    BY <1>6 DEF WindowTimer
  <2>4. {} \in SUBSET Receipts
    OBVIOUS
  <2>5. \E to \in Places : Moves(p, to, {})
    BY <1>4, <2>2, <2>3, <2>4
  <2> QED
    BY <2>4, <2>5
<1>7. ASSUME NEW p \in Pollers, PollFills(p)
      PROVE  \E to \in Places, new \in SUBSET Receipts : Moves(p, to, new)
  <2>1. Room(p) \in Nat /\ Received(Room(p)) \in SUBSET Receipts
    BY RoomIsLeft, BatchInBounds
  <2>2. ~fifo
    BY <1>7 DEF PollFills, Window
  <2>3. /\ pending' = [pending EXCEPT ![p] = pending[p] \cup Received(Room(p))] /\ batches' = batches
        /\ ReceiveMessages(Room(p))
    BY <1>7 DEF PollFills, Batch
  <2>4. Held(p, 0)' = Held(p, 0) \cup Received(Room(p))
    BY <1>1, <2>3 DEF Held, PollersTypeOK
  <2>5. ASSUME NEW q \in Pollers, NEW t \in Places, ~(q = p /\ t = 0) PROVE Held(q, t)' \subseteq Held(q, t)
    BY <1>1, <2>3, <2>5 DEF Held, PollersTypeOK
  <2>6. Moves(p, 0, Received(Room(p)))
    BY <2>1, <2>2, <2>3, <2>4, <2>5 DEF Moves
  <2> QED
    BY <1>2, <2>1, <2>6
<1>8. ASSUME NEW p \in Pollers, NEW s \in Slots, EndBatch(p, s) PROVE Shrinks
  <2>1. pending' = pending /\ batches' = [batches EXCEPT ![p][s] = {}]
    BY <1>8 DEF EndBatch
  <2> QED
    BY <1>1, <1>2, <2>1 DEF Shrinks, Held, PollersTypeOK
<1>9. ASSUME NEW p \in Pollers, NEW s \in Slots, NEW receipt \in batches[p][s], Settles(p, s, receipt) PROVE Shrinks
  <2>1. pending' = pending /\ batches' = [batches EXCEPT ![p][s] = @ \ {receipt}]
    BY <1>9 DEF Settles, Settle
  <2> QED
    BY <1>1, <1>2, <2>1 DEF Shrinks, Held, PollersTypeOK
<1>10. CASE Shutdown
  <2>1. batches' = [p \in Pollers |-> [s \in Slots |-> {}]] /\ pending' = [p \in Pollers |-> {}]
    BY <1>10 DEF Shutdown
  <2> QED
    BY <1>2, <2>1 DEF Shrinks, Held
<1> QED
  BY <1>1, <1>3, <1>5, <1>6, <1>7, <1>8, <1>9, <1>10 DEF PollersStep

\* A receipt of the past stays one, and one that is good was so before.
LEMMA PastGoesOn ==
  ASSUME TypeInv, Continues, TypeInv', NEW x \in Receipts, Past(x)
  PROVE  Past(x)' /\ (IsLive(x)' => IsLive(x) /\ messages'[x[1]].group = messages[x[1]].group)
<1>1. /\ x[1] \in Nat /\ x[2] \in Nat /\ sent \in Nat /\ sent' \in Nat
      /\ \A i \in DOMAIN messages : messages[i].receiveCount \in Nat
      /\ \A i \in DOMAIN messages' : messages'[i].receiveCount \in Nat
  <2>1. x[1] \in Nat /\ x[2] \in Nat
    BY DEF Receipts, Ids
  <2>2. sent \in 0..MaxSent /\ sent' \in 0..MaxSent /\ MaxSent \in Nat
    BY Constants DEF TypeInv, QueueInv, QueueTypeOK
  <2>3. \A i \in DOMAIN messages : messages[i].receiveCount \in Nat
    BY DEF TypeInv, QueueInv, QueueTypeOK, Message
  <2>4. \A i \in DOMAIN messages' : messages'[i].receiveCount \in Nat
    BY DEF TypeInv, QueueInv, QueueTypeOK, Message
  <2> QED
    BY <2>1, <2>2, <2>3, <2>4
<1>2. Past(x)'
  BY <1>1 DEF Past, Continues
<1>3. ASSUME IsLive(x)' PROVE IsLive(x) /\ messages'[x[1]].group = messages[x[1]].group
  <2>1. x[1] \in DOMAIN messages' /\ messages'[x[1]].receiveCount = x[2] /\ x[2] > 0 /\ messages'[x[1]].visibleAt > now'
    BY <1>3 DEF IsLive, IsCurrent, IsInFlight
  <2>2. x[1] \in DOMAIN messages
    BY <1>1, <2>1 DEF Past, Continues
  <2>3. /\ messages'[x[1]].group = messages[x[1]].group
        /\ messages[x[1]].receiveCount <= messages'[x[1]].receiveCount
        /\ messages'[x[1]].receiveCount = messages[x[1]].receiveCount => messages[x[1]].visibleAt > now
    BY <2>1, <2>2 DEF Continues
  <2>4. messages[x[1]].receiveCount = x[2]
    BY <1>1, <2>1, <2>2, <2>3 DEF Past
  <2> QED
    BY <2>1, <2>2, <2>3, <2>4 DEF IsLive, IsCurrent, IsInFlight
<1> QED
  BY <1>2, <1>3

\* The receipts of a receive are new; in a FIFO queue, nobody has a good receipt of their groups.
LEMMA ReceivedIsNew ==
  ASSUME TypeInv, NEW max \in Nat, ReceiveMessages(max), sent' = sent, NEW x \in Received(max)
  PROVE  /\ ~Past(x) /\ Past(x)'
         /\ \A y : fifo /\ IsLive(y) /\ y[1] \in DOMAIN messages' => messages[y[1]].group # messages'[x[1]].group
<1>1. PICK i \in Taken(max) : x = <<i, messages[i].receiveCount + 1>>
  BY DEF Received
<1>2. QueueInv /\ x[1] = i /\ x[2] = messages[i].receiveCount + 1
  BY <1>1 DEF TypeInv
<1>3. i \in DOMAIN messages /\ i \in Ready
  BY <1>2, ReceiveParts
<1>4. messages[i].receiveCount \in Nat /\ i <= sent
  BY <1>2, <1>3 DEF QueueInv, QueueTypeOK, Message
<1>5. ~Past(x)
  BY <1>2, <1>3, <1>4 DEF Past
<1>6. messages'[i].receiveCount = messages[i].receiveCount + 1 /\ messages'[i].group = messages[i].group
  BY <1>2, ReceiveDoes
<1>7. Past(x)'
  BY <1>2, <1>4, <1>6 DEF Past
<1>8. ASSUME NEW y, fifo, IsLive(y), y[1] \in DOMAIN messages' PROVE messages[y[1]].group # messages[i].group
  <2>1. y[1] \in Unexpired /\ IsInFlight(messages[y[1]])
    BY <1>2, <1>8, ReceiveDoes DEF IsLive
  <2>2. SameGroup(i, y[1]) => ~IsInFlight(messages[y[1]])
    BY <1>3, <2>1 DEF Ready
  <2> QED
    BY <1>8, <2>1, <2>2 DEF SameGroup
<1> QED
  BY <1>2, <1>5, <1>6, <1>7, <1>8

LEMMA ReceiptsInit == Init => ReceiptsInv /\ GroupInv
<1> SUFFICES ASSUME Init PROVE ReceiptsInv /\ GroupInv
  OBVIOUS
<1>1. \A p \in Pollers, s \in Places : Held(p, s) = {}
  BY PlacesAndSlots DEF Init, Held
<1> QED
  BY <1>1 DEF ReceiptsInv, GroupInv

\* While messages are received none is sent.
LEMMA ReceiveSendsNone ==
  ASSUME [Next]_vars, NEW max \in Nat, ReceiveMessages(max), Received(max) # {}, TypeInv
  PROVE  sent' = sent
<1>1. ASSUME NEW g, NEW k, NEW d, Send(g, k, d) PROVE sent' = sent
  <2>1. PICK i \in Taken(max) : TRUE
    BY DEF Received
  <2>2. messages'[i].receiveCount = messages[i].receiveCount + 1 /\ i \in DOMAIN messages
    BY ReceiveDoes, ReceiveParts DEF TypeInv
  <2>3. i \in 1..sent /\ sent \in Nat /\ messages[i].receiveCount \in Nat
    BY <2>2, Constants DEF TypeInv, QueueInv, QueueTypeOK, Message
  <2>4. i # sent + 1
    BY <2>3
  <2>5. sent' = sent \/ messages'[i] = messages[i]
    BY <1>1, <2>2, <2>4 DEF Send
  <2> QED
    BY <2>2, <2>3, <2>5
<1> QED
  BY <1>1 DEF Next, WakeUp, GetDeadLetterMessages, Notify, PollQueue, WindowTimer, EndBatch, Ack, HandBack,
              PollMessages, ClientWoken, ClientReceive, WaitForDrain, CheckDrain, Shutdown, Tick, vars

LEMMA ReceiptsNext ==
  ASSUME TypeInv, TimerCoversMessages, ReceiptsInv, GroupInv, [Next]_vars
  PROVE  ReceiptsInv' /\ GroupInv'
<1>1. TypeInv' /\ Continues /\ fifo' = fifo
  BY TypeInvNext, PollersSteps
<1>2. 0 \in Places
  BY PlacesAndSlots
<1>3. \A p \in Pollers, s \in Places : \A x \in Held(p, s) : x \in Receipts /\ Past(x)
  BY HeldIsReceipts DEF ReceiptsInv
<1>4. \A p \in Pollers, s \in Places : \A x \in Held(p, s) :
        Past(x)' /\ (IsLive(x)' => IsLive(x) /\ messages'[x[1]].group = messages[x[1]].group)
  BY <1>1, <1>3, PastGoesOn
<1>5. CASE Shrinks
  <2>1. ReceiptsInv'
    BY <1>4, <1>5 DEF Shrinks, ReceiptsInv
  <2>2. GroupInv'
    <3> SUFFICES ASSUME fifo, NEW p \in Pollers, NEW q \in Pollers, NEW s \in Places, NEW t \in Places,
                        NEW x \in Held(p, s)', NEW y \in Held(q, t)', IsLive(x)', IsLive(y)',
                        messages'[x[1]].group = messages'[y[1]].group
                 PROVE  p = q /\ s = t
      BY <1>1 DEF GroupInv
    <3>1. x \in Held(p, s) /\ y \in Held(q, t)
      BY <1>5 DEF Shrinks
    <3>2. IsLive(x) /\ IsLive(y) /\ messages[x[1]].group = messages[y[1]].group
      BY <1>4, <3>1
    <3> QED
      BY <3>1, <3>2 DEF GroupInv
  <2> QED
    BY <2>1, <2>2
<1>6. ASSUME NEW p \in Pollers, NEW to \in Places, NEW new \in SUBSET Receipts, Moves(p, to, new)
      PROVE  ReceiptsInv' /\ GroupInv'
  <2>1. \A x \in new : ~Past(x) /\ Past(x)'
    BY <1>6, ReceiveSendsNone, ReceivedIsNew DEF Moves
  <2>2. \A x \in new : \A y : fifo /\ IsLive(y) /\ y[1] \in DOMAIN messages' => messages[y[1]].group # messages'[x[1]].group
    BY <1>6, ReceiveSendsNone, ReceivedIsNew DEF Moves
  <2>3. /\ \A x \in Held(p, to)' : x \in Held(p, 0) \/ x \in new
        /\ \A q \in Pollers, t \in Places : ~(q = p /\ t = to) => Held(q, t)' \subseteq Held(q, t)
        /\ to # 0 => Held(p, 0)' = {}
    BY <1>6 DEF Moves
  <2>4. ASSUME NEW q \in Pollers, NEW t \in Places, NEW x \in Held(q, t)' PROVE Past(x)'
    BY <1>2, <1>4, <2>1, <2>3
  <2>5. ASSUME NEW q \in Pollers, NEW t \in Places, NEW x \in Held(p, to)', x \in Held(q, t)' PROVE q = p /\ t = to
    <3> SUFFICES ASSUME ~(q = p /\ t = to) PROVE FALSE
      OBVIOUS
    <3>1. x \in Held(q, t) /\ Past(x)
      BY <1>3, <2>3, <2>5
    <3>2. x \in Held(p, 0)
      BY <2>1, <2>3, <3>1
    <3>3. q = p /\ t = 0
      BY <1>2, <3>1, <3>2 DEF ReceiptsInv
    <3> QED
      BY <2>3, <2>5, <3>3
  <2>6. ASSUME NEW q \in Pollers, NEW t \in Places, NEW r \in Pollers, NEW u \in Places,
               NEW x \in Held(q, t)', x \in Held(r, u)'
        PROVE  q = r /\ t = u
    <3>1. CASE q = p /\ t = to
      BY <2>5, <2>6, <3>1
    <3>2. CASE r = p /\ u = to
      BY <2>5, <2>6, <3>2
    <3>3. CASE ~(q = p /\ t = to) /\ ~(r = p /\ u = to)
      BY <2>3, <2>6, <3>3 DEF ReceiptsInv
    <3> QED
      BY <3>1, <3>2, <3>3
  <2>7. ReceiptsInv'
    BY <2>4, <2>6 DEF ReceiptsInv
  <2>8. ASSUME fifo, NEW q \in Pollers, NEW t \in Places, ~(q = p /\ t = to),
               NEW x \in Held(p, to)', NEW y \in Held(q, t)', IsLive(x)', IsLive(y)'
        PROVE  messages'[x[1]].group # messages'[y[1]].group
    <3>1. y \in Held(q, t) /\ IsLive(y) /\ messages'[y[1]].group = messages[y[1]].group
      BY <1>4, <2>3, <2>8
    <3>2. Held(p, 0) = {}
      BY <2>8 DEF TypeInv, PollerInv, Held
    <3>3. x \in new
      BY <2>3, <3>2
    <3>4. y[1] \in DOMAIN messages'
      BY <2>8 DEF IsLive, IsCurrent
    <3> QED
      BY <2>2, <2>8, <3>1, <3>3, <3>4
  <2>9. GroupInv'
    <3> SUFFICES ASSUME fifo, NEW q \in Pollers, NEW r \in Pollers, NEW t \in Places, NEW u \in Places,
                        NEW x \in Held(q, t)', NEW y \in Held(r, u)', IsLive(x)', IsLive(y)',
                        messages'[x[1]].group = messages'[y[1]].group
                 PROVE  q = r /\ t = u
      BY <1>1 DEF GroupInv
    <3>1. CASE q = p /\ t = to
      BY <2>8, <3>1
    <3>2. CASE r = p /\ u = to
      BY <2>8, <3>2
    <3>3. CASE ~(q = p /\ t = to) /\ ~(r = p /\ u = to)
      <4>1. x \in Held(q, t) /\ y \in Held(r, u)
        BY <2>3, <3>3
      <4>2. IsLive(x) /\ IsLive(y) /\ messages[x[1]].group = messages[y[1]].group
        BY <1>4, <4>1
      <4> QED
        BY <4>1, <4>2 DEF GroupInv
    <3> QED
      BY <3>1, <3>2, <3>3
  <2> QED
    BY <2>7, <2>9
<1> QED
  BY <1>5, <1>6, ReceiptsMove

LEMMA ReceiptsInvariant == Spec => [](TypeInv /\ TimerCoversMessages /\ ReceiptsInv /\ GroupInv)
<1>1. TypeInv /\ TimerCoversMessages /\ ReceiptsInv /\ GroupInv /\ [Next]_vars
        => (TypeInv /\ TimerCoversMessages /\ ReceiptsInv /\ GroupInv)'
  BY TypeInvNext, ReceiptsNext
<1> QED
  BY <1>1, TypeInvInit, ReceiptsInit, PTL DEF Spec

\* A FIFO group is worked on by one batch at a time, for any pollers, batches and timeouts: blockedGroups.
THEOREM GroupsAreExclusive == Spec => []OneBatchPerGroup
<1>1. GroupInv => OneBatchPerGroup
  <2> SUFFICES ASSUME GroupInv, fifo, NEW p \in Pollers, NEW q \in Pollers, NEW s \in Slots, NEW t \in Slots,
                      NEW x \in batches[p][s], NEW y \in batches[q][t], IsLive(x), IsLive(y),
                      messages[x[1]].group = messages[y[1]].group
               PROVE  p = q /\ s = t
    BY DEF OneBatchPerGroup
  <2>1. s \in Places /\ t \in Places /\ x \in Held(p, s) /\ y \in Held(q, t)
    BY PlacesAndSlots DEF Held
  <2> QED
    BY <2>1 DEF GroupInv
<1> QED
  BY <1>1, ReceiptsInvariant, PTL

-----------------------------------------------------------------------------
(* What a step may do to a message                                         *)

\* No message leaves, and none is received.
Remain ==
  /\ DOMAIN messages \subseteq DOMAIN messages'
  /\ \A i \in DOMAIN messages : messages'[i].receiveCount = messages[i].receiveCount

Drops == messages' = Restrict(messages, Unexpired)

Acks(p, s, receipt) ==
  /\ receipt \in batches[p][s] /\ IsCurrent(receipt)
  /\ messages' = Restrict(messages, DOMAIN messages \ {receipt[1]})
  /\ pending' = pending /\ batches' = [batches EXCEPT ![p][s] = @ \ {receipt}]

MessagesStep ==
  \/ Remain
  \/ Drops
  \/ \E max \in Nat : max # 0 /\ ReceiveMessages(max)
  \/ \E p \in Pollers, s \in Slots : \E receipt \in batches[p][s] : Acks(p, s, receipt)

LEMMA MessagesSteps ==
  ASSUME TypeInv, [Next]_vars
  PROVE  MessagesStep
<1>1. QueueInv
  BY DEF TypeInv
<1>2. ASSUME messages' = messages PROVE MessagesStep
  BY <1>2 DEF Remain, MessagesStep
<1>3. ASSUME NEW g, NEW k, NEW d, Send(g, k, d) PROVE MessagesStep
  <2>1. CASE fifo /\ <<g, k>> \in LiveDedups
    BY <1>2, <1>3, <2>1 DEF Send, queueVars
  <2>2. CASE ~(fifo /\ <<g, k>> \in LiveDedups)
    <3>1. \A i \in DOMAIN messages : i # sent + 1
      <4>1. sent \in 0..MaxSent /\ MaxSent \in Nat /\ DOMAIN messages \subseteq 1..sent
        BY <1>1, Constants DEF QueueInv, QueueTypeOK
      <4>2. \A i \in 1..sent : i # sent + 1
        BY <4>1
      <4> QED
        BY <4>1, <4>2
    <3>2. Remain
      BY <1>3, <2>2, <3>1 DEF Send, Remain
    <3> QED
      BY <3>2 DEF MessagesStep
  <2> QED
    BY <2>1, <2>2
<1>4. CASE WakeUp \/ CheckDrain
  BY <1>4 DEF WakeUp, CheckDrain, Drops, MessagesStep
<1>5. CASE GetDeadLetterMessages \/ Notify \/ WaitForDrain \/ Shutdown \/ Tick \/ UNCHANGED vars
  BY <1>2, <1>5 DEF GetDeadLetterMessages, Notify, WaitForDrain, Shutdown, Tick, vars, queueVars
<1>6. ASSUME NEW p \in Pollers, PollQueue(p) PROVE MessagesStep
  <2>1. Room(p) \in Nat /\ Room(p) # 0
    BY RoomIsLeft
  <2>2. ReceiveMessages(Room(p)) \/ messages' = messages
    BY <1>6 DEF PollQueue, queueVars
  <2> QED
    BY <1>2, <2>1, <2>2 DEF MessagesStep
<1>7. ASSUME NEW p \in Pollers, WindowTimer(p) PROVE MessagesStep
  BY <1>2, <1>7 DEF WindowTimer, queueVars
<1>8. ASSUME NEW p \in Pollers, NEW s \in Slots, EndBatch(p, s) PROVE MessagesStep
  BY <1>2, <1>8 DEF EndBatch
<1>9. ASSUME NEW p \in Pollers, NEW s \in Slots, NEW receipt \in batches[p][s], Ack(p, s, receipt) PROVE MessagesStep
  <2>1. messages' = messages \/ Acks(p, s, receipt)
    BY <1>9 DEF Ack, Acks, Settle
  <2> QED
    BY <1>2, <2>1 DEF MessagesStep
<1>10. ASSUME NEW p \in Pollers, NEW s \in Slots, NEW receipt \in batches[p][s], NEW t \in Timeouts,
              HandBack(p, s, receipt, t)
       PROVE  MessagesStep
  <2>1. messages' = messages \/ messages' = [messages EXCEPT ![receipt[1]].visibleAt = now + t]
    BY <1>10 DEF HandBack
  <2>2. \A i \in DOMAIN messages : messages[i] \in Message
    BY <1>1 DEF QueueInv, QueueTypeOK
  <2>3. Remain
    BY <2>1, <2>2 DEF Remain, Message
  <2> QED
    BY <2>3 DEF MessagesStep
<1>11. ASSUME NEW c \in Clients, PollMessages(c) \/ ClientWoken(c) PROVE MessagesStep
  <2>1. ReceiveMessages(1) /\ 1 \in Nat /\ 1 # 0
    BY <1>11 DEF PollMessages, ClientWoken, ClientReceive
  <2> QED
    BY <2>1 DEF MessagesStep
<1> QED
  BY <1>3, <1>4, <1>5, <1>6, <1>7, <1>8, <1>9, <1>10, <1>11 DEF Next

\* What precedes a taken message in its group is taken with it, or leaves the queue.
LEMMA EarlierAreTaken ==
  ASSUME QueueInv, fifo, NEW max \in Nat, NEW i \in Taken(max), NEW j \in Unexpired, j < i,
         messages[j].group = messages[i].group
  PROVE  j \in Taken(max) \/ j \in Exhausted(max)
<1>1. i \in Ready /\ i \in Receivable /\ Receivable \subseteq DOMAIN messages /\ Ready \subseteq Unexpired
      /\ Unexpired \subseteq DOMAIN messages
  BY ReceiveParts
<1>2. i \in 1..sent /\ j \in 1..sent /\ sent \in 0..MaxSent /\ MaxSent \in Nat
  BY <1>1, Constants DEF QueueInv, QueueTypeOK
<1>3. j \in Ready
  <2>1. messages[j].visibleAt <= now
    BY <1>1 DEF Ready, SameGroup
  <2>2. ASSUME NEW k \in Unexpired, SameGroup(j, k)
        PROVE  ~IsInFlight(messages[k]) /\ (k < j => messages[k].visibleAt <= now)
    <3>1. SameGroup(i, k)
      BY <2>2 DEF SameGroup
    <3>2. ~IsInFlight(messages[k]) /\ (k < i => messages[k].visibleAt <= now)
      BY <1>1, <3>1 DEF Ready
    <3>3. k \in 1..sent
      BY <1>1 DEF QueueInv, QueueTypeOK
    <3>4. k < j => k < i
      BY <1>2, <3>3
    <3> QED
      BY <3>2, <3>4
  <2> QED
    BY <2>1, <2>2 DEF Ready
<1>4. Reaches(j, max)
  <2> DEFINE before == {k \in Receivable : k < i}
             fewer == {k \in Receivable : k < j}
  <2>1. IsFiniteSet(1..sent)
    BY <1>2, FS_Interval
  <2>2. Receivable \in SUBSET (1..sent)
    BY <1>1 DEF QueueInv, QueueTypeOK
  <2>3. before \in SUBSET (1..sent)
    BY <2>2
  <2>4. fewer \in SUBSET before
    <3>1. \A k \in 1..sent : k < j => k < i
      BY <1>2
    <3> QED
      BY <2>2, <3>1
  <2>5. Cardinality(before) < max
    BY DEF Taken, Reaches
  <2> HIDE DEF before, fewer
  <2>6. /\ Cardinality(fewer) <= Cardinality(before)
        /\ Cardinality(fewer) \in Nat /\ Cardinality(before) \in Nat
    BY <2>1, <2>3, <2>4, FS_Subset, FS_CardinalityType
  <2>7. Cardinality(fewer) < max
    BY <2>5, <2>6
  <2> QED
    BY <2>7 DEF Reaches, fewer
<1> QED
  BY <1>3, <1>4 DEF Taken, Exhausted

\* No message of a FIFO group is received before an earlier one of its group, for any delay of the queue, batch
\* size and number of receivers.
THEOREM GroupsReceivedInOrder == Spec => GroupsInOrder
<1> DEFINE InOrder ==
      fifo => \A i, j \in DOMAIN messages' :
        /\ i \in DOMAIN messages /\ messages'[i].receiveCount > messages[i].receiveCount
        /\ j < i /\ messages'[j].group = messages'[i].group
        => messages'[j].receiveCount > messages[j].receiveCount
<1>1. TypeInv /\ [Next]_vars => [InOrder]_vars
  <2> SUFFICES ASSUME TypeInv, [Next]_vars, fifo, NEW i \in DOMAIN messages', NEW j \in DOMAIN messages',
                      i \in DOMAIN messages, messages'[i].receiveCount > messages[i].receiveCount,
                      j < i, messages'[j].group = messages'[i].group
               PROVE  messages'[j].receiveCount > messages[j].receiveCount
    OBVIOUS
  <2>1. QueueInv /\ messages[i].receiveCount \in Nat
    BY DEF TypeInv, QueueInv, QueueTypeOK, Message
  <2>2. CASE Remain
    BY <2>1, <2>2 DEF Remain
  <2>3. CASE Drops
    BY <2>1, <2>3 DEF Drops, Restrict
  <2>4. ASSUME NEW p \in Pollers, NEW s \in Slots, NEW receipt \in batches[p][s], Acks(p, s, receipt) PROVE FALSE
    BY <2>1, <2>4 DEF Acks, Restrict
  <2>5. ASSUME NEW max \in Nat, ReceiveMessages(max) PROVE messages'[j].receiveCount > messages[j].receiveCount
    <3>1. i \in Taken(max)
      <4>1. i \notin Taken(max) => messages'[i] = messages[i]
        BY <2>1, <2>5, ReceiveDoes
      <4>2. messages'[i] # messages[i]
        BY <2>1
      <4> QED
        BY <4>1, <4>2
    <3>2. j \in Unexpired /\ j \notin Exhausted(max) /\ j \in DOMAIN messages
      BY <2>1, <2>5, ReceiveDoes, ReceiveParts
    <3>3. messages'[i].group = messages[i].group /\ messages'[j].group = messages[j].group
      BY <2>1, <2>5, <3>1, ReceiveDoes
    <3>4. j \in Taken(max)
      BY <2>1, <3>1, <3>2, <3>3, EarlierAreTaken
    <3>5. messages'[j].receiveCount = messages[j].receiveCount + 1 /\ messages[j].receiveCount \in Nat
      BY <2>1, <2>5, <3>2, <3>4, ReceiveDoes DEF QueueInv, QueueTypeOK, Message
    <3> QED
      BY <3>5
  <2> QED
    BY <2>2, <2>3, <2>4, <2>5, MessagesSteps DEF MessagesStep
<1>2. Spec => [][InOrder]_vars
  <2> HIDE DEF InOrder
  <2> QED
    BY <1>1, TypeInvariant, PTL DEF Spec
<1> QED
  BY <1>2 DEF GroupsInOrder

LEMMA OpenIsHeld ==
  /\ \A x : x \in Open <=> \E p \in Pollers, s \in Places : x \in Held(p, s)
  /\ \A x : x \in Open' <=> \E p \in Pollers, s \in Places : x \in Held(p, s)'
<1>1. Places = Slots \cup {0} /\ 0 \notin Slots
  BY PlacesAndSlots
<1>2. ASSUME NEW b, NEW w, NEW x
      PROVE  x \in UNION {(UNION {b[p][s] : s \in Slots}) \cup w[p] : p \in Pollers}
               <=> \E p \in Pollers, s \in Places : x \in IF s = 0 THEN w[p] ELSE b[p][s]
  <2> DEFINE Of(p) == (UNION {b[p][s] : s \in Slots}) \cup w[p]
  <2>1. ASSUME NEW p \in Pollers PROVE x \in Of(p) <=> \E s \in Places : x \in IF s = 0 THEN w[p] ELSE b[p][s]
    <3>1. x \in Of(p) <=> (\E s \in Slots : x \in b[p][s]) \/ x \in w[p]
      OBVIOUS
    <3> HIDE DEF Of
    <3> QED
      BY <1>1, <3>1
  <2> HIDE DEF Of
  <2>2. x \in UNION {Of(p) : p \in Pollers} <=> \E p \in Pollers : x \in Of(p)
    OBVIOUS
  <2>3. x \in UNION {Of(p) : p \in Pollers} <=> \E p \in Pollers, s \in Places : x \in IF s = 0 THEN w[p] ELSE b[p][s]
    BY <2>1, <2>2
  <2> QED
    BY <2>3 DEF Of
<1> QED
  BY <1>2 DEF Open, Held

\* No message is lost, for any consumers: it leaves the queue when its latest receipt is settled, at the end of its
\* retention, or for the dead-letter queue with its attempts spent and nobody holding it.
THEOREM NothingIsLost == Spec => LeavesOnlySettled
<1> DEFINE Leaves ==
      \A i \in DOMAIN messages \ DOMAIN messages' :
        LET receipt == <<i, messages[i].receiveCount>> IN
        \/ ExpireTime(messages[i]) <= now
        \/ i \in DOMAIN deadLetters' /\ messages[i].receiveCount = MaxAttempts /\ ~IsInFlight(messages[i])
        \/ receipt \in Open /\ receipt \notin Open'
<1>1. TypeInv /\ ReceiptsInv /\ [Next]_vars => [Leaves]_vars
  <2> SUFFICES ASSUME TypeInv, ReceiptsInv, [Next]_vars, NEW i \in DOMAIN messages, i \notin DOMAIN messages'
               PROVE  \/ ExpireTime(messages[i]) <= now
                      \/ i \in DOMAIN deadLetters' /\ messages[i].receiveCount = MaxAttempts /\ ~IsInFlight(messages[i])
                      \/ /\ <<i, messages[i].receiveCount>> \in Open
                         /\ <<i, messages[i].receiveCount>> \notin Open'
    OBVIOUS
  <2>1. QueueInv /\ messages[i] \in Message /\ now \in Nat
    <3>1. QueueInv /\ messages[i] \in Message /\ now \in 0..MaxTime
      BY DEF TypeInv, QueueInv, QueueTypeOK
    <3> QED
      BY <3>1, Constants
  <2>2. messages[i].visibleAt \in Nat /\ messages[i].sentAt \in Nat /\ Retention \in Nat
    BY <2>1, Constants DEF Message
  <2>3. i \notin Unexpired => ExpireTime(messages[i]) <= now
    BY <2>1, <2>2 DEF Unexpired, ExpireTime
  <2>4. ~Remain
    BY DEF Remain
  <2>5. CASE Drops
    BY <2>3, <2>5 DEF Drops, Restrict
  <2>6. ASSUME NEW max \in Nat, ReceiveMessages(max), i \in Unexpired
        PROVE  i \in DOMAIN deadLetters' /\ messages[i].receiveCount = MaxAttempts /\ ~IsInFlight(messages[i])
    <3>1. i \in Exhausted(max)
      BY <2>1, <2>6, ReceiveDoes
    <3>2. messages[i].receiveCount = MaxAttempts /\ messages[i].visibleAt <= now
      BY <2>1, <3>1, ReceiveParts
    <3>3. i \in DOMAIN deadLetters'
      BY <2>6, <3>1 DEF ReceiveMessages
    <3> QED
      BY <2>1, <2>2, <3>2, <3>3 DEF IsInFlight
  <2>7. ASSUME NEW p \in Pollers, NEW s \in Slots, NEW receipt \in batches[p][s], Acks(p, s, receipt)
        PROVE  <<i, messages[i].receiveCount>> \in Open /\ <<i, messages[i].receiveCount>> \notin Open'
    <3>1. i = receipt[1] /\ messages[i].receiveCount = receipt[2]
      BY <2>7 DEF Acks, Restrict, IsCurrent
    <3>2. s \in Places /\ s # 0 /\ receipt \in Held(p, s) /\ receipt \in Receipts
      BY PlacesAndSlots, HeldIsReceipts DEF Held
    <3>3. receipt = <<i, messages[i].receiveCount>>
      BY <3>1, <3>2 DEF Receipts
    <3>4. PollersTypeOK /\ pending' = pending /\ batches' = [batches EXCEPT ![p][s] = @ \ {receipt}]
      BY <2>7 DEF Acks, TypeInv
    <3>5. ASSUME NEW q \in Pollers, NEW t \in Places PROVE receipt \notin Held(q, t)'
      <4>1. Held(q, t)' \subseteq Held(q, t)
        BY <3>4, PlacesAndSlots DEF Held, PollersTypeOK
      <4>2. receipt \in Held(q, t) => q = p /\ t = s
        BY <3>2 DEF ReceiptsInv
      <4>3. receipt \notin Held(p, s)'
        BY <3>2, <3>4 DEF Held, PollersTypeOK
      <4> QED
        BY <4>1, <4>2, <4>3
    <3> QED
      BY <3>2, <3>3, <3>5, OpenIsHeld
  <2> QED
    BY <2>3, <2>4, <2>5, <2>6, <2>7, MessagesSteps DEF MessagesStep
<1>2. Spec => [][Leaves]_vars
  <2> HIDE DEF Leaves
  <2> QED
    BY <1>1, ReceiptsInvariant, PTL DEF Spec
<1> QED
  BY <1>2 DEF LeavesOnlySettled

-----------------------------------------------------------------------------
(* The waiters                                                             *)

\* A waiter waits between notifications only, and sleeps over an empty queue only when it is about to be called.
DrainInv ==
  drain = "waiting" =>
    /\ due = {}
    /\ ~stopped /\ DOMAIN messages = {} /\ (\A p \in Pollers : IsIdle(p)) => notifying

\* A receive that drops messages notifies.
LEMMA EmptiedIsNotified ==
  ASSUME QueueInv, NEW max \in Nat, ReceiveMessages(max), DOMAIN messages' = {}
  PROVE  notifying' \/ (DOMAIN messages = {} /\ notifying' = notifying)
<1>1. Unexpired \ Exhausted(max) = {}
  BY ReceiveDoes
<1>2. notifying' = (notifying \/ Unexpired # DOMAIN messages \/ Exhausted(max) # {}) /\ notifying \in BOOLEAN
  BY DEF ReceiveMessages, QueueInv, QueueTypeOK
<1> QED
  BY <1>1, <1>2

LEMMA DrainNext ==
  ASSUME TypeInv, DrainInv, [Next]_vars
  PROVE  DrainInv'
<1>1. QueueInv /\ notifying \in BOOLEAN
  BY DEF TypeInv, QueueInv, QueueTypeOK
<1>2. ASSUME UNCHANGED <<drain, due, stopped, messages, active, pending, notifying>> PROVE DrainInv'
  BY <1>2 DEF DrainInv, IsIdle
<1>3. ASSUME UNCHANGED <<drain, due>>, notifying' PROVE DrainInv'
  BY <1>3 DEF DrainInv
<1>4. ASSUME NEW g, NEW k, NEW d, Send(g, k, d) PROVE DrainInv'
  BY <1>2, <1>3, <1>4 DEF Send, queueVars, pollerVars
<1>5. CASE WakeUp
  BY <1>3, <1>5 DEF WakeUp, pollerVars
<1>6. CASE GetDeadLetterMessages \/ UNCHANGED vars
  BY <1>2, <1>6 DEF GetDeadLetterMessages, vars, pollerVars, queueVars
<1>7. CASE Notify
  BY <1>7 DEF Notify, DrainInv
<1>8. ASSUME NEW p \in Pollers, PollQueue(p) PROVE DrainInv'
  BY <1>8 DEF PollQueue, DrainInv
<1>9. ASSUME NEW p \in Pollers, WindowTimer(p) PROVE DrainInv'
  <2>1. /\ active' = [active EXCEPT ![p] = @ \cup {MinOf(Slots \ active[p])}]
        /\ active \in [Pollers -> SUBSET Slots] /\ UNCHANGED <<drain, due>>
    BY <1>9 DEF WindowTimer, DispatchBatch, TypeInv, PollersTypeOK
  <2>2. active'[p] # {}
    BY <2>1
  <2> QED
    BY <2>1, <2>2 DEF DrainInv, IsIdle
<1>10. ASSUME NEW p \in Pollers, NEW s \in Slots, EndBatch(p, s) PROVE DrainInv'
  BY <1>3, <1>10 DEF EndBatch
<1>11. ASSUME NEW p \in Pollers, NEW s \in Slots, NEW receipt \in batches[p][s],
              Ack(p, s, receipt) \/ \E t \in Timeouts : HandBack(p, s, receipt, t)
       PROVE  DrainInv'
  BY <1>2, <1>3, <1>11 DEF Ack, HandBack
<1>12. ASSUME NEW c \in Clients, PollMessages(c) \/ ClientWoken(c) PROVE DrainInv'
  <2>1. ReceiveMessages(1) /\ UNCHANGED <<drain, due, stopped, active, pending>> /\ 1 \in Nat
    BY <1>12 DEF PollMessages, ClientWoken, ClientReceive, pollerVars
  <2>2. DOMAIN messages' = {} => notifying' \/ (DOMAIN messages = {} /\ notifying' = notifying)
    BY <1>1, <2>1, EmptiedIsNotified
  <2> QED
    BY <2>1, <2>2 DEF DrainInv, IsIdle
<1>13. CASE WaitForDrain
  BY <1>13 DEF WaitForDrain, DrainInv
<1>14. CASE CheckDrain
  <2>1. /\ messages' = Restrict(messages, Unexpired) /\ due = {} /\ due' = due
        /\ UNCHANGED <<stopped, active, pending>>
        /\ drain' = IF stopped \/ (Unexpired = {} /\ \A p \in Pollers : IsIdle(p)) THEN "absent" ELSE "waiting"
    BY <1>14 DEF CheckDrain, pollerVars
  <2>2. DOMAIN messages' = Unexpired
    BY <2>1 DEF Restrict
  <2> QED
    BY <2>1, <2>2 DEF DrainInv, IsIdle
<1>15. CASE Shutdown
  BY <1>15 DEF Shutdown, DrainInv
<1>16. CASE Tick
  BY <1>2, <1>16 DEF Tick, pollerVars, queueVars
<1> QED
  BY <1>4, <1>5, <1>6, <1>7, <1>8, <1>9, <1>10, <1>11, <1>12, <1>13, <1>14, <1>15, <1>16 DEF Next

\* A drained queue is noticed, whoever empties it: waitForDrain is called again, or about to be.
THEOREM DrainNoticed == Spec => []DrainIsNoticed
<1>1. Init => DrainInv
  BY DEF Init, DrainInv
<1>2. TypeInv /\ TimerCoversMessages /\ DrainInv => DrainIsNoticed
  <2> SUFFICES ASSUME TypeInv, TimerCoversMessages, DrainInv, drain = "waiting", ~stopped, Unexpired = {},
                      \A p \in Pollers : IsIdle(p)
               PROVE  notifying \/ wakeUp <= now
    BY DEF DrainIsNoticed, WakeUpPending
  <2>1. CASE DOMAIN messages = {}
    BY <2>1 DEF DrainInv
  <2>2. CASE DOMAIN messages # {}
    <3>1. PICK i \in DOMAIN messages : TRUE
      BY <2>2
    <3>2. wakeUp <= ExpireTime(messages[i]) /\ ~(ExpireTime(messages[i]) > now)
      BY DEF TimerCoversMessages, Unexpired
    <3>3. wakeUp \in Nat /\ now \in Nat /\ messages[i].sentAt \in Nat /\ Retention \in Nat
      <4>1. wakeUp \in Times /\ now \in 0..MaxTime /\ messages[i].sentAt \in Times
        BY DEF TypeInv, QueueInv, QueueTypeOK, Message
      <4> QED
        BY <4>1, Constants
    <3> QED
      BY <3>2, <3>3 DEF ExpireTime
  <2> QED
    BY <2>1, <2>2
<1>3. TypeInv /\ DrainInv /\ [Next]_vars => DrainInv'
  BY DrainNext
<1> QED
  BY <1>1, <1>2, <1>3, TypeInvariant, PTL DEF Spec

-----------------------------------------------------------------------------
(* The wake-ups of the pollers                                             *)

\* While a notification goes from poller to poller, those it has called left nothing they had capacity for.
PolledOut ==
  due # {} /\ ~notifying /\ ~stopped => \A p \in Pollers \ due : HasCapacity(p) => Receivable = {}

LEMMA MessageTimes ==
  ASSUME QueueInv
  PROVE  /\ now \in Nat /\ wakeUp \in Nat /\ MaxAttempts \in Nat /\ Retention \in Nat
         /\ \A i \in DOMAIN messages :
              /\ messages[i].sentAt \in Nat /\ messages[i].visibleAt \in Nat /\ messages[i].receivedAt \in Nat
              /\ messages[i].receiveCount \in Nat
<1>1. wakeUp \in Times /\ now \in 0..MaxTime
  BY DEF QueueInv, QueueTypeOK
<1>2. \A x \in Times : x \in Nat
  BY Constants
<1>3. \A i \in DOMAIN messages :
        /\ messages[i].sentAt \in Times /\ messages[i].visibleAt \in Times /\ messages[i].receivedAt \in Times
        /\ messages[i].receiveCount \in Nat
  BY DEF QueueInv, QueueTypeOK, Message
<1> QED
  BY <1>1, <1>2, <1>3, Constants

\* What can be received after a receive could be before: it was left, and something else was taken.
LEMMA ReceiveLeaves ==
  ASSUME QueueInv, NEW max \in Nat, max # 0, ReceiveMessages(max), now' = now, fifo' = fifo, NEW i \in Receivable'
  PROVE  /\ i \in Receivable \ Taken(max)
         /\ \E j \in DOMAIN messages \cap DOMAIN messages' :
              j \in Taken(max) /\ messages'[j].receiveCount > messages[j].receiveCount
<1>1. /\ i \in DOMAIN messages' /\ messages'[i].visibleAt <= now /\ messages'[i].receiveCount < MaxAttempts
      /\ \A j \in Unexpired' :
           SameGroup(i, j)' => ~IsInFlight(messages[j])' /\ (j < i => messages'[j].visibleAt <= now)
  BY DEF Receivable, Ready, Unexpired
<1>2. now \in Nat /\ VisibilityTimeout \in Nat /\ VisibilityTimeout # 0
  BY MessageTimes, ConstantsAssumption
<1>3. \A j \in Taken(max) : messages'[j].visibleAt > now /\ messages'[j].receiveCount > 0
                            /\ messages'[j].receivedAt = now
  <2> SUFFICES ASSUME NEW j \in Taken(max)
               PROVE  messages'[j].visibleAt > now /\ messages'[j].receiveCount > 0 /\ messages'[j].receivedAt = now
    OBVIOUS
  <2>1. /\ messages'[j].receiveCount = messages[j].receiveCount + 1
        /\ messages'[j].receivedAt = now /\ messages'[j].visibleAt = now + VisibilityTimeout
    BY ReceiveDoes
  <2>2. messages[j].receiveCount \in Nat
    BY ReceiveParts, MessageTimes
  <2> QED
    BY <1>2, <2>1, <2>2
<1>4. i \notin Taken(max)
  <2>1. messages'[i].visibleAt \in Nat => ~(messages'[i].visibleAt > now)
    BY <1>1, <1>2
  <2>2. i \in Taken(max) => messages'[i].visibleAt \in Nat
    <3>1. i \in Taken(max) => messages'[i].visibleAt = now + VisibilityTimeout
      BY ReceiveDoes
    <3> QED
      BY <1>2, <3>1
  <2> QED
    BY <1>3, <2>1, <2>2
<1>5. messages'[i] = messages[i] /\ i \in Unexpired
  BY <1>1, <1>4, ReceiveDoes
<1>6. ASSUME NEW j \in Unexpired, SameGroup(i, j)
      PROVE  ~IsInFlight(messages[j]) /\ (j < i => messages[j].visibleAt <= now)
  <2>1. CASE j \in DOMAIN messages'
    <3>1. messages'[j].group = messages[j].group /\ messages'[j].sentAt = messages[j].sentAt
      BY <2>1, ReceiveDoes
    <3>2. j \in Unexpired'
      BY <1>6, <2>1, <3>1 DEF Unexpired, ExpireTime
    <3>3. SameGroup(i, j)'
      BY <1>5, <1>6, <3>1 DEF SameGroup
    <3>4. ~IsInFlight(messages[j])' /\ (j < i => messages'[j].visibleAt <= now)
      BY <1>1, <3>2, <3>3
    <3>5. j \notin Taken(max)
      BY <1>3, <3>4 DEF IsInFlight
    <3>6. messages'[j] = messages[j]
      BY <2>1, <3>5, ReceiveDoes
    <3> QED
      BY <3>4, <3>6 DEF IsInFlight
  <2>2. CASE j \notin DOMAIN messages'
    <3>1. j \in Exhausted(max)
      BY <2>2, ReceiveDoes
    <3>2. messages[j].visibleAt <= now /\ messages[j].visibleAt \in Nat
      BY <3>1, ReceiveParts, MessageTimes
    <3> QED
      BY <1>2, <3>2 DEF IsInFlight
  <2> QED
    BY <2>1, <2>2
<1>7. i \in Receivable
  BY <1>1, <1>5, <1>6 DEF Receivable, Ready
<1>8. PICK j \in Taken(max) : TRUE
  BY <1>7, ReceiveParts
<1>9. /\ j \in DOMAIN messages /\ j \in DOMAIN messages'
      /\ messages'[j].receiveCount = messages[j].receiveCount + 1 /\ messages[j].receiveCount \in Nat
  BY ReceiveDoes, ReceiveParts, MessageTimes
<1> QED
  BY <1>4, <1>7, <1>9

\* As long as the wake-up timer isn't due, the time that passes makes nothing receivable.
LEMMA TimeChangesNothing ==
  ASSUME QueueInv, TimerCoversMessages, ~stopped, now' = now + 1, wakeUp > now + 1, UNCHANGED <<fifo, messages>>
  PROVE  Receivable' \subseteq Receivable
<1> SUFFICES ASSUME NEW i \in Receivable' PROVE i \in Receivable
  OBVIOUS
<1>1. /\ now \in Nat /\ wakeUp \in Nat /\ Retention \in Nat
      /\ \A j \in DOMAIN messages : messages[j].sentAt \in Nat /\ messages[j].visibleAt \in Nat
  BY MessageTimes
<1>2. \A j \in DOMAIN messages :
        /\ messages[j].sentAt + Retention > now + 1
        /\ messages[j].visibleAt > now => messages[j].visibleAt > now + 1
  BY <1>1 DEF TimerCoversMessages, ExpireTime
<1>3. /\ i \in DOMAIN messages /\ messages[i].visibleAt <= now + 1 /\ messages[i].receiveCount < MaxAttempts
      /\ \A j \in Unexpired' :
           SameGroup(i, j)' => ~IsInFlight(messages[j])' /\ (j < i => messages[j].visibleAt <= now + 1)
  BY DEF Receivable, Ready, Unexpired
<1>4. messages[i].visibleAt <= now /\ i \in Unexpired
  BY <1>1, <1>2, <1>3 DEF Unexpired, ExpireTime
<1>5. ASSUME NEW j \in Unexpired, SameGroup(i, j)
      PROVE  ~IsInFlight(messages[j]) /\ (j < i => messages[j].visibleAt <= now)
  <2>1. j \in DOMAIN messages /\ j \in Unexpired'
    BY <1>1, <1>2, <1>5 DEF Unexpired, ExpireTime
  <2>2. ~IsInFlight(messages[j])' /\ (j < i => messages[j].visibleAt <= now + 1)
    BY <1>3, <1>5, <2>1 DEF SameGroup
  <2> QED
    BY <1>1, <1>2, <2>1, <2>2 DEF IsInFlight
<1> QED
  BY <1>3, <1>4, <1>5 DEF Receivable, Ready

\* A receive that isn't full takes everything it could.
LEMMA TakesAll ==
  ASSUME QueueInv, NEW max \in Nat, Cardinality(Taken(max)) < max
  PROVE  Receivable \subseteq Taken(max)
<1> DEFINE left == Receivable \ Taken(max)
<1> SUFFICES ASSUME left # {} PROVE FALSE
  OBVIOUS
<1>1. left \in SUBSET Nat
  <2>1. Receivable \subseteq 1..sent /\ sent \in 0..MaxSent /\ MaxSent \in Nat
    BY ReceiveParts, Constants DEF QueueInv, QueueTypeOK
  <2>2. \A j \in 1..sent : j \in Nat
    BY <2>1
  <2> QED
    BY <2>1, <2>2
<1>2. PICK i \in left : \A j \in left : i <= j
  <2> HIDE DEF left
  <2> QED
    BY <1>1, MinOfIsLeast
<1> DEFINE before == {j \in Receivable : j < i}
<1>3. before \in SUBSET Taken(max)
  <2> SUFFICES ASSUME NEW j \in Receivable, j < i PROVE j \notin left
    OBVIOUS
  <2>1. j \in left => j \in Nat /\ i \in Nat /\ i <= j
    BY <1>1, <1>2
  <2> QED
    BY <2>1
<1>4. IsFiniteSet(Taken(max))
  BY ReceiveParts
<1>5. ~(Cardinality(before) < max)
  BY DEF Taken, Reaches
<1> HIDE DEF before
<1>6. Cardinality(before) <= Cardinality(Taken(max)) /\ Cardinality(before) \in Nat /\ Cardinality(Taken(max)) \in Nat
  BY <1>3, <1>4, FS_Subset, FS_CardinalityType
<1> QED
  BY <1>5, <1>6

\* A poll that leaves its batch to be filled has taken everything it could: what it took is new to the batch.
LEMMA FillTakesAll ==
  ASSUME TypeInv, ReceiptsInv, NEW p \in Pollers, PollFills(p), sent' = sent
  PROVE  Receivable \subseteq Taken(Room(p))
<1> DEFINE max == Room(p)
           new == Received(max)
<1>1. max \in Nat /\ max = BatchSize - Cardinality(pending[p])
  BY RoomIsLeft
<1>2. QueueInv /\ IsFiniteSet(pending[p]) /\ ReceiveMessages(max) /\ Cardinality(Batch(p)) # BatchSize
  BY DEF TypeInv, PollerInv, PollFills
<1>3. IsFiniteSet(Taken(max))
  <2> HIDE DEF max
  <2> QED
    BY <1>1, <1>2, ReceiveParts
<1>4. IsFiniteSet(new) /\ Cardinality(Taken(max)) <= Cardinality(new)
  <2> DEFINE f == [i \in Taken(max) |-> <<i, messages[i].receiveCount + 1>>]
             g == [x \in new |-> x[1]]
  <2>1. new = {f[i] : i \in Taken(max)}
    BY DEF Received
  <2>2. f \in Surjection(Taken(max), new)
    BY <2>1 DEF Surjection
  <2>3. IsFiniteSet(new)
    <3> HIDE DEF f, max, new
    <3> QED
      BY <1>3, <2>2, FS_Surjection
  <2>4. /\ \A x \in new : g[x] \in Taken(max)
        /\ \A i \in Taken(max) : f[i] \in new /\ g[f[i]] = i
    BY <2>1
  <2>5. g \in [new -> Taken(max)]
    BY <2>4
  <2>6. \A i \in Taken(max) : \E x \in new : g[x] = i
    BY <2>4
  <2>7. g \in Surjection(new, Taken(max))
    <3> HIDE DEF f, g, max, new
    <3> QED
      BY <2>5, <2>6 DEF Surjection
  <2> HIDE DEF f, g, max, new
  <2> QED
    BY <2>3, <2>7, FS_Surjection
<1>5. pending[p] \cap new = {}
  <2> SUFFICES ASSUME NEW x \in pending[p], x \in new PROVE FALSE
    OBVIOUS
  <2>1. 0 \in Places /\ x \in Held(p, 0)
    BY PlacesAndSlots DEF Held
  <2>2. Past(x)
    BY <2>1 DEF ReceiptsInv
  <2>3. ~Past(x)
    <3> HIDE DEF max
    <3> QED
      BY <1>1, <1>2, ReceivedIsNew DEF new
  <2> QED
    BY <2>2, <2>3
<1>6. Cardinality(Batch(p)) = Cardinality(pending[p]) + Cardinality(new)
  <2>1. Batch(p) = pending[p] \cup new
    BY DEF Batch
  <2>2. Cardinality(pending[p] \cup new)
          = Cardinality(pending[p]) + Cardinality(new) - Cardinality(pending[p] \cap new)
    <3> HIDE DEF new
    <3> QED
      BY <1>2, <1>4, FS_Union
  <2>3. Cardinality(pending[p] \cap new) = 0 /\ Cardinality(pending[p]) \in Nat /\ Cardinality(new) \in Nat
    <3> HIDE DEF new
    <3> QED
      BY <1>2, <1>4, <1>5, FS_EmptySet, FS_CardinalityType
  <2> HIDE DEF new
  <2> QED
    BY <2>1, <2>2, <2>3
<1>7. Cardinality(Batch(p)) <= BatchSize
  BY BatchInBounds
<1>8. /\ Cardinality(pending[p]) \in Nat /\ Cardinality(new) \in Nat /\ Cardinality(Taken(max)) \in Nat
      /\ BatchSize \in Nat
  BY <1>2, <1>3, <1>4, FS_CardinalityType, Constants
<1>9. Cardinality(Taken(max)) < max
  <2> HIDE DEF new, max
  <2> QED
    BY <1>1, <1>2, <1>4, <1>6, <1>7, <1>8
<1> HIDE DEF max
<1>10. Receivable \subseteq Taken(max)
  BY <1>1, <1>2, <1>9, TakesAll
<1> QED
  BY <1>10 DEF max

\* A poller called by a notification polls on, or is out of capacity, or leaves nothing to receive.
LEMMA PollsOut ==
  ASSUME TypeInv, ReceiptsInv, NEW p \in Pollers, PollQueue(p), p \notin due', HasCapacity(p)'
  PROVE  Receivable' = {}
<1>1. Room(p) \in Nat /\ Room(p) # 0 /\ UNCHANGED <<now, fifo, sent>> /\ p \in due /\ QueueInv
  BY RoomIsLeft DEF PollQueue, TypeInv
<1>2. HasCapacity(p)
  <2> SUFFICES ASSUME ~HasCapacity(p) PROVE FALSE
    OBVIOUS
  <2>1. active' = active
    BY DEF PollQueue
  <2> QED
    BY <2>1 DEF HasCapacity
<1>3. ReceiveMessages(Room(p)) /\ (Received(Room(p)) = {} \/ PollFills(p))
  BY <1>1, <1>2 DEF PollQueue, PollFills
<1>4. Receivable \subseteq Taken(Room(p))
  <2>1. CASE Received(Room(p)) = {}
    <3>1. Taken(Room(p)) = {}
      BY <2>1 DEF Received
    <3> QED
      BY <1>1, <3>1, ReceiveParts
  <2>2. CASE PollFills(p)
    BY <1>1, <2>2, FillTakesAll
  <2> QED
    BY <1>3, <2>1, <2>2
<1> QED
  BY <1>1, <1>3, <1>4, ReceiveLeaves

\* A poll gives no poller capacity, and none back a notification that was for it.
LEMMA OthersWait ==
  ASSUME TypeInv, NEW p \in Pollers, PollQueue(p), NEW q \in Pollers, q # p
  PROVE  /\ p \in due /\ (q \in due' <=> q \in due) /\ (HasCapacity(q)' <=> HasCapacity(q))
         /\ (notifying => notifying') /\ UNCHANGED <<now, fifo, stopped>>
         /\ ReceiveMessages(Room(p)) \/ UNCHANGED queueVars
<1>1. active \in [Pollers -> SUBSET Slots] /\ notifying \in BOOLEAN
  BY DEF TypeInv, PollersTypeOK, QueueInv, QueueTypeOK
<1>2. /\ p \in due /\ (q \in due' <=> q \in due) /\ UNCHANGED <<now, fifo, stopped>>
      /\ ReceiveMessages(Room(p)) \/ UNCHANGED queueVars
  BY DEF PollQueue
<1>3. active'[q] = active[q]
  BY <1>1 DEF PollQueue, DispatchBatch
<1>4. notifying => notifying'
  BY <1>1, <1>2 DEF ReceiveMessages, queueVars
<1> QED
  BY <1>2, <1>3, <1>4 DEF HasCapacity

LEMMA PolledOutNext ==
  ASSUME TypeInv, ReceiptsInv, PolledOut, [Next]_vars
  PROVE  PolledOut'
<1>1. QueueInv
  BY DEF TypeInv
<1>2. ASSUME Quiet, due' = due PROVE PolledOut'
  BY <1>2 DEF Quiet, PolledOut
<1>3. ASSUME NEW p \in Pollers, PollQueue(p) PROVE PolledOut'
  <2> SUFFICES ASSUME ~notifying', ~stopped', NEW q \in Pollers, q \notin due', HasCapacity(q)'
               PROVE  Receivable' = {}
    BY DEF PolledOut
  <2>1. CASE q = p
    BY <1>3, <2>1, PollsOut
  <2>2. CASE q # p
    <3>1. /\ p \in due /\ q \notin due /\ HasCapacity(q) /\ ~notifying /\ ~stopped /\ UNCHANGED <<now, fifo>>
          /\ ReceiveMessages(Room(p)) \/ UNCHANGED queueVars
      BY <1>3, <2>2, OthersWait
    <3>2. Receivable = {}
      BY <3>1 DEF PolledOut
    <3>3. CASE ReceiveMessages(Room(p))
      BY <1>1, <3>1, <3>2, <3>3, RoomIsLeft, ReceiveLeaves
    <3>4. CASE UNCHANGED queueVars
      BY <3>1, <3>2, <3>4 DEF queueVars, Receivable, Ready, Unexpired, SameGroup, IsInFlight, ExpireTime
    <3> QED
      BY <3>1, <3>3, <3>4
  <2> QED
    BY <2>1, <2>2
<1>4. CASE Notify
  BY <1>4 DEF Notify, PolledOut
<1>5. CASE CheckDrain
  BY <1>5 DEF CheckDrain, pollerVars, PolledOut
<1>6. CASE UNCHANGED vars
  BY <1>6 DEF vars, queueVars, pollerVars, PolledOut, HasCapacity, Receivable, Ready, Unexpired, SameGroup,
     IsInFlight, ExpireTime
<1>7. ASSUME NEW g, NEW k, NEW d, Send(g, k, d) PROVE PolledOut'
  BY <1>2, <1>7 DEF Send, pollerVars
<1>8. CASE WakeUp \/ GetDeadLetterMessages \/ WaitForDrain \/ Shutdown \/ Tick
  BY <1>2, <1>8 DEF WakeUp, GetDeadLetterMessages, WaitForDrain, Shutdown, Tick, pollerVars
<1>9. ASSUME NEW p \in Pollers, WindowTimer(p) PROVE PolledOut'
  BY <1>2, <1>9 DEF WindowTimer
<1>10. ASSUME NEW p \in Pollers, NEW s \in Slots, EndBatch(p, s) PROVE PolledOut'
  BY <1>2, <1>10 DEF EndBatch
<1>11. ASSUME NEW p \in Pollers, NEW s \in Slots, NEW receipt \in batches[p][s],
              Ack(p, s, receipt) \/ \E t \in Timeouts : HandBack(p, s, receipt, t)
       PROVE  PolledOut'
  BY <1>2, <1>11 DEF Ack, HandBack
<1>12. ASSUME NEW c \in Clients, PollMessages(c) \/ ClientWoken(c) PROVE PolledOut'
  BY <1>2, <1>12 DEF PollMessages, ClientWoken, ClientReceive, pollerVars
<1> QED
  BY <1>3, <1>4, <1>5, <1>6, <1>7, <1>8, <1>9, <1>10, <1>11, <1>12 DEF Next

\* Who sleeps after a step slept before it, unless a client came first.
LEMMA SleepStep ==
  ASSUME TypeInv, TimerCoversMessages, ReceiptsInv, PolledOut, [Next]_vars, NEW p \in Pollers, NEW i, Sleeps(p, i)'
  PROVE  Sleeps(p, i) \/ ClientCameFirst
<1>1. QueueInv /\ notifying \in BOOLEAN /\ PollersTypeOK /\ now \in Nat /\ wakeUp \in Nat
  BY MessageTimes DEF TypeInv, QueueInv, QueueTypeOK
<1>2. i \in Receivable' /\ ~stopped' /\ HasCapacity(p)' /\ ~notifying' /\ p \notin due' /\ wakeUp' > now'
  BY DEF Sleeps
<1>3. ASSUME UNCHANGED <<fifo, now, stopped, messages, wakeUp, notifying>>, HasCapacity(p), p \notin due
      PROVE  Sleeps(p, i)
  <2>1. Receivable' = Receivable
    BY <1>3 DEF Receivable, Ready, Unexpired, SameGroup, IsInFlight, ExpireTime
  <2> QED
    BY <1>2, <1>3, <2>1 DEF Sleeps
<1>4. ASSUME NEW g, NEW k, NEW d, Send(g, k, d) PROVE Sleeps(p, i)
  BY <1>2, <1>3, <1>4 DEF Send, queueVars, pollerVars, HasCapacity
<1>5. CASE WakeUp
  BY <1>2, <1>5 DEF WakeUp
<1>6. CASE GetDeadLetterMessages \/ WaitForDrain \/ UNCHANGED vars
  BY <1>2, <1>3, <1>6 DEF GetDeadLetterMessages, WaitForDrain, vars, pollerVars, queueVars, HasCapacity
<1>7. CASE Notify
  BY <1>2, <1>7 DEF Notify
<1>8. ASSUME NEW q \in Pollers, PollQueue(q) PROVE Sleeps(p, i)
  <2>1. p # q
    BY <1>2, <1>8, PollsOut
  <2>2. /\ q \in due /\ p \notin due /\ HasCapacity(p) /\ ~notifying /\ ~stopped /\ UNCHANGED <<now, fifo, stopped>>
        /\ ReceiveMessages(Room(q)) \/ UNCHANGED queueVars
    BY <1>2, <1>8, <2>1, OthersWait
  <2>3. Receivable = {}
    BY <2>2 DEF PolledOut
  <2>4. CASE ReceiveMessages(Room(q))
    BY <1>1, <1>2, <2>2, <2>3, <2>4, RoomIsLeft, ReceiveLeaves
  <2>5. CASE UNCHANGED queueVars
    BY <1>3, <2>2, <2>5 DEF queueVars
  <2> QED
    BY <2>2, <2>4, <2>5
<1>9. ASSUME NEW q \in Pollers, WindowTimer(q) PROVE Sleeps(p, i)
  <2>1. /\ UNCHANGED <<fifo, now, stopped, queueVars, due>>
        /\ active' = [active EXCEPT ![q] = @ \cup {MinOf(Slots \ active[q])}]
    BY <1>9 DEF WindowTimer, DispatchBatch
  <2>2. HasCapacity(q)
    <3>1. window[q] <= now /\ now \in 0..MaxTime
      BY <1>1, <1>9 DEF WindowTimer, QueueInv, QueueTypeOK
    <3>2. window[q] # Never
      BY <3>1, Constants DEF Never
    <3> QED
      BY <3>2 DEF TypeInv, PollerInv
  <2>3. HasCapacity(p)
    <3>1. CASE p = q
      BY <2>2, <3>1
    <3>2. CASE p # q
      BY <1>1, <1>2, <2>1, <3>2 DEF HasCapacity, PollersTypeOK
    <3> QED
      BY <3>1, <3>2
  <2> QED
    BY <1>2, <1>3, <2>1, <2>3 DEF queueVars
<1>10. ASSUME NEW q \in Pollers, NEW s \in Slots, EndBatch(q, s) PROVE FALSE
  BY <1>2, <1>10 DEF EndBatch
<1>11. ASSUME NEW q \in Pollers, NEW s \in Slots, NEW receipt \in batches[q][s],
              Ack(q, s, receipt) \/ \E t \in Timeouts : HandBack(q, s, receipt, t)
       PROVE  Sleeps(p, i)
  BY <1>2, <1>3, <1>11 DEF Ack, HandBack, HasCapacity
<1>12. ASSUME NEW c \in Clients, PollMessages(c) \/ ClientWoken(c) PROVE Sleeps(p, i) \/ ClientCameFirst
  <2>1. Quiet /\ ReceiveMessages(1) /\ UNCHANGED <<fifo, now, stopped, pollerVars>> /\ 1 \in Nat /\ 1 # 0
    BY <1>12 DEF PollMessages, ClientWoken, ClientReceive
  <2>2. /\ i \in Receivable
        /\ \E j \in DOMAIN messages \cap DOMAIN messages' : messages'[j].receiveCount > messages[j].receiveCount
    BY <1>1, <1>2, <2>1, ReceiveLeaves
  <2>3. ~notifying
    BY <1>1, <1>2, <2>1 DEF ReceiveMessages
  <2>4. HasCapacity(p) /\ p \notin due /\ ~stopped
    BY <1>2, <2>1 DEF pollerVars, HasCapacity
  <2>5. CASE wakeUp > now
    BY <2>2, <2>3, <2>4, <2>5 DEF Sleeps
  <2>6. CASE wakeUp <= now
    BY <2>1, <2>2, <2>3, <2>6 DEF ClientCameFirst
  <2> QED
    BY <1>1, <2>5, <2>6
<1>13. CASE CheckDrain
  <2>1. /\ messages' = Restrict(messages, Unexpired) /\ UNCHANGED <<fifo, now, stopped, wakeUp, due, active>>
        /\ notifying' = (notifying \/ Unexpired # DOMAIN messages)
    BY <1>13 DEF CheckDrain, pollerVars
  <2>2. Unexpired = DOMAIN messages /\ ~notifying
    BY <1>1, <1>2, <2>1
  <2>3. messages' = messages
    BY <1>1, <2>1, <2>2 DEF Restrict, QueueInv, QueueTypeOK
  <2> QED
    BY <1>1, <1>2, <1>3, <2>1, <2>2, <2>3 DEF HasCapacity
<1>14. CASE Shutdown
  BY <1>2, <1>14 DEF Shutdown
<1>15. CASE Tick
  <2>1. now' = now + 1 /\ UNCHANGED <<fifo, stopped, messages, wakeUp, notifying, due, active>>
    BY <1>15 DEF Tick, pollerVars, queueVars
  <2>2. wakeUp > now + 1 /\ wakeUp > now /\ ~stopped
    BY <1>1, <1>2, <2>1
  <2>3. i \in Receivable
    BY <1>1, <1>2, <2>1, <2>2, TimeChangesNothing
  <2> QED
    BY <1>2, <2>1, <2>2, <2>3 DEF Sleeps, HasCapacity
<1> QED
  BY <1>4, <1>5, <1>6, <1>7, <1>8, <1>9, <1>10, <1>11, <1>12, <1>13, <1>14, <1>15 DEF Next

\* No step leaves a poller with capacity asleep over a message it could receive, except a client's receive that
\* comes before a timer that is due (scheduleWakeUp), for any number of pollers, clients and messages.
THEOREM NoPollerSleeps == Spec => PollersDontSleep
<1> DEFINE Wakes == \A p \in Pollers, i \in Ids : Sleeps(p, i)' => Sleeps(p, i) \/ ClientCameFirst
           Inv == TypeInv /\ TimerCoversMessages /\ ReceiptsInv
<1>1. Init => PolledOut
  BY DEF Init, PolledOut
<1>2. Inv /\ PolledOut /\ [Next]_vars => PolledOut'
  BY PolledOutNext
<1>3. Inv /\ PolledOut /\ [Next]_vars => [Wakes]_vars
  BY SleepStep
<1>4. Spec => []Inv
  BY ReceiptsInvariant, PTL
<1>5. Spec => [][Wakes]_vars
  <2> HIDE DEF Wakes, Inv
  <2> QED
    BY <1>1, <1>2, <1>3, <1>4, PTL DEF Spec
<1> QED
  BY <1>5 DEF PollersDontSleep
=============================================================================
