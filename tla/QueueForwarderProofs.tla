------------------------ MODULE QueueForwarderProofs ------------------------
(***************************************************************************)
(* Order and waiting in the forwarder, for any delays that do not shrink   *)
(* and any number of messages.                                             *)
(***************************************************************************)
EXTENDS QueueForwarder, SequenceTheorems, WellFoundedInduction, TLAPS

-----------------------------------------------------------------------------
(* Numbers and sequences                                                   *)

\* A set of numbers has a smallest one.
LEMMA MinIsLeast ==
  ASSUME NEW S \in SUBSET Nat, S # {}
  PROVE  Min(S) \in S /\ \A y \in S : Min(S) <= y
<1> DEFINE R == OpToRel(<, Nat)
<1>1. \A x, y \in Nat : x < y => <<x, y>> \in R
  BY DEF OpToRel
<1>2. IsWellFoundedOn(R, Nat)
  BY NatLessThanWellFounded
<1> HIDE DEF R
<1>3. PICK x \in S : \A y \in S : ~(<<y, x>> \in R)
  BY <1>2, WFMin
<1>4. \A y \in S : ~(y < x)
  BY <1>1, <1>3
<1>5. \A y \in S : x <= y
  BY <1>4
<1> QED
  BY <1>5 DEF Min

Pending == [message : Nat, waitStart : Nat]

\* The end of a buffer, from any place on.
IsRest(rest, buffer) ==
  /\ rest \in Seq(Pending)
  /\ \E k \in Nat : \A i \in 1..Len(rest) : i + k \in 1..Len(buffer) /\ rest[i] = buffer[i + k]

\* What is left of the buffer is its end, when messages are taken off it and when they are dropped.
LEMMA Rests ==
  ASSUME NEW buffer \in Seq(Pending)
  PROVE  /\ IsRest(<<>>, buffer)
         /\ IsRest(buffer, buffer)
         /\ buffer # <<>> => IsRest(Tail(buffer), buffer)
         /\ \A k \in 1..Len(buffer) : IsRest(SubSeq(buffer, k, Len(buffer)), buffer)
<1>1. Len(buffer) \in Nat /\ \A i \in 1..Len(buffer) : buffer[i] \in Pending
  BY LenProperties, ElementOfSeq
<1>2. IsRest(<<>>, buffer)
  <2>1. <<>> \in Seq(Pending) /\ Len(<<>>) = 0
    BY EmptySeq
  <2>2. \A i \in 1..Len(<<>>) : i + 0 \in 1..Len(buffer) /\ <<>>[i] = buffer[i + 0]
    BY <2>1
  <2> QED
    BY <2>1, <2>2 DEF IsRest
<1>3. IsRest(buffer, buffer)
  <2>1. \A i \in 1..Len(buffer) : i + 0 \in 1..Len(buffer) /\ buffer[i] = buffer[i + 0]
    BY <1>1
  <2> QED
    BY <2>1 DEF IsRest
<1>4. ASSUME buffer # <<>> PROVE IsRest(Tail(buffer), buffer)
  <2>1. /\ Tail(buffer) \in Seq(Pending) /\ Len(Tail(buffer)) = Len(buffer) - 1
        /\ \A i \in 1..Len(Tail(buffer)) : Tail(buffer)[i] = buffer[i + 1]
    BY <1>4, HeadTailProperties
  <2>2. \A i \in 1..Len(Tail(buffer)) : i + 1 \in 1..Len(buffer)
    BY <1>1, <2>1
  <2> QED
    BY <2>1, <2>2 DEF IsRest
<1>5. ASSUME NEW k \in 1..Len(buffer) PROVE IsRest(SubSeq(buffer, k, Len(buffer)), buffer)
  <2> DEFINE rest == SubSeq(buffer, k, Len(buffer))
  <2>1. \A i \in k..Len(buffer) : buffer[i] \in Pending
    BY <1>1
  <2>2. /\ rest \in Seq(Pending) /\ Len(rest) = Len(buffer) - k + 1
        /\ \A i \in 1..(Len(buffer) - k + 1) : rest[i] = buffer[k + i - 1]
    BY <1>1, <2>1, SubSeqProperties
  <2> HIDE DEF rest
  <2>3. \A i \in 1..Len(rest) : i + (k - 1) \in 1..Len(buffer) /\ k + i - 1 = i + (k - 1)
    BY <1>1, <2>2
  <2>4. k - 1 \in Nat
    OBVIOUS
  <2> QED
    BY <2>2, <2>3, <2>4 DEF IsRest, rest
<1> QED
  BY <1>2, <1>3, <1>4, <1>5

-----------------------------------------------------------------------------
(* The inductive invariant                                                 *)

ForwarderTypeOK ==
  /\ pendingMessages \in Seq(Pending) /\ arrived \in Seq(Nat)
  /\ request \in Nat /\ retryTimer \in Nat /\ waitTime \in Nat /\ failures \in Nat /\ messages \in Nat

\* The buffer is in the order of sending, and so are the waits.
InOrder(buffer) ==
  \A i, j \in 1..Len(buffer) : i < j =>
    buffer[i].message < buffer[j].message /\ buffer[i].waitStart <= buffer[j].waitStart

Sends(buffer) == \A i \in 1..Len(buffer) : buffer[i].message <= messages /\ buffer[i].waitStart <= waitTime

\* No later message than this one has arrived, or is on its way.
NothingLater(m) ==
  /\ \A a \in 1..Len(arrived) : arrived[a] <= m
  /\ request # 0 => request <= m

RequestIsLast == request # 0 => \A a \in 1..Len(arrived) : arrived[a] <= request

ForwarderOrder ==
  /\ InOrder(pendingMessages)
  /\ Sends(pendingMessages)
  /\ \A i \in 1..Len(pendingMessages) : NothingLater(pendingMessages[i].message)
  /\ NothingLater(messages)
  /\ RequestIsLast
  /\ ArrivesInOrder

\* While the timer runs, no message has waited for long enough to be dropped.
ForwarderWait ==
  /\ WaitIsBounded
  /\ retryTimer # 0 =>
       /\ retryTimer <= LastDelay
       /\ \A i \in 1..Len(pendingMessages) : Waited(pendingMessages[i]) < MaxWaitTime

ForwarderInv == ForwarderTypeOK /\ ForwarderOrder /\ ForwarderWait

\* The end of an ordered buffer is ordered, and has no other messages.
LEMMA RestInOrder ==
  ASSUME NEW buffer \in Seq(Pending), NEW rest, IsRest(rest, buffer)
  PROVE  /\ InOrder(buffer) => InOrder(rest)
         /\ \A i \in 1..Len(rest) : \E j \in 1..Len(buffer) : rest[i] = buffer[j]
<1>1. PICK k \in Nat : \A i \in 1..Len(rest) : i + k \in 1..Len(buffer) /\ rest[i] = buffer[i + k]
  BY DEF IsRest
<1>2. \A i, j \in 1..Len(rest) : i < j => i + k < j + k
  OBVIOUS
<1> QED
  BY <1>1, <1>2 DEF InOrder

\* No delay is longer than the last one.
LEMMA DelaysBounded ==
  /\ LastDelay \in Nat \ {0}
  /\ \A count \in Nat \ {0} : RetryDelay(count) \in Nat /\ RetryDelay(count) <= LastDelay
<1>1. Len(RetryDelays) \in Nat /\ Len(RetryDelays) # 0 /\ DOMAIN RetryDelays = 1..Len(RetryDelays)
  BY ForwarderAssumption, EmptySeq, LenProperties
<1>2. LastDelay = RetryDelays[Len(RetryDelays)]
  BY DEF LastDelay, Last
<1>3. \A i \in 1..Len(RetryDelays) : RetryDelays[i] \in Nat \ {0} /\ RetryDelays[i] <= RetryDelays[Len(RetryDelays)]
  <2>1. \A i \in 1..Len(RetryDelays) : RetryDelays[i] \in Nat \ {0}
    BY ForwarderAssumption, ElementOfSeq
  <2>2. Len(RetryDelays) \in 1..Len(RetryDelays) /\ \A i \in 1..Len(RetryDelays) : i <= Len(RetryDelays)
    BY <1>1
  <2> QED
    BY <1>1, <2>1, <2>2, ForwarderAssumption
<1>4. ASSUME NEW count \in Nat \ {0} PROVE RetryDelay(count) \in Nat /\ RetryDelay(count) <= LastDelay
  <2> DEFINE S == {count, Len(RetryDelays)}
  <2>1. S \in SUBSET Nat /\ S # {}
    BY <1>1
  <2>2. Min(S) \in S /\ \A y \in S : Min(S) <= y
    BY <2>1, MinIsLeast
  <2>3. Min(S) \in 1..Len(RetryDelays)
    BY <1>1, <2>2
  <2> QED
    BY <1>2, <1>3, <2>3 DEF RetryDelay
<1> QED
  BY <1>1, <1>2, <1>3, <1>4

-----------------------------------------------------------------------------
(* The steps                                                               *)

\* What a step may do to the buffer, the request and the owner, if messages are to arrive in order.
LEMMA OrderKept ==
  ASSUME ForwarderTypeOK, ForwarderOrder, ForwarderTypeOK',
         InOrder(pendingMessages)', Sends(pendingMessages)', messages <= messages',
         arrived' = arrived \/ (request # 0 /\ arrived' = Append(arrived, request)),
         \/ request' = 0
         \/ request' = request /\ arrived' = arrived
         \/ 1 <= Len(pendingMessages') /\ request' = pendingMessages'[1].message,
         \A i \in 1..Len(pendingMessages') :
           NothingLater(pendingMessages'[i].message) \/ pendingMessages'[i].message > messages
  PROVE  ForwarderOrder'
<1> DEFINE m(i) == pendingMessages'[i].message
<1>1. Len(arrived) \in Nat /\ DOMAIN arrived = 1..Len(arrived) /\ \A a \in 1..Len(arrived) : arrived[a] \in Nat
  BY LenProperties, ElementOfSeq DEF ForwarderTypeOK
<1>2. Len(pendingMessages') \in Nat /\ \A i \in 1..Len(pendingMessages') : m(i) \in Nat
  <2>1. Len(pendingMessages') \in Nat /\ \A i \in 1..Len(pendingMessages') : pendingMessages'[i] \in Pending
    BY LenProperties, ElementOfSeq DEF ForwarderTypeOK
  <2> QED
    BY <2>1 DEF Pending
<1>3. request \in Nat /\ messages \in Nat /\ messages' \in Nat
  BY DEF ForwarderTypeOK
<1>4. \A i \in 1..Len(pendingMessages') : NothingLater(m(i))
  <2> SUFFICES ASSUME NEW i \in 1..Len(pendingMessages'), m(i) > messages PROVE NothingLater(m(i))
    OBVIOUS
  <2> QED
    BY <1>1, <1>2, <1>3 DEF ForwarderOrder, NothingLater
<1>5. ASSUME arrived' = arrived
      PROVE  /\ \A i \in 1..Len(pendingMessages'), a \in 1..Len(arrived') : arrived'[a] <= m(i)
             /\ ArrivesInOrder' /\ \A a \in 1..Len(arrived') : arrived'[a] <= messages'
  <2>1. \A i \in 1..Len(pendingMessages'), a \in 1..Len(arrived') : arrived'[a] <= m(i)
    BY <1>4, <1>5 DEF NothingLater
  <2>2. ArrivesInOrder'
    BY <1>5 DEF ForwarderOrder, ArrivesInOrder
  <2>3. \A a \in 1..Len(arrived') : arrived'[a] <= messages'
    BY <1>1, <1>3, <1>5 DEF ForwarderOrder, NothingLater
  <2> QED
    BY <2>1, <2>2, <2>3
<1>6. ASSUME request # 0, arrived' = Append(arrived, request)
      PROVE  /\ \A i \in 1..Len(pendingMessages'), a \in 1..Len(arrived') : arrived'[a] <= m(i)
             /\ ArrivesInOrder' /\ \A a \in 1..Len(arrived') : arrived'[a] <= messages'
  <2>6. arrived \in Seq(Nat) /\ arrived' \in Seq(Nat)
    BY DEF ForwarderTypeOK
  <2>7. /\ Len(arrived') = Len(arrived) + 1
        /\ \A a \in 1..Len(arrived) : arrived'[a] = arrived[a]
        /\ arrived'[Len(arrived) + 1] = request
    BY <1>3, <1>6, <2>6, AppendProperties
  <2>8. DOMAIN arrived' = 1..Len(arrived')
    BY <2>6, LenProperties
  <2>1. /\ Len(arrived') = Len(arrived) + 1 /\ DOMAIN arrived' = 1..(Len(arrived) + 1)
        /\ \A a \in 1..Len(arrived) : arrived'[a] = arrived[a]
        /\ arrived'[Len(arrived) + 1] = request
    BY <2>7, <2>8
  <2>2. \A a \in 1..Len(arrived') : a \in 1..Len(arrived) \/ a = Len(arrived) + 1
    BY <1>1, <2>1
  <2>3. \A i \in 1..Len(pendingMessages'), a \in 1..Len(arrived') : arrived'[a] <= m(i)
    BY <1>4, <1>6, <2>1, <2>2 DEF NothingLater
  <2>4. ArrivesInOrder'
    <3> SUFFICES ASSUME NEW a \in 1..(Len(arrived) + 1), a > 1 PROVE arrived'[a - 1] <= arrived'[a]
      BY <2>1 DEF ArrivesInOrder
    <3>1. a - 1 \in 1..Len(arrived)
      BY <1>1
    <3>2. CASE a \in 1..Len(arrived)
      BY <1>1, <2>1, <3>1, <3>2 DEF ForwarderOrder, ArrivesInOrder
    <3>3. CASE a = Len(arrived) + 1
      BY <1>6, <2>1, <3>1, <3>3 DEF ForwarderOrder, RequestIsLast
    <3> QED
      BY <1>1, <3>2, <3>3
  <2>5. \A a \in 1..Len(arrived') : arrived'[a] <= messages'
    <3>1. request <= messages /\ \A a \in 1..Len(arrived) : arrived[a] <= messages
      BY <1>6 DEF ForwarderOrder, NothingLater
    <3>2. \A a \in 1..Len(arrived') : arrived'[a] \in Nat /\ arrived'[a] <= messages
      BY <1>1, <1>3, <2>1, <2>2, <3>1
    <3> QED
      BY <1>3, <3>2
  <2> QED
    BY <2>3, <2>4, <2>5
<1>7. /\ \A i \in 1..Len(pendingMessages'), a \in 1..Len(arrived') : arrived'[a] <= m(i)
      /\ ArrivesInOrder' /\ \A a \in 1..Len(arrived') : arrived'[a] <= messages'
  BY <1>5, <1>6
<1>8. \A i \in 1..Len(pendingMessages') : request' # 0 => request' <= m(i)
  <2> SUFFICES ASSUME NEW i \in 1..Len(pendingMessages'), request' # 0 PROVE request' <= m(i)
    OBVIOUS
  <2>1. CASE request' = request
    BY <1>4, <2>1 DEF NothingLater
  <2>2. CASE 1 <= Len(pendingMessages') /\ request' = m(1)
    <3>1. 1 \in 1..Len(pendingMessages') /\ (i = 1 \/ 1 < i)
      BY <1>2, <2>2
    <3> QED
      BY <1>2, <2>2, <3>1 DEF InOrder
  <2> QED
    BY <2>1, <2>2
<1>9. request' # 0 => request' <= messages' /\ \A a \in 1..Len(arrived') : arrived'[a] <= request'
  <2>1. CASE request' = request /\ arrived' = arrived
    BY <1>3, <2>1 DEF ForwarderOrder, NothingLater, RequestIsLast
  <2>2. CASE 1 <= Len(pendingMessages') /\ request' = m(1)
    <3>1. 1 \in 1..Len(pendingMessages')
      BY <1>2, <2>2
    <3> QED
      BY <1>7, <2>2, <3>1 DEF Sends
  <2> QED
    BY <2>1, <2>2
<1> QED
  BY <1>7, <1>8, <1>9 DEF ForwarderOrder, NothingLater, RequestIsLast

\* The request that the loop starts is of the first message in the buffer.
LEMMA SendPendingRequest ==
  ASSUME NEW buffer \in Seq(Pending), NEW sending, SendPending(buffer, sending), request \in Nat
  PROVE  /\ pendingMessages' = buffer /\ request' \in Nat
         /\ \/ request' = 0
            \/ sending /\ request' = request
            \/ 1 <= Len(buffer) /\ request' = buffer[1].message
<1>1. CASE buffer # <<>> /\ ~sending /\ ~isStopped
  <2>1. Len(buffer) \in Nat /\ Len(buffer) # 0
    BY <1>1, EmptySeq, LenProperties
  <2>2. 1 \in 1..Len(buffer)
    BY <2>1
  <2>3. buffer[1] \in Pending
    BY <2>2, ElementOfSeq
  <2> QED
    BY <1>1, <2>2, <2>3 DEF SendPending, Pending
<1>2. CASE ~(buffer # <<>> /\ ~sending /\ ~isStopped)
  BY <1>2 DEF SendPending
<1> QED
  BY <1>1, <1>2

\* Every step keeps the messages in order.
LEMMA OrderStep ==
  ASSUME ForwarderInv, [ForwarderNext]_forwarderVars
  PROVE  ForwarderTypeOK' /\ ForwarderOrder'
<1> USE DEF ForwarderInv
<1>0. /\ pendingMessages \in Seq(Pending) /\ arrived \in Seq(Nat) /\ request \in Nat /\ retryTimer \in Nat
      /\ waitTime \in Nat /\ failures \in Nat /\ messages \in Nat
  BY DEF ForwarderTypeOK
<1>1. CASE ForwardMessage
  <2> DEFINE new == [message |-> messages + 1, waitStart |-> waitTime]
             buffer == Append(pendingMessages, new)
  <2>1. /\ SendPending(buffer, isSending) /\ messages' = messages + 1
        /\ UNCHANGED <<retryTimer, waitTime, failures, arrived>>
    BY <1>1 DEF ForwardMessage
  <2>2. new \in Pending
    BY <1>0 DEF Pending
  <2>3. /\ buffer \in Seq(Pending) /\ Len(buffer) = Len(pendingMessages) + 1 /\ buffer[Len(pendingMessages) + 1] = new
        /\ \A i \in 1..Len(pendingMessages) : buffer[i] = pendingMessages[i]
    BY <1>0, <2>2, AppendProperties
  <2>4. Len(pendingMessages) \in Nat
    BY <1>0, LenProperties
  <2>5. /\ pendingMessages' = buffer /\ request' \in Nat
        /\ request' = 0 \/ request' = request \/ (1 <= Len(buffer) /\ request' = buffer[1].message)
    BY <1>0, <2>1, <2>3, SendPendingRequest
  <2>6. ForwarderTypeOK'
    BY <1>0, <2>1, <2>3, <2>5 DEF ForwarderTypeOK
  <2> HIDE DEF buffer
  <2>7. \A i \in 1..Len(buffer) : i \in 1..Len(pendingMessages) \/ (i = Len(pendingMessages) + 1 /\ buffer[i] = new)
    BY <2>3, <2>4
  <2>8. new.message = messages + 1 /\ new.waitStart = waitTime
    OBVIOUS
  <2>9. \A i \in 1..Len(pendingMessages) :
          pendingMessages[i].message <= messages /\ pendingMessages[i].waitStart <= waitTime
          /\ pendingMessages[i].message \in Nat
    <3>1. \A j \in 1..Len(pendingMessages) : pendingMessages[j] \in Pending
      BY <1>0, ElementOfSeq
    <3> QED
      BY <3>1 DEF ForwarderOrder, Sends, Pending
  <2> HIDE DEF new
  <2>10. InOrder(buffer)
    <3> SUFFICES ASSUME NEW i \in 1..Len(buffer), NEW j \in 1..Len(buffer), i < j
                 PROVE  buffer[i].message < buffer[j].message /\ buffer[i].waitStart <= buffer[j].waitStart
      BY DEF InOrder
    <3>1. i \in 1..Len(pendingMessages) /\ buffer[i] = pendingMessages[i]
      BY <2>3, <2>4
    <3>2. CASE j \in 1..Len(pendingMessages)
      BY <2>3, <3>1, <3>2 DEF ForwarderOrder, InOrder
    <3>3. CASE buffer[j] = new
      BY <1>0, <2>8, <2>9, <3>1, <3>3
    <3> QED
      BY <2>7, <3>2, <3>3
  <2>11. Sends(pendingMessages)'
    BY <1>0, <2>1, <2>3, <2>5, <2>7, <2>8, <2>9 DEF Sends
  <2>12. \A i \in 1..Len(buffer) : NothingLater(buffer[i].message) \/ buffer[i].message > messages
    BY <1>0, <2>3, <2>7, <2>8 DEF ForwarderOrder
  <2>13. messages <= messages'
    BY <1>0, <2>1
  <2> QED
    BY <2>1, <2>5, <2>6, <2>10, <2>11, <2>12, <2>13, OrderKept
\* The other steps leave an end of the buffer.
<1>2. ASSUME IsRest(pendingMessages', pendingMessages), UNCHANGED messages,
             waitTime' \in Nat, waitTime <= waitTime', retryTimer' \in Nat, failures' \in Nat, request' \in Nat,
             arrived' = arrived \/ (request # 0 /\ arrived' = Append(arrived, request)),
             \/ request' = 0
             \/ request' = request /\ arrived' = arrived
             \/ 1 <= Len(pendingMessages') /\ request' = pendingMessages'[1].message
      PROVE  ForwarderTypeOK' /\ ForwarderOrder'
  <2>1. arrived' \in Seq(Nat)
    BY <1>0, <1>2, AppendProperties
  <2>2. ForwarderTypeOK'
    BY <1>0, <1>2, <2>1 DEF ForwarderTypeOK, IsRest
  <2>3. /\ InOrder(pendingMessages')
        /\ \A i \in 1..Len(pendingMessages') : \E j \in 1..Len(pendingMessages) : pendingMessages'[i] = pendingMessages[j]
    BY <1>0, <1>2, RestInOrder DEF ForwarderOrder
  <2>4. \A j \in 1..Len(pendingMessages) :
          pendingMessages[j].waitStart \in Nat /\ pendingMessages[j].waitStart <= waitTime
          /\ pendingMessages[j].message <= messages /\ NothingLater(pendingMessages[j].message)
    <3>1. \A j \in 1..Len(pendingMessages) : pendingMessages[j] \in Pending
      BY <1>0, ElementOfSeq
    <3> QED
      BY <3>1 DEF ForwarderOrder, Sends, Pending
  <2>5. Sends(pendingMessages)'
    BY <1>0, <1>2, <2>3, <2>4 DEF Sends
  <2>6. \A i \in 1..Len(pendingMessages') : NothingLater(pendingMessages'[i].message)
    BY <2>3, <2>4
  <2>7. messages <= messages'
    BY <1>0, <1>2
  <2> QED
    BY <1>2, <2>2, <2>3, <2>5, <2>6, <2>7, OrderKept
<1>3. ASSUME NEW taken \in BOOLEAN, Sent(taken) PROVE ForwarderTypeOK' /\ ForwarderOrder'
  <2> DEFINE rest == IF pendingMessages = <<>> THEN <<>> ELSE Tail(pendingMessages)
  <2>1. /\ request # 0 /\ arrived' = (IF taken THEN Append(arrived, request) ELSE arrived) /\ failures' = 0
        /\ SendPending(rest, FALSE) /\ UNCHANGED <<retryTimer, waitTime, messages>>
    BY <1>3 DEF Sent
  <2>2. IsRest(rest, pendingMessages)
    BY <1>0, Rests
  <2>3. /\ pendingMessages' = rest /\ request' \in Nat
        /\ request' = 0 \/ (1 <= Len(rest) /\ request' = rest[1].message)
    BY <1>0, <2>1, <2>2, SendPendingRequest DEF IsRest
  <2> HIDE DEF rest
  <2>4. waitTime <= waitTime'
    BY <1>0, <2>1
  <2> QED
    BY <1>0, <1>2, <2>1, <2>2, <2>3, <2>4
<1>4. ASSUME NEW taken \in BOOLEAN, Unavailable(taken) PROVE ForwarderTypeOK' /\ ForwarderOrder'
  <2>1. /\ request # 0 /\ arrived' = (IF taken THEN Append(arrived, request) ELSE arrived) /\ request' = 0
        /\ pendingMessages' = DropExpiredMessages /\ UNCHANGED <<waitTime, messages>>
    BY <1>4 DEF Unavailable
  <2>2. failures' \in Nat /\ retryTimer' \in Nat
    BY <1>0, <1>4, DelaysBounded DEF Unavailable
  <2>3. IsRest(DropExpiredMessages, pendingMessages)
    <3> DEFINE young == {i \in DOMAIN pendingMessages : Waited(pendingMessages[i]) < MaxWaitTime}
    <3>1. DOMAIN pendingMessages = 1..Len(pendingMessages) /\ Len(pendingMessages) \in Nat
      BY <1>0, LenProperties
    <3>3. young \in SUBSET Nat /\ young \subseteq 1..Len(pendingMessages)
      BY <3>1
    <3>2. young # {} => Min(young) \in 1..Len(pendingMessages)
      <4> HIDE DEF young
      <4> QED
        BY <3>3, MinIsLeast
    <3> QED
      BY <1>0, <3>2, Rests DEF DropExpiredMessages
  <2>4. waitTime <= waitTime'
    BY <1>0, <2>1
  <2> QED
    BY <1>0, <1>2, <2>1, <2>2, <2>3, <2>4
<1>5. CASE Retry
  <2>1. /\ SendPending(pendingMessages, FALSE) /\ retryTimer' = 0 /\ waitTime' = waitTime + retryTimer
        /\ UNCHANGED <<failures, messages, arrived>>
    BY <1>5 DEF Retry
  <2>2. /\ pendingMessages' = pendingMessages /\ request' \in Nat
        /\ request' = 0 \/ (1 <= Len(pendingMessages) /\ request' = pendingMessages[1].message)
    BY <1>0, <2>1, SendPendingRequest
  <2>3. IsRest(pendingMessages', pendingMessages)
    BY <1>0, <2>2, Rests
  <2>4. waitTime' \in Nat /\ waitTime <= waitTime'
    BY <1>0, <2>1
  <2> QED
    BY <1>0, <1>2, <2>1, <2>2, <2>3, <2>4
<1>6. CASE Stop \/ UNCHANGED forwarderVars
  <2>1. /\ pendingMessages' = <<>> \/ pendingMessages' = pendingMessages
        /\ retryTimer' = 0 \/ retryTimer' = retryTimer
        /\ UNCHANGED <<request, waitTime, failures, messages, arrived>>
    BY <1>6 DEF Stop, forwarderVars
  <2>2. IsRest(pendingMessages', pendingMessages)
    BY <1>0, <2>1, Rests
  <2>3. waitTime <= waitTime'
    BY <1>0, <2>1
  <2> QED
    BY <1>0, <1>2, <2>1, <2>2, <2>3
<1> QED
  BY <1>1, <1>3, <1>4, <1>5, <1>6 DEF ForwarderNext, Answer

\* What is left after a request failed has not waited for long enough: the first message has not, and the others came later.
LEMMA KeptAreYoung ==
  ASSUME ForwarderInv
  PROVE  \A i \in 1..Len(DropExpiredMessages) : Waited(DropExpiredMessages[i]) < MaxWaitTime
<1> DEFINE young == {i \in DOMAIN pendingMessages : Waited(pendingMessages[i]) < MaxWaitTime}
           k == Min(young)
           kept == SubSeq(pendingMessages, k, Len(pendingMessages))
<1>0. /\ DOMAIN pendingMessages = 1..Len(pendingMessages) /\ Len(pendingMessages) \in Nat /\ waitTime \in Nat
      /\ \A i \in 1..Len(pendingMessages) : pendingMessages[i] \in Pending /\ pendingMessages[i].waitStart \in Nat
  <2>1. pendingMessages \in Seq(Pending) /\ waitTime \in Nat
    BY DEF ForwarderInv, ForwarderTypeOK
  <2>2. \A i \in 1..Len(pendingMessages) : pendingMessages[i] \in Pending
    BY <2>1, ElementOfSeq
  <2> QED
    BY <2>1, <2>2, LenProperties DEF Pending
<1>1. CASE young = {}
  BY <1>1 DEF DropExpiredMessages
<1>2. CASE young # {}
  <2>1. DropExpiredMessages = kept
    BY <1>2 DEF DropExpiredMessages
  <2>2. young \in SUBSET Nat
    BY <1>0
  <2>3. k \in young
    BY <1>2, <2>2, MinIsLeast
  <2>4. k \in 1..Len(pendingMessages) /\ Waited(pendingMessages[k]) < MaxWaitTime
    BY <1>0, <2>3
  <2> HIDE DEF k
  <2>5. \A i \in k..Len(pendingMessages) : pendingMessages[i] \in Pending
    BY <1>0, <2>4
  <2>6. /\ Len(kept) = Len(pendingMessages) - k + 1
        /\ \A i \in 1..(Len(pendingMessages) - k + 1) : kept[i] = pendingMessages[k + i - 1]
    BY <1>0, <2>4, <2>5, SubSeqProperties
  <2>7. \A j \in 1..Len(pendingMessages) : k <= j => Waited(pendingMessages[j]) < MaxWaitTime
    <3> SUFFICES ASSUME NEW j \in 1..Len(pendingMessages), k < j PROVE Waited(pendingMessages[j]) < MaxWaitTime
      BY <1>0, <2>4
    <3>1. pendingMessages[k].waitStart <= pendingMessages[j].waitStart
      BY <2>4 DEF ForwarderInv, ForwarderOrder, InOrder
    <3> QED
      BY <1>0, <2>4, <3>1, WaitAssumption DEF Waited
  <2>8. \A i \in 1..Len(kept) : k + i - 1 \in 1..Len(pendingMessages) /\ k <= k + i - 1
    BY <1>0, <2>4, <2>6
  <2> QED
    BY <2>1, <2>6, <2>7, <2>8
<1> QED
  BY <1>1, <1>2

\* Every step keeps the waits bounded.
LEMMA WaitStep ==
  ASSUME ForwarderInv, [ForwarderNext]_forwarderVars, ForwarderTypeOK'
  PROVE  ForwarderWait'
<1> USE DEF ForwarderInv
<1>0. /\ pendingMessages \in Seq(Pending) /\ request \in Nat /\ retryTimer \in Nat
      /\ waitTime \in Nat /\ failures \in Nat /\ messages \in Nat /\ LastDelay \in Nat \ {0} /\ MaxWaitTime \in Nat \ {0}
  BY DelaysBounded, WaitAssumption DEF ForwarderTypeOK
<1>a. /\ DOMAIN pendingMessages = 1..Len(pendingMessages) /\ DOMAIN pendingMessages' = 1..Len(pendingMessages')
      /\ Len(pendingMessages) \in Nat
      /\ \A i \in 1..Len(pendingMessages) : pendingMessages[i].waitStart \in Nat
  <2>1. \A i \in 1..Len(pendingMessages) : pendingMessages[i] \in Pending
    BY <1>0, ElementOfSeq
  <2> QED
    BY <1>0, <2>1, LenProperties DEF ForwarderTypeOK, Pending
<1>b. \A i \in 1..Len(pendingMessages) :
        /\ Waited(pendingMessages[i]) < MaxWaitTime + LastDelay
        /\ retryTimer # 0 => Waited(pendingMessages[i]) < MaxWaitTime
  BY <1>a DEF ForwarderWait, WaitIsBounded
\* It is enough to compare with messages that were there.
<1>c. ASSUME UNCHANGED <<waitTime>>, retryTimer' = 0 \/ retryTimer' = retryTimer,
             \A i \in 1..Len(pendingMessages') :
               \/ \E j \in 1..Len(pendingMessages) : pendingMessages'[i] = pendingMessages[j]
               \/ pendingMessages'[i].waitStart = waitTime
      PROVE  ForwarderWait'
  <2> SUFFICES ASSUME NEW i \in 1..Len(pendingMessages')
               PROVE  /\ Waited(pendingMessages[i])' < MaxWaitTime + LastDelay
                      /\ retryTimer # 0 => Waited(pendingMessages[i])' < MaxWaitTime
    BY <1>a, <1>c DEF ForwarderWait, WaitIsBounded
  <2>1. CASE pendingMessages'[i].waitStart = waitTime
    BY <1>0, <1>c, <2>1 DEF Waited
  <2>2. ASSUME NEW j \in 1..Len(pendingMessages), pendingMessages'[i] = pendingMessages[j]
        PROVE  Waited(pendingMessages[i])' = Waited(pendingMessages[j])
    BY <1>c, <2>2 DEF Waited
  <2> QED
    BY <1>b, <1>c, <2>1, <2>2
<1>1. CASE ForwardMessage
  <2> DEFINE new == [message |-> messages + 1, waitStart |-> waitTime]
  <2>1. UNCHANGED <<retryTimer, waitTime>> /\ pendingMessages' = Append(pendingMessages, new)
    BY <1>1 DEF ForwardMessage, SendPending
  <2>2. new \in Pending /\ new.waitStart = waitTime
    BY <1>0 DEF Pending
  <2> HIDE DEF new
  <2>3. /\ Len(pendingMessages') = Len(pendingMessages) + 1 /\ pendingMessages'[Len(pendingMessages) + 1] = new
        /\ \A i \in 1..Len(pendingMessages) : pendingMessages'[i] = pendingMessages[i]
    BY <1>0, <2>1, <2>2, AppendProperties
  <2>4. \A i \in 1..Len(pendingMessages') : i \in 1..Len(pendingMessages) \/ i = Len(pendingMessages) + 1
    BY <1>a, <2>3
  <2> QED
    BY <1>c, <2>1, <2>2, <2>3, <2>4
<1>2. ASSUME NEW taken, Sent(taken) PROVE ForwarderWait'
  <2>1. /\ pendingMessages' = (IF pendingMessages = <<>> THEN <<>> ELSE Tail(pendingMessages))
        /\ UNCHANGED <<retryTimer, waitTime>>
    BY <1>2 DEF Sent, SendPending
  <2>2. IsRest(pendingMessages', pendingMessages)
    BY <1>0, <2>1, Rests
  <2> QED
    BY <1>0, <1>c, <2>1, <2>2, RestInOrder
<1>3. ASSUME NEW taken, Unavailable(taken) PROVE ForwarderWait'
  <2>1. /\ pendingMessages' = DropExpiredMessages /\ UNCHANGED waitTime
        /\ retryTimer' = retryTimer \/ retryTimer' = RetryDelay(failures + 1)
    BY <1>3 DEF Unavailable
  <2>2. \A i \in 1..Len(pendingMessages') : Waited(pendingMessages[i])' < MaxWaitTime
    BY <2>1, KeptAreYoung DEF Waited
  <2>3. \A i \in 1..Len(pendingMessages') : Waited(pendingMessages[i])' < MaxWaitTime + LastDelay
    <3>1. \A i \in 1..Len(pendingMessages') : pendingMessages'[i] \in Pending
      BY ElementOfSeq DEF ForwarderTypeOK
    <3>2. \A i \in 1..Len(pendingMessages') : Waited(pendingMessages[i])' \in Int
      BY <3>1 DEF Waited, ForwarderTypeOK, Pending
    <3> QED
      BY <1>0, <2>2, <3>2
  <2>4. failures + 1 \in Nat \ {0}
    BY <1>0
  <2>5. retryTimer' # 0 => retryTimer' <= LastDelay
    BY <2>1, <2>4, DelaysBounded DEF ForwarderWait
  <2> QED
    BY <1>a, <2>2, <2>3, <2>5 DEF ForwarderWait, WaitIsBounded
<1>4. CASE Retry
  <2>1. pendingMessages' = pendingMessages /\ retryTimer' = 0 /\ waitTime' = waitTime + retryTimer /\ retryTimer # 0
    BY <1>4 DEF Retry, SendPending
  <2>2. retryTimer <= LastDelay
    BY <2>1 DEF ForwarderWait
  <2>3. \A i \in 1..Len(pendingMessages) : Waited(pendingMessages[i])' < MaxWaitTime + LastDelay
    BY <1>0, <1>a, <1>b, <2>1, <2>2 DEF Waited
  <2> QED
    BY <1>a, <2>1, <2>3 DEF ForwarderWait, WaitIsBounded
<1>5. CASE Stop \/ UNCHANGED forwarderVars
  <2>1. /\ pendingMessages' = <<>> \/ pendingMessages' = pendingMessages
        /\ retryTimer' = 0 \/ retryTimer' = retryTimer
        /\ UNCHANGED <<waitTime>>
    BY <1>5 DEF Stop, forwarderVars
  <2>2. IsRest(pendingMessages', pendingMessages)
    BY <1>0, <2>1, Rests
  <2> QED
    BY <1>0, <1>c, <2>1, <2>2, RestInOrder
<1> QED
  BY <1>1, <1>2, <1>3, <1>4, <1>5 DEF ForwarderNext, Answer

\* The forwarder's invariant holds at every moment.
LEMMA ForwarderInvariant == ForwarderSpec => []ForwarderInv
<1>1. ForwarderInit => ForwarderInv
  <2> SUFFICES ASSUME ForwarderInit PROVE ForwarderInv
    OBVIOUS
  <2>1. <<>> \in Seq(Pending) /\ <<>> \in Seq(Nat) /\ Len(<<>>) = 0 /\ DOMAIN <<>> = {}
    BY EmptySeq
  <2>2. pendingMessages = <<>> /\ arrived = <<>> /\ request = 0 /\ retryTimer = 0
    BY DEF ForwarderInit
  <2>3. ForwarderTypeOK
    BY <2>1 DEF ForwarderInit, ForwarderTypeOK
  <2>4. ForwarderOrder
    BY <2>1, <2>2 DEF ForwarderOrder, InOrder, Sends, NothingLater, RequestIsLast, ArrivesInOrder
  <2>5. ForwarderWait
    BY <2>1, <2>2 DEF ForwarderWait, WaitIsBounded
  <2> QED
    BY <2>3, <2>4, <2>5 DEF ForwarderInv
<1>2. ForwarderInv /\ [ForwarderNext]_forwarderVars => ForwarderInv'
  BY OrderStep, WaitStep DEF ForwarderInv
<1> QED
  BY <1>1, <1>2, PTL DEF ForwarderSpec

\* Whatever is sent again, dropped or answered late, and wherever a stop comes, the owner takes messages in the order they
\* were sent.
THEOREM ArrivalOrder == ForwarderSpec => []ArrivesInOrder
<1>1. ForwarderInv => ArrivesInOrder
  BY DEF ForwarderInv, ForwarderOrder
<1> QED
  BY <1>1, ForwarderInvariant, PTL

\* However many messages are before it, none is in the buffer after it has waited for all delays and one more.
THEOREM BoundedWait == ForwarderSpec => []WaitIsBounded
<1>1. ForwarderInv => WaitIsBounded
  BY DEF ForwarderInv, ForwarderWait
<1> QED
  BY <1>1, ForwarderInvariant, PTL
=============================================================================
