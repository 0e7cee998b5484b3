--------------------------- MODULE QueueForwarder ---------------------------
(***************************************************************************)
(* The forwarder of a local project to a queue that another project owns.  *)
(*                                                                         *)
(* Messages wait in a buffer and go to the owner one request at a time.  A *)
(* message that the owner does not take is sent again after growing        *)
(* delays, and dropped once it has waited for all of them; the wait of     *)
(* every message in the buffer is counted, not only that of the first.  A  *)
(* stop may come at any time, also during a request.                       *)
(*                                                                         *)
(* Messages are numbered in the order they are sent.  One step is what     *)
(* runs between two awaits.                                                *)
(***************************************************************************)
EXTENDS Naturals, Sequences, SequencesExt, FiniteSetsExt

CONSTANTS
  RetryDelays,  \* RETRY_DELAYS
  MaxMessages   \* messages sent to the forwarder

ASSUME ForwarderAssumption ==
  /\ RetryDelays \in Seq(Nat \ {0}) /\ RetryDelays # <<>>
  /\ \A i, j \in DOMAIN RetryDelays : i <= j => RetryDelays[i] <= RetryDelays[j]
  /\ MaxMessages \in Nat

VARIABLES
  pendingMessages,  \* sequence of [message, waitStart]
  request,          \* the message on its way to the owner, 0 for none (isRequesting)
  isSending,
  isStopped,
  retryTimer,       \* the delay of the pending timer, 0 for none
  waitTime,
  failures,
  messages,         \* number of messages sent to the forwarder so far
  arrived,          \* the messages that the owner took, in this order
  settled           \* history: the messages the forwarder is done with

forwarderVars ==
  <<pendingMessages, request, isSending, isStopped, retryTimer, waitTime, failures, messages, arrived, settled>>

-----------------------------------------------------------------------------

MaxWaitTime == FoldSeq(LAMBDA delay, total : total + delay, 0, RetryDelays)
LastDelay == Last(RetryDelays)

\* The sum of delays that are not zero.
ASSUME WaitAssumption == MaxWaitTime \in Nat \ {0}

Waited(pending) == waitTime - pending.waitStart

ForwarderInit ==
  /\ pendingMessages = <<>>
  /\ request = 0
  /\ isSending = FALSE /\ isStopped = FALSE
  /\ retryTimer = 0
  /\ waitTime = 0 /\ failures = 0
  /\ messages = 0
  /\ arrived = <<>>
  /\ settled = {}

\* sendPendingMessages up to its first await, with these messages in the buffer: the first one goes out, unless the loop
\* is under way, or waits, or the forwarder is stopped.
SendPending(buffer, sending) ==
  /\ pendingMessages' = buffer
  /\ IF buffer # <<>> /\ ~sending /\ ~isStopped
     THEN isSending' = TRUE /\ request' = buffer[1].message
     ELSE isSending' = sending /\ request' = IF sending THEN request ELSE 0

\* forwardMessage, also after a stop: such a message stays in the buffer.
ForwardMessage ==
  /\ messages < MaxMessages
  /\ messages' = messages + 1
  /\ SendPending(Append(pendingMessages, [message |-> messages + 1, waitStart |-> waitTime]), isSending)
  /\ UNCHANGED <<isStopped, retryTimer, waitTime, failures, arrived, settled>>

\* The owner has taken the message (or its answer says that it never will): the next one follows.
Sent(taken) ==
  /\ request # 0
  /\ arrived' = IF taken THEN Append(arrived, request) ELSE arrived
  /\ settled' = settled \cup {request}
  /\ failures' = 0
  /\ SendPending(IF pendingMessages = <<>> THEN <<>> ELSE Tail(pendingMessages), FALSE)
  /\ UNCHANGED <<isStopped, retryTimer, waitTime, messages>>

\* Mutant: only the first message is dropped.
DropFirstExpired ==
  IF pendingMessages # <<>> /\ Waited(pendingMessages[1]) >= MaxWaitTime THEN Tail(pendingMessages) ELSE pendingMessages

\* Mutant: the message that was not taken goes to the end of the buffer.
RotateExpired == IF Len(pendingMessages) < 2 THEN pendingMessages ELSE Append(Tail(pendingMessages), pendingMessages[1])

\* dropExpiredMessages: from the front, up to the first message that has not waited for long enough.
DropExpiredMessages ==
  LET young == {i \in DOMAIN pendingMessages : Waited(pendingMessages[i]) < MaxWaitTime}
  IN IF young = {} THEN <<>> ELSE SubSeq(pendingMessages, Min(young), Len(pendingMessages))

RetryDelay(count) == RetryDelays[Min({count, Len(RetryDelays)})]

\* No answer, 404 or 5xx, whether or not the owner took the message: it is sent again after a delay, unless it and all
\* others have waited for too long, or the forwarder was stopped.
Unavailable(taken) ==
  LET kept == DropExpiredMessages
  IN /\ request # 0
     /\ arrived' = IF taken THEN Append(arrived, request) ELSE arrived
     /\ pendingMessages' = kept
     /\ settled' = settled \cup {pendingMessages[i].message : i \in 1..(Len(pendingMessages) - Len(kept))}
     /\ request' = 0
     /\ IF kept = <<>> \/ isStopped
        THEN failures' = 0 /\ isSending' = FALSE /\ UNCHANGED retryTimer
        ELSE failures' = failures + 1 /\ retryTimer' = RetryDelay(failures + 1) /\ UNCHANGED isSending
     /\ UNCHANGED <<isStopped, waitTime, messages>>

\* Mutant: the timer sends without letting the loop start.
RetryWhileSending ==
  /\ retryTimer # 0
  /\ retryTimer' = 0
  /\ waitTime' = waitTime + retryTimer
  /\ SendPending(pendingMessages, isSending)
  /\ UNCHANGED <<isStopped, failures, messages, arrived, settled>>

\* The retry timer fires.
Retry ==
  /\ retryTimer # 0
  /\ retryTimer' = 0
  /\ waitTime' = waitTime + retryTimer
  /\ SendPending(pendingMessages, FALSE)
  /\ UNCHANGED <<isStopped, failures, messages, arrived, settled>>

\* stop: the timer is cleared and the buffer emptied; a request on its way still ends.
Stop ==
  /\ ~isStopped
  /\ isStopped' = TRUE
  /\ retryTimer' = 0
  /\ pendingMessages' = <<>>
  /\ UNCHANGED <<request, isSending, waitTime, failures, messages, arrived, settled>>

Answer == \E taken \in BOOLEAN : Sent(taken) \/ Unavailable(taken)

ForwarderNext == ForwardMessage \/ Answer \/ Retry \/ Stop

\* Requests end (fetch has its own timeouts) and timers fire.
ForwarderSpec ==
  /\ ForwarderInit /\ [][ForwarderNext]_forwarderVars
  /\ WF_forwarderVars(Answer) /\ WF_forwarderVars(Retry)

-----------------------------------------------------------------------------
(* Properties                                                              *)

\* Messages reach the owner in the order they were sent, although they are sent again, dropped, or taken by an owner whose
\* answer is lost (createQueueForwarder: one request at a time, "in the order they were sent").
ArrivesInOrder == \A i \in DOMAIN arrived : i > 1 => arrived[i - 1] <= arrived[i]

\* No message waits for longer than all delays and one more, however many are before it (dropExpiredMessages).
WaitIsBounded == \A i \in DOMAIN pendingMessages : Waited(pendingMessages[i]) < MaxWaitTime + LastDelay

\* Every message is taken, refused or dropped at last, unless the forwarder is stopped (sendPendingMessages: the loop and
\* the timer never both leave a message behind).
MessagesSettle == \A m \in 1..MaxMessages : messages >= m ~> (m \in settled \/ isStopped)
=============================================================================
