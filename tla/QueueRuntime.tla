---------------------------- MODULE QueueRuntime ----------------------------
(***************************************************************************)
(* The runtime of a deployed queue subscription: a function invoked with   *)
(* batches of messages of an SQS queue, which keeps the keys it runs in a  *)
(* DynamoDB table.  Several invocations run at once, each one is stopped   *)
(* when its timeout passes, and may die at any await before that; what it  *)
(* wrote stays.                                                            *)
(*                                                                         *)
(* A record goes through the places below; one step of it is one request.  *)
(* The queue and the table are modelled by what the runtime relies on: a   *)
(* request either fails without effect, takes effect and is answered, or   *)
(* takes effect and its answer is lost.                                    *)
(*                                                                         *)
(* Time is counted in fractions of a second, because the runtime counts    *)
(* leases in whole seconds and the function's timeout isn't.               *)
(***************************************************************************)
EXTENDS Naturals, Sequences, FiniteSets

CONSTANTS
  Subscriptions,  \* the subscriptions considered, see Subscription
  Keys,           \* values of the idempotency key
  Tenants,        \* values of the concurrency key
  Groups,         \* message groups of a FIFO queue
  NoGroup,        \* the group of the messages of a standard queue
  Second,         \* the number of clock ticks in a second
  Margin,         \* TimeoutMargin in seconds
  Ttl,            \* idempotency.ttl in seconds
  MaxDeferDelay,
  MaxDeferCount,
  SlotWait,       \* getSlotWaitDelay
  DeferDelays,    \* the delays handlers defer with, in seconds
  RetryDelays,    \* the delays messages are handed back with, in seconds
  MaxInvocations, \* bound on the invocations
  MaxMessages     \* bound on all messages, copies included

\* What a subscription declares: acknowledge = 'batch', idempotency, keyConcurrency.max or 0, parallelism, batchSize,
\* and the timeout in seconds, which is that of the function, of the messages' visibility and of the leases; whether
\* its queue is a FIFO one, what its handler calls, and how long (in ticks) after a receive the function is invoked.
\* Then its bounds: the messages producers send, the requests, hooks and invocations that fail, and the ticks of the
\* clock.
Subscription ==
  [fifo : BOOLEAN, batchAck : BOOLEAN, idempotent : BOOLEAN, max : Nat, parallelism : Nat \ {0}, batchSize : Nat \ {0},
   timeout : Nat \ {0}, handler : SUBSET {"retry", "defer"}, lag : Nat, sends : Nat, faults : Nat, ticks : Nat]

ASSUME RuntimeAssumption ==
  /\ Subscriptions \subseteq Subscription /\ NoGroup \notin Groups
  /\ \A s \in Subscriptions : s.sends <= MaxMessages /\ s.lag <= s.timeout * Second /\ (s.fifo => s.max = 0)
  /\ Second \in Nat \ {0} /\ Margin \in Nat /\ Ttl \in Nat
  /\ MaxDeferDelay \in Nat \ {0} /\ MaxDeferCount \in Nat /\ SlotWait \in 0..MaxDeferDelay
  /\ DeferDelays \subseteq Nat /\ RetryDelays \subseteq Nat
  /\ MaxMessages \in Nat /\ MaxInvocations \in Nat

VARIABLES
  sub,       \* the subscription
  now,       \* Date.now(), in ticks
  sent,      \* every message ever sent: its keys and group, the message it's a copy of, EZ4.DEFERS and EZ4.DEFER_UNTIL
  queue,     \* the messages in the queue: when each is visible (0: it is), and how often it was received
  claims,    \* the claims table
  calls,     \* the invocations: their batch, when they started, slowestRecord and batchFailure
  record,    \* the records of each invocation, by their place in the batch
  ran,       \* the messages whose handler came to an end that isn't a failure and hands nothing back
  faults     \* failures so far

vars == <<sub, now, sent, queue, claims, calls, record, ran, faults>>

Invocations == 1..MaxInvocations
Owners == Invocations \X (1..sub.batchSize)
NoOwner == <<>>

\* The items of the claims table: a key's own item, and one per concurrency slot of the key.
Slots == 1..sub.max
IdempotencyKey(k) == <<k, 0>>
SlotKey(t, s) == <<t, s>>
ClaimKeys == (Keys \X {0}) \cup (Tenants \X Slots)

\* getEpochSeconds
EpochSeconds == now \div Second

NoClaim == [state |-> "none", owner |-> NoOwner, expiration |-> 0]
IdleCall == [is |-> "idle", batch |-> <<>>, receives |-> <<>>, start |-> 0, slowest |-> 0, failed |-> FALSE]
OverCall == [IdleCall EXCEPT !.is = "over"]

NewRecord ==
  [pc |-> "queued", since |-> 0, claim |-> FALSE, slot |-> 0, tried |-> {}, deferred |-> FALSE, handled |-> FALSE,
   unknown |-> FALSE, fatal |-> FALSE, handedBack |-> FALSE, holdsGroup |-> FALSE]

\* Where a record is: in line, about to make a request, in its handler, or over.
Places ==
  {"queued", "slot", "slotCopy", "handler", "settle", "ack", "unclaim", "keepUnknown", "failRelease", "retry",
   "consume", "free", "over"}

TypeOK ==
  /\ sub \in Subscriptions /\ now \in 0..sub.ticks /\ faults \in 0..sub.faults
  /\ Len(sent) <= MaxMessages
  /\ \A i \in DOMAIN sent :
       sent[i] \in [key : Keys, tenant : Tenants, group : Groups \cup {NoGroup}, origin : 1..i,
                   defers : 0..MaxDeferCount, until : Nat]
  /\ DOMAIN queue \subseteq DOMAIN sent /\ \A i \in DOMAIN queue : queue[i] \in [visibleAt : Nat, receives : Nat]
  /\ claims \in [ClaimKeys -> [state : {"none", "running", "done", "unknown"}, owner : Owners \cup {NoOwner},
                               expiration : Nat]]
  /\ \A v \in Invocations :
       /\ calls[v].is \in {"idle", "running", "over"}
       /\ DOMAIN record[v] = DOMAIN calls[v].batch /\ Len(calls[v].batch) <= sub.batchSize
       /\ calls[v].is = "running" => calls[v].start <= now /\ now <= calls[v].start + sub.timeout * Second
       /\ \A i \in DOMAIN record[v] :
            /\ calls[v].batch[i] \in DOMAIN sent
            /\ record[v][i].pc \in Places /\ record[v][i].slot \in 0..sub.max
            /\ record[v][i].claim => sub.idempotent
  /\ ran \subseteq DOMAIN sent

\* The messages producers sent are in the queue: one that is sent later is one that is received later.
Init ==
  /\ sub \in Subscriptions
  /\ \E key \in [1..sub.sends -> Keys], tenant \in [1..sub.sends -> Tenants], group \in [1..sub.sends -> Groups] :
       sent = [i \in 1..sub.sends |->
                 [key |-> key[i], tenant |-> tenant[i], group |-> IF sub.fifo THEN group[i] ELSE NoGroup,
                  origin |-> i, defers |-> 0, until |-> 0]]
  /\ queue = [i \in 1..sub.sends |-> [visibleAt |-> 0, receives |-> 0]]
  /\ now = 0 /\ ran = {} /\ faults = 0
  /\ claims = [c \in ClaimKeys |-> NoClaim]
  /\ calls = [v \in Invocations |-> IdleCall]
  /\ record = [v \in Invocations |-> <<>>]

-----------------------------------------------------------------------------
(* The queue and the event source mapping                                  *)

Put(i, m) == [j \in DOMAIN queue \cup {i} |-> IF j = i THEN m ELSE queue[j]]

Visible == {i \in DOMAIN queue : queue[i].visibleAt <= now}

SameGroup(i, j) == sent[i].group # NoGroup /\ sent[i].group = sent[j].group

\* The batches the queue may hand out.  A FIFO queue hands out the first messages of a group, and none while one
\* of the group is with an invocation or waits for its next attempt.
Batches ==
  {b \in UNION {[1..n -> Visible] : n \in 1..sub.batchSize} :
     /\ \A m, n \in DOMAIN b : m < n => b[m] < b[n]
     /\ \A n \in DOMAIN b, i \in DOMAIN queue :
          SameGroup(i, b[n]) => i \in Visible /\ (i < b[n] => \E m \in DOMAIN b : b[m] = i)}

\* Invocations are numbered in the order they start.
IsNext(v) == calls[v].is = "idle" /\ \A w \in 1..(v - 1) : calls[w].is # "idle"

\* The event source mapping invokes the function, some time after it received the batch.
Invoke(v, b) ==
  /\ queue' = [i \in DOMAIN queue |->
                 IF \E n \in DOMAIN b : b[n] = i
                   THEN [visibleAt |-> now + sub.timeout * Second - sub.lag, receives |-> queue[i].receives + 1]
                   ELSE queue[i]]
  /\ calls' = [calls EXCEPT ![v] = [IdleCall EXCEPT !.is = "running", !.batch = b, !.start = now,
                                                    !.receives = [n \in DOMAIN b |-> queue[b[n]].receives + 1]]]
  /\ record' = [record EXCEPT ![v] = [n \in DOMAIN b |-> NewRecord]]
  /\ UNCHANGED <<sub, now, sent, claims, ran, faults>>

\* A receipt is of use until the message leaves the queue or is received again.
IsCurrent(v, i) ==
  /\ calls[v].batch[i] \in DOMAIN queue
  /\ queue[calls[v].batch[i]].receives = calls[v].receives[i]

Without(S) == [i \in DOMAIN queue \ S |-> queue[i]]

Current(v, I) == {calls[v].batch[i] : i \in {j \in I : IsCurrent(v, j)}}

\* DeleteMessage and ChangeMessageVisibility: a request with a stale receipt has no effect.
Delete(v, i) == queue' = Without(Current(v, {i}))

ChangeVisibility(v, i, d) ==
  queue' = IF IsCurrent(v, i) THEN [queue EXCEPT ![calls[v].batch[i]].visibleAt = now + d * Second] ELSE queue

\* SendMessage of a copy: the origin and the keys go along, the attempts don't.
SendCopy(v, i, wait, defers, until) ==
  LET m == sent[calls[v].batch[i]]
  IN  /\ Len(sent) < MaxMessages
      /\ sent' = Append(sent, [m EXCEPT !.defers = defers, !.until = until])
      /\ queue' = Put(Len(sent) + 1, [visibleAt |-> now + wait * Second, receives |-> 0])

-----------------------------------------------------------------------------
(* The claims                                                              *)

\* ConditionExpression of takeClaim.
IsFree(c) == claims[c].expiration <= EpochSeconds

\* Mutant: a lease a second short.
TakeForLess(c, o) ==
  claims' = [claims EXCEPT ![c] = [state |-> "running", owner |-> o, expiration |-> EpochSeconds + sub.timeout - 1]]

\* The key is taken for as long as an invocation may run, counted from this second on.
Take(c, o) ==
  claims' = [claims EXCEPT ![c] = [state |-> "running", owner |-> o, expiration |-> EpochSeconds + sub.timeout]]

\* keepClaim and releaseClaim change the owner's item only.
Keep(c, o, state) ==
  claims' = IF claims[c].owner = o
              THEN [claims EXCEPT ![c].state = state, ![c].expiration = EpochSeconds + Ttl]
              ELSE claims

Release(c, o) == claims' = IF claims[c].owner = o THEN [claims EXCEPT ![c] = NoClaim] ELSE claims

-----------------------------------------------------------------------------
(* The steps of a record                                                   *)

At(v, i, pc) == calls[v].is = "running" /\ i \in DOMAIN record[v] /\ record[v][i].pc = pc

Become(v, i, r) == record' = [record EXCEPT ![v][i] = r]

\* n requests or hooks fail.
Faults(n) == faults + n <= sub.faults /\ faults' = faults + n
Fine == Faults(0)

\* A request that never throws: it takes effect, or fails and is logged; the record goes on after 0 or 1 failures.
Logged(Effect, Nothing, Then(_)) == (Effect /\ Then(0)) \/ (Nothing /\ Then(1))

MessageOf(v, i) == sent[calls[v].batch[i]]
ClaimOf(v, i) == IdempotencyKey(MessageOf(v, i).key)
Over(v) == {i \in DOMAIN record[v] : record[v][i].pc = "over"}

\* The records left to start.  How long the others take is of use, and kept, only as long as there are some.
Queued(v) == {i \in DOMAIN record[v] : record[v][i].pc = "queued"}

\* Mutant: a batch of two is taken for a lone record.
DeleteEachOfMany(v) == ~sub.batchAck /\ Len(calls[v].batch) > 2

\* deleteEachRecord
DeleteEach(v) == ~sub.batchAck /\ Len(calls[v].batch) > 1

\* The record is over: its turn ends, and what became of it counts for the batch.
End(v, i, r) ==
  /\ Become(v, i, [NewRecord EXCEPT !.pc = "over", !.handedBack = r.handedBack, !.holdsGroup = r.holdsGroup])
  /\ LET longer == ~r.fatal /\ Queued(v) # {} /\ calls[v].slowest < now - r.since
     IN  calls' = [calls EXCEPT ![v].failed = @ \/ r.fatal, ![v].slowest = IF longer THEN now - r.since ELSE @]

\* Mutant: the slot isn't given back.
LeaveWithSlot(v, i, r) == End(v, i, r)

\* The finally block, which first gives the slot back.
Leave(v, i, r) ==
  IF r.slot = 0
    THEN End(v, i, r)
    ELSE Become(v, i, [r EXCEPT !.pc = "free"]) /\ UNCHANGED calls

Free(v, i) ==
  /\ At(v, i, "free")
  /\ LET r == record[v][i]
         Then(n) == Faults(n) /\ End(v, i, r)
     IN  Logged(Release(SlotKey(MessageOf(v, i).tenant, r.slot), <<v, i>>), UNCHANGED claims, Then)
  /\ UNCHANGED <<sub, now, sent, queue, ran>>

\* consumeRecord: the record leaves the queue without its handler running (again).
ToConsume(v, i, r) ==
  IF DeleteEach(v)
    THEN Become(v, i, [r EXCEPT !.pc = "consume"]) /\ UNCHANGED calls
    ELSE Leave(v, i, r)

Consume(v, i) ==
  /\ At(v, i, "consume")
  /\ LET Then(n) == Faults(n) /\ Leave(v, i, record[v][i])
     IN  Logged(Delete(v, i), UNCHANGED queue, Then)
  /\ UNCHANGED <<sub, now, sent, claims, ran>>

\* Mutant: a record whose handler finished fails like any other.
CatchHandled(v, i, caught, n) ==
  /\ Faults(n) /\ UNCHANGED calls
  /\ Become(v, i, [caught EXCEPT !.holdsGroup = TRUE, !.pc = IF caught.claim THEN "failRelease" ELSE "retry",
                                !.handedBack = ~caught.claim])

\* The catch block with failRecord, after n failures: a hook that throws in it fails the batch.
Catch(v, i, caught, n) ==
  LET r == [caught EXCEPT !.holdsGroup = TRUE]
      Goes(pc) == Become(v, i, [r EXCEPT !.pc = pc]) /\ UNCHANGED calls
  IN  \/ Faults(n + 1) /\ Leave(v, i, [r EXCEPT !.fatal = TRUE])
      \/ /\ Faults(n)
         /\ \/ r.handled /\ Leave(v, i, r)
            \/ ~r.handled /\ r.deferred /\ IF r.claim THEN Goes("unclaim") ELSE ToConsume(v, i, r)
            \/ /\ ~r.handled /\ ~r.deferred /\ ~r.claim
               /\ Become(v, i, [r EXCEPT !.pc = "retry", !.handedBack = TRUE]) /\ UNCHANGED calls
            \/ ~r.handled /\ ~r.deferred /\ r.claim /\ Goes(IF r.unknown THEN "keepUnknown" ELSE "failRelease")

\* Mutant: a record doesn't wait for its group.
HasTurnAtOnce(v, i) == i <= Cardinality(Over(v)) + sub.parallelism

\* The turn of a record comes when one of the workers takes it, in batch order, and what precedes it in its group is
\* over.
HasTurn(v, i) ==
  /\ i <= Cardinality(Over(v)) + sub.parallelism
  /\ \A j \in 1..(i - 1) : SameGroup(calls[v].batch[j], calls[v].batch[i]) => record[v][j].pc = "over"

\* failedGroupIds has the group of the record.
GroupFailed(v, i) ==
  \E j \in Over(v) : record[v][j].holdsGroup /\ SameGroup(calls[v].batch[j], calls[v].batch[i])

\* No time is left for a record as slow as the slowest one so far.
TimeIsShort(v) ==
  calls[v].slowest > 0 /\ calls[v].start + sub.timeout * Second <= now + calls[v].slowest + Margin * Second

\* A record of a failed batch returns at once, one that must not or can't run now is handed back.
Skip(v, i) ==
  /\ At(v, i, "queued") /\ HasTurn(v, i)
  /\ \/ calls[v].failed /\ Become(v, i, [NewRecord EXCEPT !.pc = "over"])
     \/ /\ ~calls[v].failed /\ (GroupFailed(v, i) \/ TimeIsShort(v))
        /\ Become(v, i, [NewRecord EXCEPT !.pc = "over", !.handedBack = TRUE, !.holdsGroup = TRUE])
  /\ UNCHANGED <<sub, now, sent, queue, claims, calls, ran, faults>>

\* The others begin: processRecord, up to its first request.
Begins(v, i) ==
  At(v, i, "queued") /\ HasTurn(v, i) /\ ~calls[v].failed /\ ~GroupFailed(v, i) /\ ~TimeIsShort(v)

Begun(v, i) == [record[v][i] EXCEPT !.since = IF Queued(v) = {i} THEN 0 ELSE now]

IsDue(v, i) == MessageOf(v, i).until <= EpochSeconds

\* Mutant: one time too many.
MayDeferOnceMore(defers) == defers <= MaxDeferCount + 1

\* A message is deferred at most so many times.
MayDefer(defers) == defers <= MaxDeferCount

\* sendDeferredCopy: it goes on with Done if the copy is sent, with Failed if the request throws, and with Refused if
\* the message was deferred too often.
SendDeferredCopy(v, i, delay, counted, Done, Failed, Refused) ==
  LET defers == MessageOf(v, i).defers + (IF counted THEN 1 ELSE 0)
      wait == IF delay < MaxDeferDelay THEN delay ELSE MaxDeferDelay
      until == IF delay > wait THEN EpochSeconds + delay ELSE 0
  IN  \/ MayDefer(defers) /\ SendCopy(v, i, wait, defers, until) /\ ((Fine /\ Done) \/ Failed)
      \/ MayDefer(defers) /\ UNCHANGED <<sent, queue>> /\ Failed
      \/ ~MayDefer(defers) /\ UNCHANGED <<sent, queue>> /\ Refused

\* A copy that came back before it's due waits again.
WaitAgain(v, i) ==
  /\ Begins(v, i) /\ ~IsDue(v, i)
  /\ LET Throws(n) == Catch(v, i, Begun(v, i), n)
     IN  SendDeferredCopy(v, i, MessageOf(v, i).until - EpochSeconds, TRUE,
                          ToConsume(v, i, Begun(v, i)), Throws(1), Throws(0))
  /\ UNCHANGED <<sub, now, claims, ran>>

\* A message that is not what the schema says, or whose validation fails.
Invalid(v, i) ==
  /\ Begins(v, i) /\ IsDue(v, i)
  /\ Catch(v, i, Begun(v, i), 1)
  /\ UNCHANGED <<sub, now, sent, queue, claims, ran>>

AfterClaim == IF sub.max > 0 THEN "slot" ELSE "handler"

\* takeClaim of the message's key.  A request whose answer is lost throws or, repeated by the client, finds its own
\* item running.
TakeClaim(v, i) ==
  /\ Begins(v, i) /\ IsDue(v, i) /\ sub.idempotent
  /\ LET r == Begun(v, i)
         c == ClaimOf(v, i)
         Busy == Become(v, i, [r EXCEPT !.pc = "retry", !.handedBack = TRUE, !.holdsGroup = TRUE]) /\ UNCHANGED calls
     IN  \/ /\ IsFree(c) /\ Take(c, <<v, i>>)
            /\ \/ Fine /\ Become(v, i, [r EXCEPT !.pc = AfterClaim, !.claim = TRUE]) /\ UNCHANGED calls
               \/ Faults(1) /\ Busy
               \/ Catch(v, i, r, 1)
         \/ ~IsFree(c) /\ claims[c].state = "running" /\ Busy /\ Fine /\ UNCHANGED claims
         \/ /\ ~IsFree(c) /\ claims[c].state # "running" /\ Fine
            /\ ToConsume(v, i, r) /\ UNCHANGED claims
         \/ Catch(v, i, r, 1) /\ UNCHANGED claims
  /\ UNCHANGED <<sub, now, sent, queue, ran>>

BeginWithoutClaim(v, i) ==
  /\ Begins(v, i) /\ IsDue(v, i) /\ ~sub.idempotent
  /\ Become(v, i, [Begun(v, i) EXCEPT !.pc = AfterClaim])
  /\ UNCHANGED <<sub, now, sent, queue, claims, calls, ran, faults>>

\* Mutant: a slot that's held is taken like a free one.
TakeSlotHeld(v, i, s) ==
  /\ At(v, i, "slot") /\ Fine
  /\ Take(SlotKey(MessageOf(v, i).tenant, s), <<v, i>>)
  /\ Become(v, i, [record[v][i] EXCEPT !.pc = "handler", !.slot = s])
  /\ UNCHANGED <<sub, now, sent, queue, calls, ran>>

\* takeSlot tries the slots one after another, from any of them.
TakeSlot(v, i, s) ==
  /\ At(v, i, "slot") /\ s \notin record[v][i].tried
  /\ LET r == record[v][i]
         c == SlotKey(MessageOf(v, i).tenant, s)
         tried == r.tried \cup {s}
         Goes(r_) == Become(v, i, r_) /\ UNCHANGED calls
         Held == Goes(IF tried = Slots THEN [r EXCEPT !.pc = "slotCopy", !.tried = {}] ELSE [r EXCEPT !.tried = tried])
     IN  \/ /\ IsFree(c) /\ Take(c, <<v, i>>)
            /\ \/ Fine /\ Goes([r EXCEPT !.pc = "handler", !.slot = s, !.tried = {}])
               \/ Faults(1) /\ Held
               \/ Catch(v, i, [r EXCEPT !.tried = {}], 1)
         \/ ~IsFree(c) /\ Held /\ Fine /\ UNCHANGED claims
         \/ Catch(v, i, [r EXCEPT !.tried = {}], 1) /\ UNCHANGED claims
  /\ UNCHANGED <<sub, now, sent, queue, ran>>

\* Every slot is held: a copy waits its turn.
WaitForSlot(v, i) ==
  /\ At(v, i, "slotCopy")
  /\ LET r == record[v][i]
         Throws(n) == Catch(v, i, r, n)
     IN  SendDeferredCopy(v, i, SlotWait, FALSE,
                          IF r.claim THEN Become(v, i, [r EXCEPT !.pc = "unclaim"]) /\ UNCHANGED calls
                                     ELSE ToConsume(v, i, r),
                          Throws(1), Throws(0))
  /\ UNCHANGED <<sub, now, claims, ran>>

\* The key goes back, and the record is consumed without having run.
Unclaim(v, i) ==
  /\ At(v, i, "unclaim")
  /\ LET Then(n) == Faults(n) /\ ToConsume(v, i, record[v][i])
     IN  Logged(Release(ClaimOf(v, i), <<v, i>>), UNCHANGED claims, Then)
  /\ UNCHANGED <<sub, now, sent, queue, ran>>

\* The handler hands its message back, puts it off, comes to its end, or throws, as the hook before it may.
HandlerRetries(v, i, d) ==
  /\ At(v, i, "handler") /\ "retry" \in sub.handler /\ ~record[v][i].deferred
  /\ LET Then(n) == Faults(n) /\ Become(v, i, [record[v][i] EXCEPT !.handedBack = TRUE, !.holdsGroup = TRUE])
     IN  Logged(ChangeVisibility(v, i, d), UNCHANGED queue, Then)
  /\ UNCHANGED <<sub, now, sent, claims, calls, ran>>

HandlerDefers(v, i, d) ==
  /\ At(v, i, "handler") /\ "defer" \in sub.handler /\ MessageOf(v, i).group = NoGroup
  /\ LET r == record[v][i]
         Throws(n) == Faults(n) /\ UNCHANGED <<record, calls>>
     IN  /\ ~r.handedBack /\ ~r.deferred
         /\ SendDeferredCopy(v, i, d, TRUE, Become(v, i, [r EXCEPT !.deferred = TRUE]) /\ UNCHANGED calls,
                             Throws(1), Throws(0))
  /\ UNCHANGED <<sub, now, claims, ran>>

HandlerThrows(v, i, unknown) ==
  /\ At(v, i, "handler")
  /\ LET r == [record[v][i] EXCEPT !.unknown = unknown]
     IN  /\ Catch(v, i, r, 0)
         /\ ran' = IF unknown /\ r.claim /\ ~r.deferred THEN ran \cup {MessageOf(v, i).origin} ELSE ran
  /\ UNCHANGED <<sub, now, sent, queue, claims>>

\* The hook after a handled record may throw.
OnDone(v, i, r, n) == (Faults(n) /\ Leave(v, i, r)) \/ Catch(v, i, r, n + 1)

AfterSettle(v, i, r, n) ==
  IF DeleteEach(v) /\ ~r.handedBack
    THEN Faults(n) /\ Become(v, i, [r EXCEPT !.pc = "ack"]) /\ UNCHANGED calls
    ELSE OnDone(v, i, r, n)

HandlerEnds(v, i) ==
  /\ At(v, i, "handler")
  /\ LET r == [record[v][i] EXCEPT !.handled = TRUE]
     IN  /\ IF r.claim THEN Fine /\ Become(v, i, [r EXCEPT !.pc = "settle"]) /\ UNCHANGED calls
                       ELSE AfterSettle(v, i, r, 0)
         /\ ran' = IF r.handedBack \/ r.deferred THEN ran ELSE ran \cup {MessageOf(v, i).origin}
  /\ UNCHANGED <<sub, now, sent, queue, claims>>

\* The key is kept, or goes back with the message.
Settle(v, i) ==
  /\ At(v, i, "settle")
  /\ LET r == record[v][i]
         Then(n) == AfterSettle(v, i, r, n)
     IN  Logged(IF r.handedBack \/ r.deferred THEN Release(ClaimOf(v, i), <<v, i>>)
                                              ELSE Keep(ClaimOf(v, i), <<v, i>>, "done"),
                UNCHANGED claims, Then)
  /\ UNCHANGED <<sub, now, sent, queue, ran>>

\* ackMessage
AckMessage(v, i) ==
  /\ At(v, i, "ack")
  /\ LET Then(n) == OnDone(v, i, record[v][i], n)
     IN  Logged(Delete(v, i), UNCHANGED queue, Then)
  /\ UNCHANGED <<sub, now, sent, claims, ran>>

\* The requests of failRecord.
KeepUnknown(v, i) ==
  /\ At(v, i, "keepUnknown")
  /\ LET Then(n) == Faults(n) /\ ToConsume(v, i, record[v][i])
     IN  Logged(Keep(ClaimOf(v, i), <<v, i>>, "unknown"), UNCHANGED claims, Then)
  /\ UNCHANGED <<sub, now, sent, queue, ran>>

FailRelease(v, i) ==
  /\ At(v, i, "failRelease")
  /\ LET Then(n) == Faults(n) /\ Become(v, i, [record[v][i] EXCEPT !.pc = "retry", !.handedBack = TRUE])
     IN  Logged(Release(ClaimOf(v, i), <<v, i>>), UNCHANGED claims, Then)
  /\ UNCHANGED <<sub, now, sent, queue, calls, ran>>

\* retryMessage
RetryMessage(v, i, d) ==
  /\ At(v, i, "retry")
  /\ LET Then(n) == Faults(n) /\ Leave(v, i, record[v][i])
     IN  Logged(ChangeVisibility(v, i, d), UNCHANGED queue, Then)
  /\ UNCHANGED <<sub, now, sent, claims, ran>>

-----------------------------------------------------------------------------
(* The invocation                                                          *)

CallOver(v) == calls' = [calls EXCEPT ![v] = OverCall] /\ record' = [record EXCEPT ![v] = <<>>]

\* Mutant: an invocation whose batch failed returns like any other.
ReturnAlways(v) ==
  /\ calls[v].is = "running" /\ Over(v) = DOMAIN record[v]
  /\ queue' = Without(Current(v, {i \in DOMAIN record[v] : ~record[v][i].handedBack})) /\ Fine
  /\ CallOver(v)
  /\ UNCHANGED <<sub, now, sent, claims, ran>>

\* The invocation returns its batch response: every record that's not in it is deleted.  One whose batch failed, or
\* whose last hook fails, throws instead.
Return(v) ==
  /\ calls[v].is = "running" /\ Over(v) = DOMAIN record[v]
  /\ \/ /\ ~calls[v].failed /\ Fine
        /\ queue' = Without(Current(v, {i \in DOMAIN record[v] : ~record[v][i].handedBack}))
     \/ ~calls[v].failed /\ Faults(1) /\ UNCHANGED queue
     \/ calls[v].failed /\ Fine /\ UNCHANGED queue
  /\ CallOver(v)
  /\ UNCHANGED <<sub, now, sent, claims, ran>>

\* Its timeout stops it, or it dies, or its first hook fails.
Die(v) ==
  /\ calls[v].is = "running"
  /\ IF now = calls[v].start + sub.timeout * Second THEN Fine ELSE Faults(1)
  /\ CallOver(v)
  /\ UNCHANGED <<sub, now, sent, queue, claims, ran>>

Tick ==
  /\ now < sub.ticks
  /\ \A v \in Invocations : calls[v].is = "running" => now < calls[v].start + sub.timeout * Second
  /\ now' = now + 1
  /\ queue' = [i \in DOMAIN queue |-> [queue[i] EXCEPT !.visibleAt = IF @ <= now + 1 THEN 0 ELSE @]]
  /\ UNCHANGED <<sub, sent, claims, calls, record, ran, faults>>

RecordStep(v, i) ==
  \/ Skip(v, i) \/ WaitAgain(v, i) \/ Invalid(v, i) \/ TakeClaim(v, i) \/ BeginWithoutClaim(v, i)
  \/ \E s \in Slots : TakeSlot(v, i, s)
  \/ WaitForSlot(v, i) \/ Unclaim(v, i) \/ Consume(v, i)
  \/ \E d \in RetryDelays : HandlerRetries(v, i, d) \/ RetryMessage(v, i, d)
  \/ \E d \in DeferDelays : HandlerDefers(v, i, d)
  \/ \E unknown \in BOOLEAN : HandlerThrows(v, i, unknown)
  \/ HandlerEnds(v, i) \/ Settle(v, i) \/ AckMessage(v, i) \/ KeepUnknown(v, i) \/ FailRelease(v, i) \/ Free(v, i)

Next ==
  \/ \E v \in Invocations : \/ IsNext(v) /\ \E b \in Batches : Invoke(v, b)
                           \/ \E i \in DOMAIN record[v] : RecordStep(v, i)
                           \/ Return(v)
                           \/ Die(v)
  \/ Tick

Spec == Init /\ [][Next]_vars

-----------------------------------------------------------------------------
(* Properties                                                              *)

\* The records whose handler runs.
Running == {o \in Owners : At(o[1], o[2], "handler")}

\* The records whose handler runs and whose invocation has at least so many ticks left.
RunningWith(ticks) == {o \in Running : now + ticks <= calls[o[1]].start + sub.timeout * Second}
RunningInTime == RunningWith(Second)

Holds(o, c) == claims[c].owner = o /\ claims[c].state = "running" /\ ~IsFree(c)

\* takeClaim: while the handler of an idempotent subscription runs, up to a second before its invocation is stopped, it
\* holds its message's key: no other execution runs the key, or finds it done, whichever invocations died, were late,
\* or kept and released claims they had lost.
RunningHoldsKey == sub.idempotent => \A o \in RunningInTime : Holds(o, ClaimOf(o[1], o[2]))

AtOnce(S, t) == Cardinality({o \in S : MessageOf(o[1], o[2]).tenant = t})

\* takeSlot: across all invocations at most `max` handlers run one concurrency key at once, those that are about to be
\* stopped by their timeout left aside.
SlotsBound == sub.max > 0 => \A t \in Tenants : AtOnce(RunningInTime, t) <= sub.max

\* "Runs at most `max` messages with the same key at once, across every execution of the subscription"
\* (contracts/queue/docs/queue-subscriptions.md:131), until its timeout stops an execution.
AtMostMaxAtOnce == sub.max > 0 => \A t \in Tenants : AtOnce(RunningWith(1), t) <= sub.max

\* keepClaim, releaseClaim: a key kept as done or unknown stays that way for its ttl, also when an execution whose
\* lease passed while it ran settles its claim late.
KeptForTtl ==
  [][\A c \in DOMAIN claims : claims[c].state \in {"done", "unknown"} /\ ~IsFree(c) => claims'[c] = claims[c]]_vars

\* The work of a message is done, or that of another message with its key.
Settled(i) == \E j \in ran : j = i \/ (sub.idempotent /\ sent[j].key = sent[i].key)

\* processRecord, sqsEntryPoint: a message whose work isn't settled is in the queue, itself or as a copy, whatever
\* failed and wherever an invocation died.
NothingLost ==
  \A i \in DOMAIN sent : sent[i].origin = i => Settled(i) \/ \E j \in DOMAIN queue : sent[j].origin = i

\* processAllRecords: a message of a FIFO group runs only once the work of the earlier ones is settled.
GroupsInOrder ==
  \A o \in Running : \A j \in DOMAIN queue :
    LET i == calls[o[1]].batch[o[2]] IN SameGroup(i, j) /\ j < i => Settled(j)

\* deleteEachRecord: "an invocation that dies on a later record hands the whole batch back, and what already ran must
\* not run again" (message.ts:131).  As long as no request fails, what isn't handed back is gone once it's over.
HandledIsDeleted ==
  faults = 0 => \A v \in Invocations : \A i \in Over(v) :
    ~sub.batchAck /\ Len(calls[v].batch) > 1 /\ ~record[v][i].handedBack => ~IsCurrent(v, i)

\* processRecord: as long as no request fails, every way out of a record gives back its key (or keeps it as done or
\* unknown) and its slot.
ClaimsComeBack ==
  faults = 0 => \A v \in Invocations : \A i \in Over(v), c \in DOMAIN claims : ~Holds(<<v, i>>, c)
=============================================================================
