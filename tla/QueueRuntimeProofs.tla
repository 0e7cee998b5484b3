------------------------- MODULE QueueRuntimeProofs -------------------------
(***************************************************************************)
(* The runtime of a queue subscription, for any subscriptions, keys,       *)
(* invocations and messages: what its claims protect and what it loses.    *)
(***************************************************************************)
EXTENDS QueueRuntime, SequenceTheorems, FiniteSetTheorems, TLAPS

-----------------------------------------------------------------------------
(* The inductive invariant                                                 *)

SentMessage ==
  [key : Keys, tenant : Tenants, group : Groups \cup {NoGroup}, origin : Nat, defers : 0..MaxDeferCount, until : Nat]

Call ==
  [is : {"idle", "running", "over"}, batch : Seq(Nat), receives : Seq(Nat), start : Nat, slowest : Nat,
   failed : BOOLEAN]

Record ==
  [pc : Places, since : Nat, claim : BOOLEAN, slot : Nat, tried : SUBSET Nat, deferred : BOOLEAN,
   handled : BOOLEAN, unknown : BOOLEAN, fatal : BOOLEAN, handedBack : BOOLEAN, holdsGroup : BOOLEAN]

Claim == [state : {"none", "running", "done", "unknown"}, owner : Owners \cup {NoOwner}, expiration : Nat]

\* A copy has the keys and the group of its origin; a FIFO queue has no copies.
SentInv ==
  /\ sub \in Subscriptions /\ now \in 0..sub.ticks /\ faults \in 0..sub.faults
  /\ sent \in Seq(SentMessage) /\ Len(sent) <= MaxMessages
  /\ \A i \in DOMAIN sent :
       /\ sent[i].origin \in 1..i /\ sent[sent[i].origin].key = sent[i].key
       /\ sub.fifo => sent[i].origin = i /\ sent[i].until = 0 /\ sent[i].group # NoGroup
       /\ ~sub.fifo => sent[i].group = NoGroup
  /\ ran \subseteq DOMAIN sent

QueueInv ==
  /\ DOMAIN queue \subseteq DOMAIN sent
  /\ queue \in [DOMAIN queue -> [visibleAt : Nat, receives : Nat]]

\* What is known of a call: its batch is in order, and its receipts are of the latest receives or of earlier ones.
CallInv(v) ==
  /\ record[v] \in [DOMAIN calls[v].batch -> Record]
  /\ Len(calls[v].batch) <= sub.batchSize /\ DOMAIN calls[v].receives = DOMAIN calls[v].batch
  /\ calls[v].is # "running" => calls[v].batch = <<>>
  /\ calls[v].is = "running" => calls[v].start <= now /\ now <= calls[v].start + sub.timeout * Second
  /\ \A i \in DOMAIN calls[v].batch :
       /\ calls[v].batch[i] \in DOMAIN sent
       /\ calls[v].batch[i] \in DOMAIN queue => calls[v].receives[i] <= queue[calls[v].batch[i]].receives
       /\ \A j \in DOMAIN calls[v].batch : j < i => calls[v].batch[j] < calls[v].batch[i]

\* Where a record with a key has it.
KeyPlaces == {"slot", "slotCopy", "handler", "settle", "unclaim", "keepUnknown", "failRelease"}
HasKey(r) == r.claim /\ r.pc \in KeyPlaces

\* What the flags of a record say about each other and about its place.
Sound(r) ==
  /\ r.handedBack => r.holdsGroup
  /\ r.handled => r.pc \in {"handler", "settle", "ack", "free"}
  /\ r.pc \in {"settle", "ack"} => r.handled
  /\ r.claim => sub.idempotent
  /\ sub.idempotent /\ r.pc \in {"slot", "slotCopy", "handler"} => r.claim
  /\ r.pc \in {"settle", "unclaim", "keepUnknown", "failRelease"} => r.claim
  /\ r.slot # 0 => r.slot \in Slots /\ r.pc \notin {"queued", "slot", "slotCopy", "over"}
  /\ sub.max > 0 /\ r.pc = "handler" => r.slot # 0
  /\ r.pc \in {"slot", "slotCopy"} => sub.max > 0
  /\ r.pc = "free" => r.slot # 0
  /\ r.pc \in {"slot", "slotCopy"} => ~r.unknown
  /\ r.pc = "retry" => r.handedBack
  /\ r.pc = "failRelease" => r.holdsGroup
  /\ r.since <= now

\* How its handler ends is not known while it runs.
Flags(r) ==
  /\ Sound(r)
  /\ r.pc = "queued" => r = [NewRecord EXCEPT !.since = r.since]
  /\ r.pc = "handler" => ~r.handled /\ ~r.unknown
  /\ r.fatal => r.pc = "free"

\* The record's message is to leave the queue.
Doomed(r, failed) ==
  \/ r.pc \in {"unclaim", "keepUnknown", "consume", "ack"}
  \/ r.deferred
  \/ r.handled /\ ~r.handedBack
  \/ r.pc = "free" /\ ~r.handedBack /\ ~r.fatal
  \/ r.pc = "over" /\ ~r.handedBack /\ ~failed

\* The record's message is one whose work is settled.
Done(r) == r.pc = "keepUnknown" \/ (r.handled /\ ~r.handedBack /\ ~r.deferred)

\* A message may leave the queue when its work is settled, or when a later copy has it to do.
MayLeave(i) ==
  \/ Settled(sent[i].origin)
  \/ \E j \in DOMAIN queue : i < j /\ sent[j].origin = sent[i].origin

\* A lease lasts to the last second of the invocation that has it.
Late(v) == now + Second > calls[v].start + sub.timeout * Second
Leases(v, i, c) ==
  /\ claims[c].owner = <<v, i>> /\ claims[c].state = "running"
  /\ claims[c].expiration * Second + Second > calls[v].start + sub.timeout * Second

\* What is known of a record, whatever place it is at.
RecordInv(v, i) ==
  LET r == record[v][i] IN
  /\ Flags(r)
  /\ HasKey(r) => Late(v) \/ Leases(v, i, ClaimOf(v, i))
  /\ r.slot # 0 => Late(v) \/ Leases(v, i, SlotKey(MessageOf(v, i).tenant, r.slot))
  /\ Doomed(r, calls[v].failed) => MayLeave(calls[v].batch[i])
  /\ Done(r) => Settled(MessageOf(v, i).origin)
  /\ faults = 0 /\ DeleteEach(v) /\ r.pc \in {"free", "over"} /\ ~r.handedBack => ~IsCurrent(v, i)
  /\ faults = 0 => ~r.fatal

\* In a FIFO queue, what precedes a message of the batch is in it, and settled once the message's record starts.
GroupInv(v, i) ==
  /\ \A j \in DOMAIN queue : SameGroup(calls[v].batch[i], j) /\ j < calls[v].batch[i] =>
       \E m \in DOMAIN calls[v].batch : calls[v].batch[m] = j
  /\ sub.fifo /\ record[v][i].pc \notin {"queued", "over"} =>
       \A m \in DOMAIN calls[v].batch : m < i /\ SameGroup(calls[v].batch[i], calls[v].batch[m])
                                          => Settled(calls[v].batch[m])

\* The owner of a claim: a record that has begun.  It's done with what it kept; as long as nothing fails, what it took
\* is what its record says.
OwnedBy(v, i, c, state) ==
  /\ calls[v].is # "idle"
  /\ calls[v].is = "running" =>
       LET r == record[v][i] IN
       /\ i \in DOMAIN calls[v].batch /\ r.pc # "queued"
       /\ state \in {"done", "unknown"} => r.pc \in {"ack", "consume", "free", "over"}
       /\ faults = 0 /\ state = "running" =>
            \/ HasKey(r) /\ c = ClaimOf(v, i)
            \/ r.slot # 0 /\ c = SlotKey(MessageOf(v, i).tenant, r.slot)

\* What is kept is the key of a message that ran.
KeptOf(c) ==
  /\ \E key \in Keys : c = IdempotencyKey(key) /\ \E j \in ran : sent[j].key = key
  /\ sub.idempotent

OwnerInv(c) ==
  /\ claims[c].state = "none" => claims[c] = NoClaim
  /\ claims[c].state \in {"done", "unknown"} => KeptOf(c)
  /\ \A v \in Invocations, i \in 1..sub.batchSize :
       claims[c].owner = <<v, i>> => OwnedBy(v, i, c, claims[c].state)

TypeInv ==
  /\ SentInv /\ QueueInv
  /\ claims \in [ClaimKeys -> Claim] /\ calls \in [Invocations -> Call] /\ DOMAIN record = Invocations
  /\ \A v \in Invocations : CallInv(v)

RuntimeInv ==
  /\ TypeInv
  /\ \A v \in Invocations : \A i \in DOMAIN calls[v].batch : RecordInv(v, i) /\ GroupInv(v, i)
  /\ \A v \in Invocations : faults = 0 => ~calls[v].failed
  /\ \A c \in ClaimKeys : OwnerInv(c)
  /\ NothingLost

-----------------------------------------------------------------------------
(* What a step of a record is                                              *)

\* The record changes and nothing else of the calls does, but for what its end counts.
Goes(v, i) ==
  /\ DOMAIN record' = Invocations /\ \A w \in Invocations : w # v => record'[w] = record[w]
  /\ record'[v] \in [DOMAIN calls[v].batch -> Record]
  /\ \A j \in DOMAIN calls[v].batch : j # i => record'[v][j] = record[v][j]
  /\ calls' \in [Invocations -> Call] /\ \A w \in Invocations : w # v => calls'[w] = calls[w]
  /\ calls'[v].is = calls[v].is /\ calls'[v].batch = calls[v].batch /\ calls'[v].receives = calls[v].receives
  /\ calls'[v].start = calls[v].start

\* It becomes r_, and the batch fails if fatal.
Becomes(v, i, r_, fatal) ==
  /\ Goes(v, i) /\ record'[v][i] = r_ /\ r_ \in Record
  /\ calls'[v].failed <=> calls[v].failed \/ fatal

\* What a record is when it has ended, when it has left, and when it is to be consumed.
Ended(r) == [NewRecord EXCEPT !.pc = "over", !.handedBack = r.handedBack, !.holdsGroup = r.holdsGroup]
Left(r) == IF r.slot = 0 THEN Ended(r) ELSE [r EXCEPT !.pc = "free"]
Consumed(v, r) == IF DeleteEach(v) THEN [r EXCEPT !.pc = "consume"] ELSE Left(r)

LEMMA RuntimeConstants ==
  ASSUME SentInv
  PROVE  /\ Second \in Nat /\ Second # 0 /\ Ttl \in Nat /\ MaxDeferCount \in Nat /\ MaxDeferDelay \in Nat
         /\ SlotWait \in Nat /\ MaxInvocations \in Nat /\ MaxMessages \in Nat
         /\ sub.max \in Nat /\ sub.timeout \in Nat /\ sub.timeout # 0 /\ sub.lag \in Nat /\ sub.batchSize \in Nat
         /\ sub.faults \in Nat /\ sub.ticks \in Nat /\ sub.idempotent \in BOOLEAN /\ sub.fifo \in BOOLEAN
         /\ sub.batchAck \in BOOLEAN
         /\ sub.lag <= sub.timeout * Second
         /\ sub.fifo => sub.max = 0
         /\ now \in Nat /\ faults \in Nat /\ EpochSeconds \in Nat
         /\ EpochSeconds * Second <= now /\ now < EpochSeconds * Second + Second
<1>1. /\ Second \in Nat /\ Second # 0 /\ Ttl \in Nat /\ MaxDeferCount \in Nat /\ MaxDeferDelay \in Nat
      /\ SlotWait \in Nat /\ MaxInvocations \in Nat /\ MaxMessages \in Nat
  <2>1. Second \in Nat /\ Second # 0 /\ Ttl \in Nat /\ MaxDeferCount \in Nat /\ MaxDeferDelay \in Nat
        /\ MaxInvocations \in Nat /\ MaxMessages \in Nat /\ SlotWait \in 0..MaxDeferDelay
    BY RuntimeAssumption
  <2> QED
    BY <2>1
<1>2. sub \in Subscription /\ sub.lag <= sub.timeout * Second /\ (sub.fifo => sub.max = 0)
  BY RuntimeAssumption DEF SentInv
<1>3. /\ sub.max \in Nat /\ sub.timeout \in Nat /\ sub.timeout # 0 /\ sub.lag \in Nat /\ sub.batchSize \in Nat
      /\ sub.faults \in Nat /\ sub.ticks \in Nat /\ sub.idempotent \in BOOLEAN /\ sub.fifo \in BOOLEAN
      /\ sub.batchAck \in BOOLEAN
  BY <1>2 DEF Subscription
<1>4. now \in Nat /\ faults \in Nat
  BY <1>3 DEF SentInv
<1>5. /\ EpochSeconds \in Nat
      /\ EpochSeconds * Second <= now /\ now < EpochSeconds * Second + Second
  BY <1>1, <1>4 DEF EpochSeconds
<1> QED
  BY <1>1, <1>2, <1>3, <1>4, <1>5

LEMMA NewRecordType ==
  NewRecord \in Record /\ NewRecord.pc = "queued" /\ NewRecord.slot = 0
BY DEF NewRecord, Record, Places

LEMMA BecomeDoes ==
  ASSUME TypeInv, NEW v \in Invocations, NEW i \in DOMAIN calls[v].batch, NEW r_ \in Record,
         Become(v, i, r_), calls' = calls
  PROVE  Becomes(v, i, r_, FALSE)
<1>1. /\ DOMAIN record = Invocations /\ record[v] \in [DOMAIN calls[v].batch -> Record]
      /\ calls \in [Invocations -> Call]
  BY DEF TypeInv, CallInv
<1>2. record' = [record EXCEPT ![v][i] = r_]
  BY DEF Become
<1>3. /\ DOMAIN record' = Invocations /\ \A w \in Invocations : w # v => record'[w] = record[w]
      /\ record'[v] \in [DOMAIN calls[v].batch -> Record] /\ record'[v][i] = r_
      /\ \A j \in DOMAIN calls[v].batch : j # i => record'[v][j] = record[v][j]
  BY <1>1, <1>2
<1>4. calls[v].failed \in BOOLEAN
  BY <1>1 DEF Call
<1> QED
  BY <1>1, <1>3, <1>4 DEF Becomes, Goes

LEMMA EndDoes ==
  ASSUME TypeInv, NEW v \in Invocations, NEW i \in DOMAIN calls[v].batch, NEW r \in Record,
         End(v, i, r), r.since <= now
  PROVE  Becomes(v, i, Ended(r), r.fatal)
<1> DEFINE over == Ended(r)
<1>1. /\ DOMAIN record = Invocations /\ record[v] \in [DOMAIN calls[v].batch -> Record]
      /\ calls \in [Invocations -> Call] /\ calls[v] \in Call
  BY DEF TypeInv, CallInv
<1>2. over \in Record
  BY DEF NewRecord, Record, Places, Ended
<1>3. record' = [record EXCEPT ![v][i] = over]
  BY DEF End, Become, Ended
<1>4. /\ DOMAIN record' = Invocations /\ \A w \in Invocations : w # v => record'[w] = record[w]
      /\ record'[v] \in [DOMAIN calls[v].batch -> Record] /\ record'[v][i] = over
      /\ \A j \in DOMAIN calls[v].batch : j # i => record'[v][j] = record[v][j]
  BY <1>1, <1>2, <1>3
<1>5. PICK s : /\ calls' = [calls EXCEPT ![v].failed = @ \/ r.fatal, ![v].slowest = s]
               /\ s = calls[v].slowest \/ s = now - r.since
  BY DEF End
<1>6. s \in Nat
  <2>1. calls[v].slowest \in Nat /\ r.since \in Nat
    BY <1>1 DEF Call, Record
  <2>2. now \in Nat
    BY RuntimeConstants DEF TypeInv
  <2> QED
    BY <1>5, <2>1, <2>2
<1>7. /\ calls' \in [Invocations -> Call] /\ \A w \in Invocations : w # v => calls'[w] = calls[w]
      /\ calls'[v].is = calls[v].is /\ calls'[v].batch = calls[v].batch /\ calls'[v].receives = calls[v].receives
      /\ calls'[v].start = calls[v].start /\ calls'[v].failed = (calls[v].failed \/ r.fatal)
  BY <1>1, <1>5, <1>6 DEF Call
<1> QED
  BY <1>2, <1>4, <1>7 DEF Becomes, Goes

\* Where a record's way out leads: its flags go along, as far as they are of use.
LEMMA EndedIs ==
  ASSUME SentInv, NEW r \in Record, Sound(r)
  PROVE  LET r_ == Ended(r) IN
         /\ r_ \in Record /\ Flags(r_) /\ r_.pc = "over" /\ r_.slot = 0 /\ ~HasKey(r_) /\ ~Done(r_)
         /\ r_.handedBack = r.handedBack /\ ~r_.fatal /\ ~r_.deferred /\ ~r_.handled
<1>1. now \in Nat
  BY RuntimeConstants
<1>2. Ended(r) \in Record
  BY DEF Ended, NewRecord, Record, Places
<1>3. /\ Ended(r).pc = "over" /\ Ended(r).slot = 0 /\ Ended(r).since = 0 /\ ~Ended(r).claim /\ ~Ended(r).deferred
      /\ ~Ended(r).handled /\ ~Ended(r).unknown /\ ~Ended(r).fatal
      /\ Ended(r).handedBack = r.handedBack /\ Ended(r).holdsGroup = r.holdsGroup
  BY DEF Ended, NewRecord
<1> QED
  BY <1>1, <1>2, <1>3 DEF Flags, Sound, HasKey, Done, KeyPlaces

LEMMA LeftIs ==
  ASSUME SentInv, NEW r \in Record, Sound(r)
  PROVE  LET r_ == Left(r) IN
         /\ r_ \in Record /\ Flags(r_) /\ r_.pc \in {"free", "over"} /\ r_.slot = r.slot /\ ~HasKey(r_)
         /\ r_.handedBack = r.handedBack /\ (r_.fatal <=> r.fatal /\ r.slot # 0)
         /\ (r_.deferred => r.deferred) /\ (r_.handled => r.handled /\ r_.deferred = r.deferred)
<1>1. CASE r.slot = 0
  BY <1>1, EndedIs DEF Left
<1>2. CASE r.slot # 0
  BY <1>2 DEF Left, Record, Places, Flags, Sound, HasKey, KeyPlaces
<1> QED
  BY <1>1, <1>2

LEMMA ConsumedIs ==
  ASSUME SentInv, NEW v, NEW r \in Record, Sound(r), ~r.handled, ~r.fatal
  PROVE  LET r_ == Consumed(v, r) IN
         /\ r_ \in Record /\ Flags(r_) /\ r_.pc \in {"consume", "free", "over"} /\ r_.slot = r.slot /\ ~HasKey(r_)
         /\ r_.handedBack = r.handedBack /\ ~r_.fatal /\ ~r_.handled
         /\ (r_.deferred => r.deferred) /\ (DeleteEach(v) => r_.pc = "consume")
<1>1. CASE ~DeleteEach(v)
  BY <1>1, LeftIs DEF Consumed
<1>2. CASE DeleteEach(v)
  BY <1>2 DEF Consumed, Record, Places, Flags, Sound, HasKey, KeyPlaces
<1> QED
  BY <1>1, <1>2

LEMMA LeaveDoes ==
  ASSUME TypeInv, NEW v \in Invocations, NEW i \in DOMAIN calls[v].batch, NEW r \in Record, Sound(r),
         Leave(v, i, r)
  PROVE  Becomes(v, i, Left(r), r.fatal /\ r.slot = 0)
<1>0. SentInv /\ r.since <= now
  BY DEF TypeInv, Sound
<1>1. CASE r.slot = 0
  BY <1>0, <1>1, EndDoes DEF Leave, Left, Becomes
<1>2. CASE r.slot # 0
  BY <1>0, <1>2, BecomeDoes, LeftIs DEF Leave, Left, Becomes
<1> QED
  BY <1>1, <1>2

LEMMA ToConsumeDoes ==
  ASSUME TypeInv, NEW v \in Invocations, NEW i \in DOMAIN calls[v].batch, NEW r \in Record, Sound(r),
         ~r.handled, ~r.fatal, ToConsume(v, i, r)
  PROVE  Becomes(v, i, Consumed(v, r), FALSE)
<1>0. SentInv
  BY DEF TypeInv
<1>1. CASE ~DeleteEach(v)
  BY <1>1, LeaveDoes DEF ToConsume, Consumed, Becomes
<1>2. CASE DeleteEach(v)
  BY <1>0, <1>2, BecomeDoes, ConsumedIs DEF ToConsume, Consumed
<1> QED
  BY <1>1, <1>2

\* Where the catch block leads.
Catches(v, i, r, n) ==
  LET r_ == record'[v][i] IN
  /\ Goes(v, i) /\ Flags(r_) /\ r_.slot = r.slot
  /\ r_.pc \in {"free", "over", "unclaim", "consume", "retry", "keepUnknown", "failRelease"}
  /\ faults' \in Nat /\ faults + n <= faults' /\ faults' <= sub.faults
  /\ calls[v].failed => calls'[v].failed
  /\ faults' = 0 => ~r_.fatal /\ (calls'[v].failed => calls[v].failed)
  /\ r.handled => r_.pc \in {"free", "over"}
  /\ HasKey(r_) => r.claim
  /\ faults' = 0 /\ r.claim /\ ~r.handled => HasKey(r_)
  /\ r_.pc = "keepUnknown" => r.unknown /\ r.claim /\ ~r.deferred
  /\ Doomed(r_, calls'[v].failed) => r.deferred \/ (r.handled /\ ~r.handedBack) \/ r_.pc = "keepUnknown"
  /\ Done(r_) => (r.handled /\ ~r.handedBack /\ ~r.deferred) \/ r_.pc = "keepUnknown"
  /\ faults' = 0 /\ DeleteEach(v) /\ r_.pc \in {"free", "over"} => r.handled

LEMMA CatchDoes ==
  ASSUME TypeInv, NEW v \in Invocations, NEW i \in DOMAIN calls[v].batch, NEW r0 \in Record, Sound(r0), ~r0.fatal,
         NEW n \in Nat, Catch(v, i, r0, n)
  PROVE  Catches(v, i, r0, n)
<1> DEFINE r == [r0 EXCEPT !.holdsGroup = TRUE]
           f == [r EXCEPT !.fatal = TRUE]
           b == [r EXCEPT !.pc = "retry", !.handedBack = TRUE]
           u == [r EXCEPT !.pc = "unclaim"]
           k == [r EXCEPT !.pc = IF r.unknown THEN "keepUnknown" ELSE "failRelease"]
           r_ == record'[v][i]
<1>0. SentInv /\ faults \in Nat /\ sub.faults \in Nat
  BY RuntimeConstants DEF TypeInv
<1>1. /\ r \in Record /\ Sound(r) /\ ~r.fatal /\ r.claim = r0.claim /\ r.deferred = r0.deferred
      /\ r.handled = r0.handled /\ r.unknown = r0.unknown /\ r.handedBack = r0.handedBack /\ r.slot = r0.slot
      /\ r.pc = r0.pc
  BY DEF Record, Sound
<1>2. /\ f \in Record /\ Sound(f) /\ f.fatal /\ f.slot = r0.slot
  BY DEF Record, Sound
<1>3. ~r0.handled => b \in Record /\ Flags(b) /\ b.slot = r0.slot /\ ~HasKey(b) /\ b.pc = "retry" /\ b.handedBack
                       /\ ~b.fatal /\ ~b.handled /\ b.deferred = r0.deferred
  <2>1. SUFFICES ASSUME ~r0.handled
                 PROVE  b \in Record /\ Flags(b) /\ b.slot = r0.slot /\ ~HasKey(b) /\ b.pc = "retry" /\ b.handedBack
                          /\ ~b.fatal /\ ~b.handled /\ b.deferred = r0.deferred
    OBVIOUS
  <2>2. b \in Record /\ b.slot = r0.slot /\ b.pc = "retry" /\ b.handedBack /\ b.holdsGroup /\ ~b.fatal /\ ~b.handled
        /\ b.deferred = r0.deferred /\ b.claim = r0.claim /\ b.since = r0.since
    BY <2>1 DEF Record, Places
  <2> HIDE DEF b, r
  <2> QED
    BY <2>1, <2>2 DEF Flags, Sound, HasKey, KeyPlaces
<1>4. ~r0.handled /\ r0.claim =>
        u \in Record /\ Flags(u) /\ u.slot = r0.slot /\ HasKey(u) /\ u.pc = "unclaim" /\ ~u.fatal /\ ~u.handled
  <2>1. SUFFICES ASSUME ~r0.handled, r0.claim
                 PROVE  u \in Record /\ Flags(u) /\ u.slot = r0.slot /\ HasKey(u) /\ u.pc = "unclaim" /\ ~u.fatal
                          /\ ~u.handled
    OBVIOUS
  <2>2. u \in Record /\ u.slot = r0.slot /\ u.pc = "unclaim" /\ u.holdsGroup /\ ~u.fatal /\ ~u.handled
        /\ u.claim = r0.claim /\ u.since = r0.since
    BY <2>1 DEF Record, Places
  <2> HIDE DEF u, r
  <2> QED
    BY <2>1, <2>2 DEF Flags, Sound, HasKey, KeyPlaces
<1>5. ~r0.handled /\ r0.claim =>
        /\ k \in Record /\ Flags(k) /\ k.slot = r0.slot /\ HasKey(k) /\ ~k.fatal /\ ~k.handled
        /\ k.deferred = r0.deferred /\ k.pc = IF r0.unknown THEN "keepUnknown" ELSE "failRelease"
  <2>1. SUFFICES ASSUME ~r0.handled, r0.claim
                 PROVE  /\ k \in Record /\ Flags(k) /\ k.slot = r0.slot /\ HasKey(k) /\ ~k.fatal /\ ~k.handled
                        /\ k.deferred = r0.deferred /\ k.pc = IF r0.unknown THEN "keepUnknown" ELSE "failRelease"
    OBVIOUS
  <2>2. k \in Record /\ k.slot = r0.slot /\ k.holdsGroup /\ ~k.fatal /\ ~k.handled /\ k.deferred = r0.deferred
        /\ k.claim = r0.claim /\ k.since = r0.since /\ k.pc = IF r0.unknown THEN "keepUnknown" ELSE "failRelease"
    BY <2>1 DEF Record, Places
  <2> HIDE DEF k, r
  <2> QED
    BY <2>1, <2>2 DEF Flags, Sound, HasKey, KeyPlaces
<1>6. \/ faults' = faults + (n + 1) /\ faults + (n + 1) <= sub.faults /\ Leave(v, i, f)
      \/ /\ faults' = faults + n /\ faults + n <= sub.faults
         /\ \/ r0.handled /\ Leave(v, i, r)
            \/ ~r0.handled /\ r0.deferred /\ r0.claim /\ Become(v, i, u) /\ calls' = calls
            \/ ~r0.handled /\ r0.deferred /\ ~r0.claim /\ ToConsume(v, i, r)
            \/ ~r0.handled /\ ~r0.deferred /\ ~r0.claim /\ Become(v, i, b) /\ calls' = calls
            \/ ~r0.handled /\ ~r0.deferred /\ r0.claim /\ Become(v, i, k) /\ calls' = calls
  BY <1>1 DEF Catch, Faults
<1> HIDE DEF r, f, b, u, k
<1> USE DEF Becomes, Catches, Doomed, Done
<1>7. CASE faults' = faults + (n + 1) /\ faults + (n + 1) <= sub.faults /\ Leave(v, i, f)
  <2>1. Becomes(v, i, Left(f), f.fatal /\ f.slot = 0)
    BY <1>2, <1>7, LeaveDoes
  <2>2. /\ Flags(Left(f)) /\ Left(f).pc \in {"free", "over"} /\ Left(f).slot = r0.slot /\ ~HasKey(Left(f))
        /\ Left(f).fatal <=> r0.slot # 0
        /\ Left(f).deferred => r0.deferred
        /\ Left(f).handled => r0.handled /\ Left(f).deferred = r0.deferred
        /\ Left(f).handedBack = r0.handedBack
    <3>1. f.deferred = r0.deferred /\ f.handled = r0.handled /\ f.handedBack = r0.handedBack
      BY DEF Record, f, r
    <3> QED
      BY <1>0, <1>2, <3>1, LeftIs
  <2>3. faults' \in Nat /\ faults + n <= faults' /\ faults' # 0
    BY <1>0, <1>7
  <2>4. r0.slot = 0 => calls'[v].failed
    BY <1>2, <2>1
  <2>5. Left(f).pc = "free" => r0.slot # 0
    BY <1>0, <1>2, EndedIs DEF Left
  <2>6. r_ = Left(f) /\ Goes(v, i) /\ (calls[v].failed => calls'[v].failed)
    BY <2>1
  <2>7. Doomed(r_, calls'[v].failed) => r0.deferred \/ (r0.handled /\ ~r0.handedBack)
    BY <2>2, <2>4, <2>5, <2>6, EndedIs, <1>0, <1>2 DEF Left
  <2>8. Done(r_) => r0.handled /\ ~r0.handedBack /\ ~r0.deferred
    BY <2>2, <2>6
  <2> HIDE DEF Doomed, Done, Becomes, r_
  <2> QED
    BY <1>7, <2>2, <2>3, <2>6, <2>7, <2>8 DEF r_
<1>8. CASE faults' = faults + n /\ faults + n <= sub.faults /\ r0.handled /\ Leave(v, i, r)
  <2>1. Becomes(v, i, Left(r), FALSE)
    BY <1>1, <1>8, LeaveDoes
  <2>2. /\ Flags(Left(r)) /\ Left(r).pc \in {"free", "over"} /\ Left(r).slot = r0.slot /\ ~HasKey(Left(r))
        /\ ~Left(r).fatal /\ (Left(r).deferred => r0.deferred) /\ Left(r).handedBack = r0.handedBack
    BY <1>0, <1>1, LeftIs
  <2>3. Left(r).handled => Left(r).deferred = r0.deferred
    BY <1>0, <1>1, LeftIs
  <2> QED
    BY <1>0, <1>8, <2>1, <2>2, <2>3
<1>9. CASE faults' = faults + n /\ faults + n <= sub.faults /\ ~r0.handled /\ r0.deferred /\ r0.claim
           /\ Become(v, i, u) /\ calls' = calls
  BY <1>0, <1>4, <1>9, BecomeDoes
<1>10. CASE faults' = faults + n /\ faults + n <= sub.faults /\ ~r0.handled /\ r0.deferred /\ ~r0.claim
            /\ ToConsume(v, i, r)
  <2>1. Becomes(v, i, Consumed(v, r), FALSE)
    BY <1>1, <1>10, ToConsumeDoes
  <2> QED
    BY <1>0, <1>1, <1>10, <2>1, ConsumedIs
<1>11. CASE faults' = faults + n /\ faults + n <= sub.faults /\ ~r0.handled /\ ~r0.deferred /\ ~r0.claim
            /\ Become(v, i, b) /\ calls' = calls
  BY <1>0, <1>3, <1>11, BecomeDoes
<1>12. CASE faults' = faults + n /\ faults + n <= sub.faults /\ ~r0.handled /\ ~r0.deferred /\ r0.claim
            /\ Become(v, i, k) /\ calls' = calls
  BY <1>0, <1>5, <1>12, BecomeDoes
<1> QED
  BY <1>6, <1>7, <1>8, <1>9, <1>10, <1>11, <1>12
-----------------------------------------------------------------------------
(* What every step of a record does to the record, the claims and the      *)
(* queue                                                                   *)

RecordMoves(v, i) ==
  LET r == record[v][i]
      r_ == record'[v][i]
  IN  /\ Goes(v, i) /\ UNCHANGED <<sub, now>> /\ Flags(r_)
      /\ calls[v].is = "running" /\ i \in DOMAIN calls[v].batch /\ r.pc # "over" /\ r_.pc # "queued"
      /\ faults' \in Nat /\ faults <= faults' /\ faults' <= sub.faults
      /\ calls[v].failed => calls'[v].failed
      /\ faults' = 0 => ~r_.fatal /\ (calls'[v].failed => calls[v].failed)
      /\ r.pc \in {"ack", "consume", "free"} => r_.pc \in {"free", "over"}
      /\ r.pc = "queued" => r_.pc = "over" \/ Begins(v, i)

\* The record has its key and its slot as before, or lost them to a failure.
LeavesClaims(v, i) ==
  LET r == record[v][i]
      r_ == record'[v][i]
  IN  /\ claims' = claims
      /\ HasKey(r_) => HasKey(r)
      /\ r_.slot # 0 => r_.slot = r.slot
      /\ faults' = 0 => (HasKey(r) => HasKey(r_)) /\ (r.slot # 0 => r_.slot = r.slot)

TakesKey(v, i) ==
  /\ IsFree(ClaimOf(v, i)) /\ Take(ClaimOf(v, i), <<v, i>>)
  /\ sub.idempotent /\ record[v][i].pc = "queued" /\ record'[v][i].slot = 0
  /\ faults' = 0 => HasKey(record'[v][i])

TakesSlot(v, i, s) ==
  LET r == record[v][i]
      r_ == record'[v][i]
      c == SlotKey(MessageOf(v, i).tenant, s)
  IN  /\ IsFree(c) /\ Take(c, <<v, i>>) /\ r.pc = "slot"
      /\ HasKey(r_) => HasKey(r)
      /\ r_.slot # 0 => r_.slot = s
      /\ faults' = 0 => r_.slot = s /\ (HasKey(r) => HasKey(r_))

SettlesKey(v, i) ==
  LET r == record[v][i]
      r_ == record'[v][i]
  IN  /\ \/ Release(ClaimOf(v, i), <<v, i>>)
         \/ /\ Keep(ClaimOf(v, i), <<v, i>>, "done") \/ Keep(ClaimOf(v, i), <<v, i>>, "unknown")
            /\ Done(r) /\ r_.pc \in {"ack", "consume", "free", "over"}
      /\ HasKey(r) /\ ~HasKey(r_) /\ r_.slot = r.slot

ReleasesSlot(v, i) ==
  LET r == record[v][i]
      r_ == record'[v][i]
  IN  /\ Release(SlotKey(MessageOf(v, i).tenant, r.slot), <<v, i>>)
      /\ r.pc = "free" /\ ~HasKey(r_) /\ r_.slot = 0

ClaimsMove(v, i) ==
  \/ LeavesClaims(v, i) \/ TakesKey(v, i) \/ SettlesKey(v, i) \/ ReleasesSlot(v, i)
  \/ \E s \in Slots : TakesSlot(v, i, s)

Copies(v, i) ==
  /\ ~sub.fifo /\ Len(sent) < MaxMessages
  /\ \E defers \in 0..MaxDeferCount, until \in Nat :
       sent' = Append(sent, [MessageOf(v, i) EXCEPT !.defers = defers, !.until = until])
  /\ \E at \in Nat : queue' = Put(Len(sent) + 1, [visibleAt |-> at, receives |-> 0])

Deletes(v, i) == sent' = sent /\ Delete(v, i) /\ Doomed(record[v][i], calls[v].failed)

Shows(v, i) == sent' = sent /\ \E d \in Nat : ChangeVisibility(v, i, d)

QueueMoves(v, i) ==
  LET r == record[v][i]
      r_ == record'[v][i]
      origin == MessageOf(v, i).origin
  IN  /\ ran' = ran \/ ran' = ran \cup {origin}
      /\ UNCHANGED <<sent, queue>> \/ Copies(v, i) \/ Deletes(v, i) \/ Shows(v, i)
      /\ Doomed(r_, calls'[v].failed) =>
           \/ Doomed(r, calls[v].failed) \/ Copies(v, i) \/ origin \in ran'
           \/ sub.idempotent /\ ~IsFree(ClaimOf(v, i)) /\ claims[ClaimOf(v, i)].state # "running"
      /\ Done(r_) => Done(r) \/ origin \in ran'
      /\ faults' = 0 /\ DeleteEach(v) /\ r_.pc \in {"free", "over"} /\ ~r_.handedBack =>
           (r.pc = "free" /\ ~r.handedBack) \/ Deletes(v, i)

RecordGoes(v, i) == RecordMoves(v, i) /\ ClaimsMove(v, i) /\ QueueMoves(v, i)

-----------------------------------------------------------------------------
LEMMA AtRecord ==
  ASSUME RuntimeInv, NEW v \in Invocations, NEW i, NEW pc, At(v, i, pc)
  PROVE  /\ TypeInv /\ SentInv /\ calls[v].is = "running" /\ i \in DOMAIN calls[v].batch /\ i \in DOMAIN record[v]
         /\ record[v][i] \in Record /\ record[v][i].pc = pc /\ Flags(record[v][i]) /\ Sound(record[v][i])
         /\ faults = 0 => ~record[v][i].fatal /\ ~calls[v].failed
         /\ faults \in Nat /\ sub.faults \in Nat /\ faults <= sub.faults
<1>1. TypeInv /\ SentInv /\ CallInv(v) /\ calls[v].is = "running" /\ record[v][i].pc = pc /\ i \in DOMAIN record[v]
  BY DEF RuntimeInv, TypeInv, At
<1>2. i \in DOMAIN calls[v].batch /\ record[v][i] \in Record
  BY <1>1 DEF CallInv
<1>3. RecordInv(v, i) /\ (faults = 0 => ~calls[v].failed)
  BY <1>2 DEF RuntimeInv
<1>4. Flags(record[v][i]) /\ (faults = 0 => ~record[v][i].fatal)
  BY <1>3 DEF RecordInv
<1>5. faults \in Nat /\ sub.faults \in Nat
  BY <1>1, RuntimeConstants
<1>6. faults <= sub.faults
  BY <1>1, <1>5 DEF SentInv
<1> QED
  BY <1>1, <1>2, <1>3, <1>4, <1>5, <1>6 DEF Flags

\* A record as it begins.
LEMMA BegunRecord ==
  ASSUME RuntimeInv, NEW v \in Invocations, NEW i, At(v, i, "queued")
  PROVE  LET b == Begun(v, i) IN
         /\ b \in Record /\ Flags(b) /\ Sound(b) /\ b.pc = "queued" /\ ~b.fatal /\ ~b.claim /\ b.slot = 0 /\ ~b.handled
         /\ ~b.deferred /\ ~b.handedBack /\ ~b.unknown
         /\ LET r == record[v][i] IN r.slot = 0 /\ ~HasKey(r) /\ ~Done(r) /\ ~Doomed(r, calls[v].failed) /\ ~r.fatal
<1> DEFINE r == record[v][i]
           b == Begun(v, i)
<1>1. r \in Record /\ Flags(r) /\ r.pc = "queued" /\ SentInv
  BY AtRecord
<1>2. r = [NewRecord EXCEPT !.since = r.since]
  BY <1>1 DEF Flags
<1>3. /\ ~r.claim /\ r.slot = 0 /\ ~r.deferred /\ ~r.handled /\ ~r.unknown /\ ~r.fatal /\ ~r.handedBack
  BY <1>2 DEF NewRecord
<1>4. now \in Nat /\ sub.idempotent \in BOOLEAN
  BY <1>1, RuntimeConstants
<1>5. PICK since \in Nat : b = [r EXCEPT !.since = since] /\ since <= now
  BY <1>4 DEF Begun
<1>6. b \in Record /\ b = [NewRecord EXCEPT !.since = b.since] /\ b.since <= now /\ b.pc = "queued"
  BY <1>1, <1>2, <1>5 DEF Record, NewRecord
<1>7. /\ ~b.claim /\ b.slot = 0 /\ ~b.deferred /\ ~b.handled /\ ~b.unknown /\ ~b.fatal /\ ~b.handedBack
  BY <1>1, <1>3, <1>5 DEF Record
<1> HIDE DEF b, r
<1>8. Flags(b) /\ Sound(b)
  BY <1>6, <1>7 DEF Flags, Sound
<1>9. ~HasKey(r) /\ ~Done(r) /\ ~Doomed(r, calls[v].failed)
  BY <1>1, <1>3 DEF HasKey, Done, Doomed
<1> QED
  BY <1>3, <1>6, <1>7, <1>8, <1>9 DEF r, b

LEMMA BecomesMoves ==
  ASSUME RuntimeInv, NEW v \in Invocations, NEW i, NEW pc, At(v, i, pc), pc # "over",
         NEW r_, Becomes(v, i, r_, FALSE), Flags(r_), ~r_.fatal, r_.pc # "queued", UNCHANGED <<sub, now>>,
         NEW n \in Nat, Faults(n),
         pc \in {"ack", "consume", "free"} => r_.pc \in {"free", "over"},
         pc = "queued" => r_.pc = "over" \/ Begins(v, i)
  PROVE  /\ RecordMoves(v, i) /\ record'[v][i] = r_ /\ (calls'[v].failed <=> calls[v].failed)
         /\ n # 0 => faults' # 0
<1>1. faults \in Nat /\ sub.faults \in Nat /\ calls[v].is = "running" /\ i \in DOMAIN calls[v].batch
      /\ record[v][i].pc = pc
  BY AtRecord
<1>2. faults' \in Nat /\ faults <= faults' /\ faults' <= sub.faults /\ (n # 0 => faults' # 0)
  BY <1>1 DEF Faults
<1> QED
  BY <1>1, <1>2 DEF RecordMoves, Becomes

LEMMA BeginsMoves ==
  ASSUME RuntimeInv, NEW v \in Invocations, NEW i, Begins(v, i), NEW r_, Becomes(v, i, r_, FALSE), Flags(r_), ~r_.fatal,
         r_.pc # "queued", UNCHANGED <<sub, now>>, NEW n \in Nat, Faults(n)
  PROVE  /\ RecordMoves(v, i) /\ record'[v][i] = r_ /\ (calls'[v].failed <=> calls[v].failed)
         /\ n # 0 => faults' # 0
<1>1. At(v, i, "queued")
  BY DEF Begins
<1>2. faults \in Nat /\ sub.faults \in Nat /\ calls[v].is = "running" /\ i \in DOMAIN calls[v].batch
      /\ record[v][i].pc = "queued"
  BY <1>1, AtRecord
<1>3. faults' \in Nat /\ faults <= faults' /\ faults' <= sub.faults /\ (n # 0 => faults' # 0)
  BY <1>2 DEF Faults
<1> QED
  BY <1>2, <1>3 DEF RecordMoves, Becomes

LEMMA GoesOn ==
  ASSUME RuntimeInv, NEW v \in Invocations, NEW i,
         NEW pc \in {"slot", "slotCopy", "handler", "settle", "unclaim", "keepUnknown", "failRelease", "retry"},
         At(v, i, pc), NEW r_, Becomes(v, i, r_, FALSE), Flags(r_), ~r_.fatal,
         r_.pc # "queued", UNCHANGED <<sub, now>>, NEW n \in Nat, Faults(n)
  PROVE  /\ RecordMoves(v, i) /\ record'[v][i] = r_ /\ (calls'[v].failed <=> calls[v].failed)
         /\ n # 0 => faults' # 0
<1>1. faults \in Nat /\ sub.faults \in Nat /\ calls[v].is = "running" /\ i \in DOMAIN calls[v].batch
      /\ record[v][i].pc = pc
  BY AtRecord
<1>2. faults' \in Nat /\ faults <= faults' /\ faults' <= sub.faults /\ (n # 0 => faults' # 0)
  BY <1>1 DEF Faults
<1> QED
  BY <1>1, <1>2 DEF RecordMoves, Becomes

LEMMA CatchMoves ==
  ASSUME RuntimeInv, NEW v \in Invocations, NEW i, NEW pc, At(v, i, pc), pc \notin {"over", "consume", "free"},
         NEW r0 \in Record, Sound(r0), ~r0.fatal, NEW n \in Nat, Catch(v, i, r0, n), UNCHANGED <<sub, now>>,
         pc = "ack" => r0.handled, pc = "queued" => Begins(v, i)
  PROVE  RecordMoves(v, i) /\ Catches(v, i, r0, n) /\ (n # 0 => faults' # 0)
<1>1. TypeInv /\ i \in DOMAIN calls[v].batch /\ calls[v].is = "running" /\ record[v][i].pc = pc /\ faults \in Nat
  BY AtRecord
<1>2. Catches(v, i, r0, n)
  BY <1>1, CatchDoes
<1>3. faults <= faults' /\ (n # 0 => faults' # 0)
  BY <1>1, <1>2 DEF Catches
<1> QED
  BY <1>1, <1>2, <1>3 DEF RecordMoves, Catches

LEMMA SkipGoes ==
  ASSUME RuntimeInv, NEW v \in Invocations, NEW i, Skip(v, i)
  PROVE  RecordGoes(v, i)
<1> DEFINE e == [NewRecord EXCEPT !.pc = "over"]
           h == [NewRecord EXCEPT !.pc = "over", !.handedBack = TRUE, !.holdsGroup = TRUE]
<1>1. At(v, i, "queued") /\ UNCHANGED <<sub, now, sent, queue, claims, calls, ran, faults>>
  BY DEF Skip
<1>2. /\ TypeInv /\ i \in DOMAIN calls[v].batch /\ faults \in Nat /\ sub.faults \in Nat /\ faults <= sub.faults
      /\ now \in Nat /\ record[v][i].pc = "queued" /\ (faults = 0 => ~calls[v].failed)
  BY <1>1, AtRecord, RuntimeConstants
<1>3. Faults(0)
  BY <1>1, <1>2 DEF Faults
<1>4. ASSUME NEW r_ \in {e, h}, Become(v, i, r_), calls[v].failed \/ r_.handedBack PROVE RecordGoes(v, i)
  <2>1. r_ \in Record /\ r_.pc = "over" /\ r_.slot = 0 /\ ~r_.claim /\ ~r_.handled /\ ~r_.deferred /\ ~r_.fatal
        /\ r_.since = 0 /\ (r_.handedBack => r_.holdsGroup)
    <3>1. CASE r_ = e
      BY <3>1 DEF NewRecord, Record, Places
    <3>2. CASE r_ = h
      BY <3>2 DEF NewRecord, Record, Places
    <3> QED
      BY <3>1, <3>2
  <2>2. Flags(r_) /\ ~HasKey(r_) /\ ~Done(r_) /\ ~Doomed(r_, calls[v].failed)
    BY <1>2, <1>4, <2>1 DEF Flags, Sound, HasKey, Done, Doomed
  <2>3. Becomes(v, i, r_, FALSE)
    BY <1>1, <1>2, <1>4, <2>1, BecomeDoes
  <2> HIDE DEF e, h
  <2>4. RecordMoves(v, i) /\ record'[v][i] = r_
    <3>1. UNCHANGED <<sub, now>> /\ r_.pc # "queued"
      BY <1>1, <2>1
    <3> QED
      BY <1>1, <1>3, <2>1, <2>2, <2>3, <3>1, BecomesMoves
  <2>5. LeavesClaims(v, i)
    BY <1>1, <2>1, <2>2, <2>4, BegunRecord DEF LeavesClaims
  <2>6. QueueMoves(v, i)
    BY <1>1, <1>2, <1>4, <2>2, <2>4 DEF QueueMoves
  <2> QED
    BY <2>4, <2>5, <2>6 DEF RecordGoes, ClaimsMove
<1> QED
  <2>1. h.handedBack
    BY DEF NewRecord
  <2> QED
    BY <1>4, <2>1 DEF Skip
\* A record that fails as it begins has nothing to give back, and its message stays.
LEMMA CatchAsItBegins ==
  ASSUME RuntimeInv, NEW v \in Invocations, NEW i, Begins(v, i), NEW n \in Nat, Catch(v, i, Begun(v, i), n),
         UNCHANGED <<sub, now, ran>>, UNCHANGED <<sent, queue>> \/ Copies(v, i)
  PROVE  /\ RecordMoves(v, i) /\ QueueMoves(v, i) /\ (n # 0 => faults' # 0)
         /\ ~HasKey(record'[v][i]) /\ record'[v][i].slot = 0
<1>1. At(v, i, "queued")
  BY DEF Begins
<1>2. /\ Begun(v, i) \in Record /\ Sound(Begun(v, i)) /\ ~Begun(v, i).fatal /\ ~Begun(v, i).claim /\ Begun(v, i).slot = 0
      /\ ~Begun(v, i).handled /\ ~Begun(v, i).deferred /\ ~Begun(v, i).unknown
  BY <1>1, BegunRecord
<1>3. RecordMoves(v, i) /\ Catches(v, i, Begun(v, i), n) /\ (n # 0 => faults' # 0)
  BY <1>1, <1>2, CatchMoves
<1>4. LET r_ == record'[v][i] IN
      /\ ~HasKey(r_) /\ r_.slot = 0 /\ ~Doomed(r_, calls'[v].failed) /\ ~Done(r_)
      /\ faults' = 0 /\ DeleteEach(v) => r_.pc \notin {"free", "over"}
  BY <1>2, <1>3 DEF Catches
<1> QED
  BY <1>3, <1>4 DEF QueueMoves

\* It is consumed as it begins when its work is done or a copy has it.
LEMMA ConsumeAsItBegins ==
  ASSUME RuntimeInv, NEW v \in Invocations, NEW i, Begins(v, i), Fine, ToConsume(v, i, Begun(v, i)),
         UNCHANGED <<sub, now, ran, claims>>,
         \/ Copies(v, i)
         \/ /\ UNCHANGED <<sent, queue>> /\ sub.idempotent
            /\ ~IsFree(ClaimOf(v, i)) /\ claims[ClaimOf(v, i)].state # "running"
  PROVE  RecordGoes(v, i)
<1>1. At(v, i, "queued")
  BY DEF Begins
<1>2. /\ Begun(v, i) \in Record /\ Sound(Begun(v, i)) /\ ~Begun(v, i).fatal /\ ~Begun(v, i).claim /\ Begun(v, i).slot = 0
      /\ ~Begun(v, i).handled /\ ~Begun(v, i).deferred
  BY <1>1, BegunRecord
<1>3. TypeInv /\ SentInv /\ i \in DOMAIN calls[v].batch
  BY <1>1, AtRecord
<1> DEFINE r_ == Consumed(v, Begun(v, i))
<1>4. Becomes(v, i, r_, FALSE)
  BY <1>2, <1>3, ToConsumeDoes
<1>5. /\ Flags(r_) /\ r_.pc \in {"consume", "free", "over"} /\ r_.slot = 0 /\ ~HasKey(r_) /\ ~r_.fatal /\ ~r_.handled
      /\ DeleteEach(v) => r_.pc = "consume"
  BY <1>2, <1>3, ConsumedIs
<1> HIDE DEF r_
<1>6. RecordMoves(v, i) /\ record'[v][i] = r_
  <2>1. Faults(0) /\ r_.pc # "queued" /\ ~r_.fatal /\ Flags(r_) /\ UNCHANGED <<sub, now>>
    BY <1>5 DEF Fine
  <2> QED
    BY <1>4, <2>1, BeginsMoves
<1>7. LeavesClaims(v, i)
  BY <1>1, <1>5, <1>6, BegunRecord DEF LeavesClaims
<1>8. QueueMoves(v, i)
  BY <1>5, <1>6 DEF QueueMoves, Done
<1> QED
  BY <1>6, <1>7, <1>8 DEF RecordGoes, ClaimsMove

LEMMA SendCopyDoes ==
  ASSUME RuntimeInv, NEW v \in Invocations, NEW i \in DOMAIN calls[v].batch, ~sub.fifo,
         NEW wait \in Nat, NEW until \in Nat, NEW defers \in Nat, MayDefer(defers), SendCopy(v, i, wait, defers, until)
  PROVE  Copies(v, i)
<1>1. Second \in Nat /\ now \in Nat /\ MaxDeferCount \in Nat
  BY RuntimeConstants DEF RuntimeInv, TypeInv
<1>2. defers \in 0..MaxDeferCount
  BY <1>1 DEF MayDefer
<1>3. now + wait * Second \in Nat
  BY <1>1
<1> QED
  BY <1>2, <1>3 DEF SendCopy, Copies, MessageOf

\* The message of a record.
LEMMA MessageType ==
  ASSUME TypeInv, NEW v \in Invocations, NEW i \in DOMAIN calls[v].batch
  PROVE  /\ calls[v].batch[i] \in DOMAIN sent /\ MessageOf(v, i) \in SentMessage
         /\ MessageOf(v, i).key \in Keys /\ MessageOf(v, i).tenant \in Tenants
         /\ MessageOf(v, i).defers \in Nat /\ MessageOf(v, i).until \in Nat
         /\ sub.fifo => MessageOf(v, i).until = 0 /\ MessageOf(v, i).group # NoGroup
         /\ ClaimOf(v, i) \in ClaimKeys /\ \A s \in Slots : SlotKey(MessageOf(v, i).tenant, s) \in ClaimKeys
         /\ \A s : s # 0 => SlotKey(MessageOf(v, i).tenant, s) # ClaimOf(v, i)
<1>1. calls[v].batch[i] \in DOMAIN sent
  BY DEF TypeInv, CallInv
<1>2. MessageOf(v, i) \in SentMessage
  BY <1>1 DEF TypeInv, SentInv, MessageOf
<1>3. sub.fifo => MessageOf(v, i).until = 0 /\ MessageOf(v, i).group # NoGroup
  BY <1>1 DEF TypeInv, SentInv, MessageOf
<1>4. /\ MessageOf(v, i).key \in Keys /\ MessageOf(v, i).tenant \in Tenants
      /\ MessageOf(v, i).until \in Nat /\ MessageOf(v, i).defers \in 0..MaxDeferCount
  BY <1>2 DEF SentMessage
<1>5. MessageOf(v, i).defers \in Nat
  BY <1>4
<1>6. ClaimOf(v, i) \in ClaimKeys /\ \A s \in Slots : SlotKey(MessageOf(v, i).tenant, s) \in ClaimKeys
  BY <1>4 DEF ClaimOf, IdempotencyKey, ClaimKeys, SlotKey
<1>7. \A s : s # 0 => SlotKey(MessageOf(v, i).tenant, s) # ClaimOf(v, i)
  BY DEF ClaimOf, IdempotencyKey, SlotKey
<1> QED
  BY <1>1, <1>2, <1>3, <1>4, <1>5, <1>6, <1>7

LEMMA WaitAgainGoes ==
  ASSUME RuntimeInv, NEW v \in Invocations, NEW i, WaitAgain(v, i)
  PROVE  RecordGoes(v, i)
<1>1. /\ Begins(v, i) /\ At(v, i, "queued") /\ ~(MessageOf(v, i).until <= EpochSeconds)
      /\ UNCHANGED <<sub, now, claims, ran>>
  BY DEF WaitAgain, Begins, IsDue
<1>2. TypeInv /\ SentInv /\ i \in DOMAIN calls[v].batch
  BY <1>1, AtRecord
<1>3. MessageOf(v, i).until \in Nat /\ MessageOf(v, i).defers \in Nat /\ EpochSeconds \in Nat /\ MaxDeferDelay \in Nat
  BY <1>2, RuntimeConstants, MessageType
<1>4. ~sub.fifo
  BY <1>1, <1>2, <1>3, MessageType
<1> DEFINE delay == MessageOf(v, i).until - EpochSeconds
           defers == MessageOf(v, i).defers + 1
           wait == IF delay < MaxDeferDelay THEN delay ELSE MaxDeferDelay
           until == IF delay > wait THEN EpochSeconds + delay ELSE 0
<1>5. delay \in Nat /\ defers \in Nat /\ wait \in Nat /\ until \in Nat
  BY <1>1, <1>3
<1>6. \/ /\ MayDefer(defers) /\ SendCopy(v, i, wait, defers, until)
         /\ (Fine /\ ToConsume(v, i, Begun(v, i))) \/ Catch(v, i, Begun(v, i), 1)
      \/ UNCHANGED <<sent, queue>> /\ (Catch(v, i, Begun(v, i), 1) \/ Catch(v, i, Begun(v, i), 0))
  BY DEF WaitAgain, SendDeferredCopy
<1> HIDE DEF delay, defers, wait, until
<1>7. \/ Copies(v, i) /\ ((Fine /\ ToConsume(v, i, Begun(v, i))) \/ Catch(v, i, Begun(v, i), 1))
      \/ UNCHANGED <<sent, queue>> /\ (Catch(v, i, Begun(v, i), 1) \/ Catch(v, i, Begun(v, i), 0))
  BY <1>2, <1>4, <1>5, <1>6, SendCopyDoes
<1>8. ASSUME NEW n \in Nat, Catch(v, i, Begun(v, i), n), UNCHANGED <<sent, queue>> \/ Copies(v, i)
      PROVE  RecordGoes(v, i)
  <2>1. /\ RecordMoves(v, i) /\ QueueMoves(v, i) /\ ~HasKey(record'[v][i]) /\ record'[v][i].slot = 0
    BY <1>1, <1>8, CatchAsItBegins
  <2>2. LeavesClaims(v, i)
    BY <1>1, <2>1, BegunRecord DEF LeavesClaims
  <2> QED
    BY <2>1, <2>2 DEF RecordGoes, ClaimsMove
<1> QED
  BY <1>1, <1>7, <1>8, ConsumeAsItBegins

LEMMA InvalidGoes ==
  ASSUME RuntimeInv, NEW v \in Invocations, NEW i, Invalid(v, i)
  PROVE  RecordGoes(v, i)
<1>1. Begins(v, i) /\ At(v, i, "queued") /\ Catch(v, i, Begun(v, i), 1) /\ UNCHANGED <<sub, now, sent, queue, claims, ran>>
  BY DEF Invalid, Begins
<1>2. RecordMoves(v, i) /\ QueueMoves(v, i) /\ ~HasKey(record'[v][i]) /\ record'[v][i].slot = 0
  BY <1>1, CatchAsItBegins
<1>3. LeavesClaims(v, i)
  BY <1>1, <1>2, BegunRecord DEF LeavesClaims
<1> QED
  BY <1>2, <1>3 DEF RecordGoes, ClaimsMove

LEMMA BeginWithoutClaimGoes ==
  ASSUME RuntimeInv, NEW v \in Invocations, NEW i, BeginWithoutClaim(v, i)
  PROVE  RecordGoes(v, i)
<1> DEFINE r_ == [Begun(v, i) EXCEPT !.pc = AfterClaim]
<1>1. /\ Begins(v, i) /\ At(v, i, "queued") /\ ~sub.idempotent /\ Become(v, i, r_)
      /\ UNCHANGED <<sub, now, sent, queue, claims, calls, ran, faults>>
  BY DEF BeginWithoutClaim, Begins
<1>2. TypeInv /\ SentInv /\ i \in DOMAIN calls[v].batch /\ Faults(0) /\ sub.max \in Nat
  BY <1>1, AtRecord, RuntimeConstants DEF Faults
<1>3. /\ r_ \in Record /\ r_.pc = AfterClaim /\ ~r_.claim /\ r_.slot = 0 /\ ~r_.handled /\ ~r_.deferred /\ ~r_.unknown
      /\ ~r_.handedBack /\ ~r_.fatal /\ r_.since <= now
  BY <1>1, BegunRecord DEF Record, Places, AfterClaim, Sound
<1> HIDE DEF r_
<1>4. AfterClaim \in {"slot", "handler"} /\ (AfterClaim = "slot" <=> sub.max > 0)
  BY DEF AfterClaim
<1>5. Flags(r_) /\ ~HasKey(r_) /\ ~Done(r_) /\ ~Doomed(r_, calls[v].failed) /\ r_.pc \notin {"queued", "free", "over"}
  BY <1>1, <1>2, <1>3, <1>4 DEF Flags, Sound, HasKey, Done, Doomed
<1>6. Becomes(v, i, r_, FALSE)
  BY <1>1, <1>2, <1>3, BecomeDoes
<1>7. RecordMoves(v, i) /\ record'[v][i] = r_
  <2>1. Begins(v, i) /\ UNCHANGED <<sub, now>> /\ ~r_.fatal /\ r_.pc # "queued" /\ Flags(r_) /\ Faults(0)
    BY <1>1, <1>2, <1>3, <1>5
  <2> QED
    BY <1>6, <2>1, BeginsMoves
<1>8. LeavesClaims(v, i)
  BY <1>1, <1>3, <1>5, <1>7, BegunRecord DEF LeavesClaims
<1>9. QueueMoves(v, i)
  BY <1>1, <1>5, <1>7 DEF QueueMoves
<1> QED
  BY <1>7, <1>8, <1>9 DEF RecordGoes, ClaimsMove

LEMMA TakeClaimGoes ==
  ASSUME RuntimeInv, NEW v \in Invocations, NEW i, TakeClaim(v, i)
  PROVE  RecordGoes(v, i)
<1> DEFINE r == Begun(v, i)
           c == ClaimOf(v, i)
           busy == [r EXCEPT !.pc = "retry", !.handedBack = TRUE, !.holdsGroup = TRUE]
           has == [r EXCEPT !.pc = AfterClaim, !.claim = TRUE]
<1>1. /\ Begins(v, i) /\ At(v, i, "queued") /\ sub.idempotent
      /\ UNCHANGED <<sub, now, sent, queue, ran>>
      /\ \/ /\ IsFree(c) /\ Take(c, <<v, i>>)
            /\ \/ Fine /\ Become(v, i, has) /\ calls' = calls
               \/ Faults(1) /\ Become(v, i, busy) /\ calls' = calls
               \/ Catch(v, i, r, 1)
         \/ Become(v, i, busy) /\ calls' = calls /\ Fine /\ claims' = claims
         \/ ~IsFree(c) /\ claims[c].state # "running" /\ Fine /\ ToConsume(v, i, r) /\ claims' = claims
         \/ Catch(v, i, r, 1) /\ claims' = claims
  BY DEF TakeClaim, Begins
<1>2. TypeInv /\ SentInv /\ i \in DOMAIN calls[v].batch /\ sub.max \in Nat /\ record[v][i].pc = "queued"
  BY <1>1, AtRecord, RuntimeConstants
<1>3. /\ r \in Record /\ Sound(r) /\ ~r.fatal /\ ~r.claim /\ r.slot = 0 /\ ~r.handled /\ ~r.deferred /\ ~r.unknown
      /\ r.since <= now
  BY <1>1, BegunRecord DEF Sound
<1>4. /\ busy \in Record /\ busy.pc = "retry" /\ busy.slot = 0 /\ ~busy.claim /\ ~busy.fatal /\ ~busy.handled
      /\ ~busy.deferred /\ busy.handedBack /\ busy.holdsGroup /\ busy.since <= now
  BY <1>3 DEF Record, Places
<1>5. /\ has \in Record /\ has.pc = AfterClaim /\ has.slot = 0 /\ has.claim /\ ~has.fatal /\ ~has.handled
      /\ ~has.deferred /\ ~has.unknown /\ has.since <= now /\ (has.handedBack => has.holdsGroup)
  BY <1>3 DEF Record, Places, AfterClaim, Sound
<1>6. AfterClaim \in {"slot", "handler"} /\ (AfterClaim = "slot" <=> sub.max > 0)
  BY DEF AfterClaim
<1> HIDE DEF busy, has, r
<1>7. Flags(busy) /\ ~HasKey(busy) /\ ~Done(busy) /\ ~Doomed(busy, calls[v].failed)
  BY <1>4 DEF Flags, Sound, HasKey, Done, Doomed, KeyPlaces
<1>8. Flags(has) /\ HasKey(has) /\ ~Done(has) /\ ~Doomed(has, calls[v].failed) /\ has.pc \notin {"queued", "free", "over"}
  BY <1>1, <1>2, <1>5, <1>6 DEF Flags, Sound, HasKey, Done, Doomed, KeyPlaces
<1>9. ASSUME Become(v, i, busy), calls' = calls, NEW n \in Nat, Faults(n)
      PROVE  /\ RecordMoves(v, i) /\ QueueMoves(v, i) /\ (n # 0 => faults' # 0)
             /\ ~HasKey(record'[v][i]) /\ record'[v][i].slot = 0
  <2>1. Becomes(v, i, busy, FALSE)
    BY <1>2, <1>4, <1>9, BecomeDoes
  <2>2. RecordMoves(v, i) /\ record'[v][i] = busy /\ (n # 0 => faults' # 0)
    <3>1. Begins(v, i) /\ UNCHANGED <<sub, now>> /\ ~busy.fatal /\ busy.pc # "queued" /\ Flags(busy)
      BY <1>1, <1>4, <1>7
    <3> QED
      BY <1>9, <2>1, <3>1, BeginsMoves
  <2> QED
    BY <1>1, <1>4, <1>7, <1>9, <2>2 DEF QueueMoves
<1>10. ASSUME Catch(v, i, r, 1)
       PROVE  /\ RecordMoves(v, i) /\ QueueMoves(v, i) /\ faults' # 0
              /\ ~HasKey(record'[v][i]) /\ record'[v][i].slot = 0
  <2>1. 1 \in Nat /\ 1 # 0
    OBVIOUS
  <2> QED
    BY <1>1, <1>10, <2>1, CatchAsItBegins DEF r
<1>11. CASE IsFree(c) /\ Take(c, <<v, i>>) /\ Fine /\ Become(v, i, has) /\ calls' = calls
  <2>1. Becomes(v, i, has, FALSE)
    BY <1>2, <1>5, <1>11, BecomeDoes
  <2>2. RecordMoves(v, i) /\ record'[v][i] = has
    <3>1. Begins(v, i) /\ UNCHANGED <<sub, now>> /\ ~has.fatal /\ has.pc # "queued" /\ Flags(has) /\ Faults(0)
      BY <1>1, <1>5, <1>8, <1>11 DEF Fine
    <3> QED
      BY <2>1, <3>1, BeginsMoves
  <2>3. TakesKey(v, i)
    BY <1>1, <1>2, <1>5, <1>8, <1>11, <2>2 DEF TakesKey
  <2>4. QueueMoves(v, i)
    BY <1>1, <1>8, <1>11, <2>2 DEF QueueMoves
  <2> QED
    BY <2>2, <2>3, <2>4 DEF RecordGoes, ClaimsMove
<1>12. CASE IsFree(c) /\ Take(c, <<v, i>>) /\ ((Faults(1) /\ Become(v, i, busy) /\ calls' = calls) \/ Catch(v, i, r, 1))
  <2>1. RecordMoves(v, i) /\ QueueMoves(v, i) /\ faults' # 0 /\ record'[v][i].slot = 0
    <3>1. 1 \in Nat /\ 1 # 0
      OBVIOUS
    <3> QED
      BY <1>9, <1>10, <1>12, <3>1
  <2>2. TakesKey(v, i)
    BY <1>1, <1>2, <1>12, <2>1 DEF TakesKey
  <2> QED
    BY <2>1, <2>2 DEF RecordGoes, ClaimsMove
<1>13. CASE claims' = claims /\ ((Fine /\ Become(v, i, busy) /\ calls' = calls) \/ Catch(v, i, r, 1))
  <2>1. RecordMoves(v, i) /\ QueueMoves(v, i) /\ ~HasKey(record'[v][i]) /\ record'[v][i].slot = 0
    BY <1>9, <1>10, <1>13 DEF Fine
  <2>2. LeavesClaims(v, i)
    BY <1>1, <1>13, <2>1, BegunRecord DEF LeavesClaims
  <2> QED
    BY <2>1, <2>2 DEF RecordGoes, ClaimsMove
<1>14. CASE ~IsFree(c) /\ claims[c].state # "running" /\ Fine /\ ToConsume(v, i, r) /\ claims' = claims
  BY <1>1, <1>14, ConsumeAsItBegins DEF r
<1> QED
  BY <1>1, <1>11, <1>12, <1>13, <1>14
\* A record that fails once it has its key keeps it or goes to give it back; its message stays unless a copy was sent.
LEMMA CatchWithKey ==
  ASSUME RuntimeInv, NEW v \in Invocations, NEW i, NEW pc \in {"slot", "slotCopy"}, At(v, i, pc),
         NEW r0, r0 = [record[v][i] EXCEPT !.tried = {}] \/ r0 = record[v][i],
         NEW n \in Nat, Catch(v, i, r0, n),
         UNCHANGED <<sub, now, ran>>, UNCHANGED <<sent, queue>> \/ Copies(v, i)
  PROVE  /\ RecordMoves(v, i) /\ QueueMoves(v, i) /\ (n # 0 => faults' # 0)
         /\ record'[v][i].slot = 0 /\ (HasKey(record'[v][i]) => HasKey(record[v][i]))
         /\ faults' = 0 /\ HasKey(record[v][i]) => HasKey(record'[v][i])
<1> DEFINE r == record[v][i]
<1>1. r \in Record /\ Sound(r) /\ Flags(r) /\ r.pc = pc
  BY AtRecord
<1>2. ~r.fatal /\ r.slot = 0 /\ ~r.handled /\ ~r.unknown /\ (HasKey(r) <=> r.claim)
  BY <1>1 DEF Flags, Sound, HasKey, KeyPlaces
<1>3. /\ r0 \in Record /\ r0.pc = r.pc /\ r0.claim = r.claim /\ r0.deferred = r.deferred /\ r0.handled = r.handled
      /\ r0.unknown = r.unknown /\ r0.slot = r.slot /\ r0.fatal = r.fatal /\ Sound(r0)
  <2>1. CASE r0 = record[v][i]
    BY <1>1, <2>1
  <2>2. CASE r0 = [record[v][i] EXCEPT !.tried = {}]
    BY <1>1, <2>2 DEF Record, Sound
  <2> QED
    BY <2>1, <2>2
<1> HIDE DEF r
<1>4. RecordMoves(v, i) /\ Catches(v, i, r0, n) /\ (n # 0 => faults' # 0)
  <2>1. pc \notin {"over", "consume", "free"} /\ pc # "ack" /\ pc # "queued" /\ ~r0.fatal
    BY <1>2, <1>3
  <2> QED
    BY <1>3, <2>1, CatchMoves
<1>5. LET r_ == record'[v][i] IN
      /\ r_.slot = 0 /\ (HasKey(r_) => HasKey(r)) /\ (faults' = 0 /\ HasKey(r) => HasKey(r_))
      /\ (Doomed(r_, calls'[v].failed) => r.deferred) /\ ~Done(r_)
      /\ faults' = 0 /\ DeleteEach(v) => r_.pc \notin {"free", "over"}
  BY <1>2, <1>3, <1>4 DEF Catches
<1>6. QueueMoves(v, i)
  BY <1>5 DEF QueueMoves, Doomed, r
<1> QED
  BY <1>4, <1>5, <1>6 DEF r

LEMMA TakeSlotGoes ==
  ASSUME RuntimeInv, NEW v \in Invocations, NEW i, NEW s \in Slots, TakeSlot(v, i, s)
  PROVE  RecordGoes(v, i)
<1> DEFINE r == record[v][i]
           c == SlotKey(MessageOf(v, i).tenant, s)
           tried == r.tried \cup {s}
           copy == [r EXCEPT !.pc = "slotCopy", !.tried = {}]
           on == [r EXCEPT !.tried = tried]
           has == [r EXCEPT !.pc = "handler", !.slot = s, !.tried = {}]
           r0 == [r EXCEPT !.tried = {}]
<1>1. /\ At(v, i, "slot") /\ UNCHANGED <<sub, now, sent, queue, ran>>
      /\ \/ /\ IsFree(c) /\ Take(c, <<v, i>>)
            /\ \/ Fine /\ Become(v, i, has) /\ calls' = calls
               \/ Faults(1) /\ (Become(v, i, copy) \/ Become(v, i, on)) /\ calls' = calls
               \/ Catch(v, i, r0, 1)
         \/ (Become(v, i, copy) \/ Become(v, i, on)) /\ calls' = calls /\ Fine /\ claims' = claims
         \/ Catch(v, i, r0, 1) /\ claims' = claims
  BY DEF TakeSlot
<1>2. TypeInv /\ SentInv /\ i \in DOMAIN calls[v].batch /\ sub.max \in Nat /\ r.pc = "slot" /\ r \in Record /\ Flags(r)
  BY <1>1, AtRecord, RuntimeConstants
<1>3. /\ ~r.fatal /\ r.slot = 0 /\ ~r.handled /\ ~r.unknown /\ (HasKey(r) <=> r.claim) /\ (r.handedBack => r.holdsGroup)
      /\ sub.max > 0 /\ (sub.idempotent <=> r.claim) /\ r.since <= now
  BY <1>2, RuntimeConstants DEF Flags, Sound, HasKey, KeyPlaces
<1>4. s \in Nat /\ s # 0
  BY <1>2 DEF Slots
<1>5. ASSUME NEW r_ \in {copy, on}
      PROVE  /\ r_ \in Record /\ r_.pc \in {"slotCopy", "slot"} /\ r_.slot = 0 /\ r_.claim = r.claim /\ r_.fatal = r.fatal
             /\ r_.handled = r.handled /\ r_.deferred = r.deferred /\ r_.unknown = r.unknown /\ r_.since = r.since
             /\ r_.handedBack = r.handedBack /\ r_.holdsGroup = r.holdsGroup
  <2>1. CASE r_ = copy
    BY <1>2, <1>3, <2>1 DEF Record, Places
  <2>2. CASE r_ = on
    <3>1. tried \in SUBSET Nat
      BY <1>2, <1>4 DEF Record
    <3> HIDE DEF tried
    <3> QED
      BY <1>2, <1>3, <2>2, <3>1 DEF Record
  <2> QED
    BY <2>1, <2>2
<1>6. /\ has \in Record /\ has.pc = "handler" /\ has.slot = s /\ has.claim = r.claim /\ has.fatal = r.fatal
      /\ has.handled = r.handled /\ has.deferred = r.deferred /\ has.unknown = r.unknown /\ has.since = r.since
      /\ has.handedBack = r.handedBack /\ has.holdsGroup = r.holdsGroup
  BY <1>2, <1>4 DEF Record, Places
<1> HIDE DEF copy, on, has, r, tried
<1>7. \A r_ \in {copy, on} :
        /\ Flags(r_) /\ (HasKey(r_) <=> HasKey(r)) /\ ~Done(r_) /\ r_.pc \notin {"queued", "free", "over"}
        /\ Doomed(r_, calls[v].failed) => Doomed(r, calls[v].failed)
  BY <1>3, <1>5 DEF Flags, Sound, HasKey, Done, Doomed, KeyPlaces
<1>8. /\ Flags(has) /\ (HasKey(has) <=> HasKey(r)) /\ ~Done(has) /\ has.pc \notin {"queued", "free", "over"}
      /\ Doomed(has, calls[v].failed) => Doomed(r, calls[v].failed)
  BY <1>3, <1>4, <1>6 DEF Flags, Sound, HasKey, Done, Doomed, KeyPlaces
<1>9. ASSUME NEW r_ \in Record, Flags(r_), ~r_.fatal, r_.pc \notin {"queued", "free", "over"}, ~Done(r_),
             Doomed(r_, calls[v].failed) => Doomed(r, calls[v].failed),
             Become(v, i, r_), calls' = calls, NEW n \in Nat, Faults(n)
      PROVE  RecordMoves(v, i) /\ QueueMoves(v, i) /\ (n # 0 => faults' # 0) /\ record'[v][i] = r_
  <2>1. Becomes(v, i, r_, FALSE)
    BY <1>2, <1>9, BecomeDoes
  <2>2. UNCHANGED <<sub, now>> /\ r_.pc # "queued" /\ At(v, i, "slot")
    BY <1>1, <1>9
  <2>3. RecordMoves(v, i) /\ record'[v][i] = r_ /\ (n # 0 => faults' # 0)
    BY <1>9, <2>1, <2>2, GoesOn
  <2> QED
    BY <1>1, <1>9, <2>3 DEF QueueMoves, r
<1>10. ASSUME Catch(v, i, r0, 1)
       PROVE  /\ RecordMoves(v, i) /\ QueueMoves(v, i) /\ faults' # 0
              /\ record'[v][i].slot = 0 /\ (HasKey(record'[v][i]) => HasKey(r))
  <2>1. 1 \in Nat /\ 1 # 0 /\ UNCHANGED <<sub, now, ran>> /\ UNCHANGED <<sent, queue>> /\ "slot" \in {"slot", "slotCopy"}
    BY <1>1
  <2> QED
    BY <1>1, <1>10, <2>1, CatchWithKey DEF r, r0
<1>11. CASE IsFree(c) /\ Take(c, <<v, i>>) /\ Fine /\ Become(v, i, has) /\ calls' = calls
  <2>1. RecordMoves(v, i) /\ QueueMoves(v, i) /\ record'[v][i] = has
    <3>1. 0 \in Nat /\ Faults(0) /\ ~has.fatal
      BY <1>3, <1>6, <1>11 DEF Fine
    <3> QED
      BY <1>6, <1>8, <1>9, <1>11, <3>1
  <2>2. TakesSlot(v, i, s)
    BY <1>2, <1>6, <1>8, <1>11, <2>1 DEF TakesSlot, r
  <2> QED
    BY <2>1, <2>2 DEF RecordGoes, ClaimsMove
<1>12. ASSUME NEW r_ \in {copy, on}, Become(v, i, r_), calls' = calls, NEW n \in Nat, Faults(n)
       PROVE  /\ RecordMoves(v, i) /\ QueueMoves(v, i) /\ (n # 0 => faults' # 0)
              /\ record'[v][i].slot = 0 /\ (HasKey(record'[v][i]) <=> HasKey(r))
  <2>1. r_ \in Record /\ Flags(r_) /\ ~r_.fatal /\ r_.pc \notin {"queued", "free", "over"} /\ ~Done(r_)
        /\ (Doomed(r_, calls[v].failed) => Doomed(r, calls[v].failed)) /\ r_.slot = 0 /\ (HasKey(r_) <=> HasKey(r))
    <3>1. r_ \in Record /\ ~r_.fatal /\ r_.slot = 0
      BY <1>3, <1>5
    <3> QED
      BY <1>7, <3>1
  <2> QED
    BY <1>9, <1>12, <2>1
<1>13. CASE IsFree(c) /\ Take(c, <<v, i>>) /\ (\/ Faults(1) /\ (Become(v, i, copy) \/ Become(v, i, on)) /\ calls' = calls
                                              \/ Catch(v, i, r0, 1))
  <2>1. RecordMoves(v, i) /\ QueueMoves(v, i) /\ faults' # 0 /\ record'[v][i].slot = 0
        /\ (HasKey(record'[v][i]) => HasKey(r))
    <3>1. 1 \in Nat /\ 1 # 0
      OBVIOUS
    <3> QED
      BY <1>10, <1>12, <1>13, <3>1
  <2>2. TakesSlot(v, i, s)
    BY <1>2, <1>13, <2>1 DEF TakesSlot, r
  <2> QED
    BY <2>1, <2>2 DEF RecordGoes, ClaimsMove
<1>14. CASE claims' = claims /\ (\/ (Become(v, i, copy) \/ Become(v, i, on)) /\ calls' = calls /\ Fine
                                 \/ Catch(v, i, r0, 1))
  <2>1. RecordMoves(v, i) /\ QueueMoves(v, i) /\ record'[v][i].slot = 0 /\ (HasKey(record'[v][i]) => HasKey(r))
        /\ (faults' = 0 /\ HasKey(r) => HasKey(record'[v][i]))
    BY <1>10, <1>12, <1>14 DEF Fine
  <2>2. LeavesClaims(v, i)
    BY <1>3, <1>14, <2>1 DEF LeavesClaims, r
  <2> QED
    BY <2>1, <2>2 DEF RecordGoes, ClaimsMove
<1> QED
  BY <1>1, <1>11, <1>13, <1>14
\* A record that leaves takes its flags along.
LEMMA LeaveMoves ==
  ASSUME RuntimeInv, NEW v \in Invocations, NEW i, NEW pc \in {"handler", "settle", "ack", "consume", "retry"}, At(v, i, pc),
         NEW r0 \in Record, Sound(r0), ~r0.fatal, Leave(v, i, r0), UNCHANGED <<sub, now>>, NEW n \in Nat, Faults(n)
  PROVE  LET r_ == record'[v][i] IN
         /\ RecordMoves(v, i) /\ (n # 0 => faults' # 0)
         /\ r_.pc \in {"free", "over"} /\ r_.slot = r0.slot /\ ~HasKey(r_) /\ r_.handedBack = r0.handedBack
         /\ (r_.deferred => r0.deferred) /\ (r_.handled => r0.handled /\ r_.deferred = r0.deferred)
<1>1. TypeInv /\ SentInv /\ i \in DOMAIN calls[v].batch /\ calls[v].is = "running" /\ record[v][i].pc = pc
      /\ faults \in Nat /\ sub.faults \in Nat
  BY AtRecord
<1>2. Becomes(v, i, Left(r0), FALSE)
  BY <1>1, LeaveDoes
<1> DEFINE r_ == Left(r0)
<1>3. /\ r_ \in Record /\ Flags(r_) /\ r_.pc \in {"free", "over"} /\ r_.slot = r0.slot /\ ~HasKey(r_)
      /\ r_.handedBack = r0.handedBack /\ ~r_.fatal
      /\ (r_.deferred => r0.deferred) /\ (r_.handled => r0.handled /\ r_.deferred = r0.deferred)
  BY <1>1, LeftIs
<1>4. faults' \in Nat /\ faults <= faults' /\ faults' <= sub.faults /\ (n # 0 => faults' # 0)
  BY <1>1 DEF Faults
<1> HIDE DEF r_
<1>5. record'[v][i] = r_
  BY <1>2 DEF Becomes, r_
<1>6. RecordMoves(v, i)
  BY <1>1, <1>2, <1>3, <1>4, <1>5 DEF RecordMoves, Becomes
<1> QED
  BY <1>3, <1>4, <1>5, <1>6

\* A record that did not run is consumed: a copy of its message was sent, or was by the step before.
LEMMA ConsumeMoves ==
  ASSUME RuntimeInv, NEW v \in Invocations, NEW i, NEW pc \in {"slotCopy", "unclaim", "keepUnknown"}, At(v, i, pc),
         ToConsume(v, i, record[v][i]), UNCHANGED <<sub, now, ran>>, NEW n \in Nat, Faults(n),
         Copies(v, i) \/ (UNCHANGED <<sent, queue>> /\ pc # "slotCopy")
  PROVE  LET r_ == record'[v][i] IN
         /\ RecordMoves(v, i) /\ QueueMoves(v, i) /\ (n # 0 => faults' # 0)
         /\ r_.pc \in {"consume", "free", "over"} /\ r_.slot = record[v][i].slot /\ ~HasKey(r_)
<1> DEFINE r == record[v][i]
           r_ == Consumed(v, r)
<1>1. TypeInv /\ SentInv /\ i \in DOMAIN calls[v].batch /\ r \in Record /\ Sound(r) /\ Flags(r) /\ r.pc = pc
  BY AtRecord
<1>2. ~r.handled /\ ~r.fatal
  BY <1>1 DEF Flags, Sound
<1>3. Becomes(v, i, r_, FALSE)
  BY <1>1, <1>2, ToConsumeDoes
<1>4. /\ r_ \in Record /\ Flags(r_) /\ r_.pc \in {"consume", "free", "over"} /\ r_.slot = r.slot /\ ~HasKey(r_)
      /\ ~r_.fatal /\ ~r_.handled /\ (DeleteEach(v) => r_.pc = "consume")
  BY <1>1, <1>2, ConsumedIs
<1> HIDE DEF r_
<1>5. RecordMoves(v, i) /\ record'[v][i] = r_ /\ (n # 0 => faults' # 0)
  <2>1. UNCHANGED <<sub, now>> /\ r_.pc # "queued" /\ ~r_.fatal /\ Flags(r_)
        /\ pc \in {"slot", "slotCopy", "handler", "settle", "unclaim", "keepUnknown", "failRelease", "retry"}
    BY <1>4
  <2> QED
    BY <1>3, <2>1, GoesOn
<1>6. Copies(v, i) \/ Doomed(r, calls[v].failed)
  BY <1>1 DEF Doomed
<1>7. QueueMoves(v, i)
  BY <1>4, <1>5, <1>6 DEF QueueMoves, Done
<1> QED
  BY <1>4, <1>5, <1>7

LEMMA WaitForSlotGoes ==
  ASSUME RuntimeInv, NEW v \in Invocations, NEW i, WaitForSlot(v, i)
  PROVE  RecordGoes(v, i)
<1> DEFINE r == record[v][i]
           unclaim == [r EXCEPT !.pc = "unclaim"]
<1>1. At(v, i, "slotCopy") /\ UNCHANGED <<sub, now, claims, ran>>
  BY DEF WaitForSlot
<1>2. TypeInv /\ SentInv /\ i \in DOMAIN calls[v].batch /\ r.pc = "slotCopy" /\ r \in Record /\ Flags(r)
  BY <1>1, AtRecord
<1>3. ~r.fatal /\ r.slot = 0 /\ ~r.handled /\ (HasKey(r) <=> r.claim) /\ sub.max > 0
  BY <1>2 DEF Flags, Sound, HasKey, KeyPlaces
<1>4. ~sub.fifo /\ SlotWait \in Nat /\ MaxDeferDelay \in Nat /\ EpochSeconds \in Nat /\ sub.max \in Nat
  BY <1>2, <1>3, RuntimeConstants
<1> DEFINE defers == MessageOf(v, i).defers + 0
           wait == IF SlotWait < MaxDeferDelay THEN SlotWait ELSE MaxDeferDelay
           until == IF SlotWait > wait THEN EpochSeconds + SlotWait ELSE 0
<1>5. defers \in Nat /\ wait \in Nat /\ until \in Nat
  BY <1>2, <1>4, MessageType
<1>6. \/ /\ MayDefer(defers) /\ SendCopy(v, i, wait, defers, until)
         /\ \/ Fine /\ r.claim /\ Become(v, i, unclaim) /\ calls' = calls
            \/ Fine /\ ~r.claim /\ ToConsume(v, i, r)
            \/ Catch(v, i, r, 1)
      \/ UNCHANGED <<sent, queue>> /\ (Catch(v, i, r, 1) \/ Catch(v, i, r, 0))
  BY DEF WaitForSlot, SendDeferredCopy
<1> HIDE DEF defers, wait, until
<1>7. \/ Copies(v, i) /\ \/ Fine /\ r.claim /\ Become(v, i, unclaim) /\ calls' = calls
                         \/ Fine /\ ~r.claim /\ ToConsume(v, i, r)
                         \/ Catch(v, i, r, 1)
      \/ UNCHANGED <<sent, queue>> /\ (Catch(v, i, r, 1) \/ Catch(v, i, r, 0))
  BY <1>2, <1>4, <1>5, <1>6, SendCopyDoes
<1>8. ASSUME NEW n \in Nat, Catch(v, i, r, n), UNCHANGED <<sent, queue>> \/ Copies(v, i)
      PROVE  RecordGoes(v, i)
  <2>1. UNCHANGED <<sub, now, ran>> /\ "slotCopy" \in {"slot", "slotCopy"}
    BY <1>1
  <2>2. /\ RecordMoves(v, i) /\ QueueMoves(v, i) /\ record'[v][i].slot = 0 /\ (HasKey(record'[v][i]) => HasKey(r))
        /\ faults' = 0 /\ HasKey(r) => HasKey(record'[v][i])
    BY <1>1, <1>8, <2>1, CatchWithKey
  <2>3. LeavesClaims(v, i)
    BY <1>1, <1>3, <2>2 DEF LeavesClaims
  <2> QED
    BY <2>2, <2>3 DEF RecordGoes, ClaimsMove
<1>9. CASE Copies(v, i) /\ Fine /\ r.claim /\ Become(v, i, unclaim) /\ calls' = calls
  <2>1. /\ unclaim \in Record /\ unclaim.pc = "unclaim" /\ unclaim.slot = 0 /\ unclaim.claim /\ ~unclaim.fatal
        /\ ~unclaim.handled /\ unclaim.since = r.since /\ unclaim.handedBack = r.handedBack
        /\ unclaim.holdsGroup = r.holdsGroup
    BY <1>2, <1>3, <1>9 DEF Record, Places
  <2>2. sub.idempotent /\ r.since <= now /\ (r.handedBack => r.holdsGroup)
    BY <1>2, <1>9 DEF Flags, Sound
  <2> HIDE DEF unclaim
  <2>3. Flags(unclaim) /\ HasKey(unclaim) /\ ~Done(unclaim)
    BY <2>1, <2>2 DEF Flags, Sound, HasKey, KeyPlaces, Done
  <2>4. Becomes(v, i, unclaim, FALSE)
    BY <1>2, <1>9, <2>1, BecomeDoes
  <2>5. RecordMoves(v, i) /\ record'[v][i] = unclaim
    <3>1. UNCHANGED <<sub, now>> /\ unclaim.pc # "queued" /\ ~unclaim.fatal /\ Flags(unclaim) /\ Faults(0)
          /\ At(v, i, "slotCopy")
      BY <1>1, <1>9, <2>1, <2>3 DEF Fine
    <3> QED
      BY <2>4, <3>1, GoesOn
  <2>6. LeavesClaims(v, i)
    BY <1>1, <1>3, <1>9, <2>1, <2>3, <2>5 DEF LeavesClaims
  <2>7. QueueMoves(v, i)
    BY <1>1, <1>9, <2>1, <2>3, <2>5 DEF QueueMoves
  <2> QED
    BY <2>5, <2>6, <2>7 DEF RecordGoes, ClaimsMove
<1>10. CASE Copies(v, i) /\ Fine /\ ~r.claim /\ ToConsume(v, i, r)
  <2>1. UNCHANGED <<sub, now, ran>> /\ "slotCopy" \in {"slotCopy", "unclaim", "keepUnknown"} /\ Faults(0) /\ 0 \in Nat
    BY <1>1, <1>10 DEF Fine
  <2>2. RecordMoves(v, i) /\ QueueMoves(v, i) /\ record'[v][i].slot = r.slot /\ ~HasKey(record'[v][i])
    BY <1>1, <1>10, <2>1, ConsumeMoves
  <2>3. LeavesClaims(v, i)
    BY <1>1, <1>3, <1>10, <2>2 DEF LeavesClaims
  <2> QED
    BY <2>2, <2>3 DEF RecordGoes, ClaimsMove
<1> QED
  BY <1>7, <1>8, <1>9, <1>10

LEMMA UnclaimGoes ==
  ASSUME RuntimeInv, NEW v \in Invocations, NEW i, Unclaim(v, i)
  PROVE  RecordGoes(v, i)
<1> DEFINE r == record[v][i]
<1>1. /\ At(v, i, "unclaim") /\ UNCHANGED <<sub, now, sent, queue, ran>> /\ ToConsume(v, i, r)
      /\ \/ Faults(0) /\ Release(ClaimOf(v, i), <<v, i>>)
         \/ Faults(1) /\ claims' = claims
  BY DEF Unclaim, Logged
<1>2. r.pc = "unclaim" /\ Flags(r)
  BY <1>1, AtRecord
<1>3. HasKey(r)
  BY <1>2 DEF Flags, Sound, HasKey, KeyPlaces
<1>4. ASSUME NEW n \in Nat, Faults(n)
      PROVE  /\ RecordMoves(v, i) /\ QueueMoves(v, i) /\ (n # 0 => faults' # 0)
             /\ record'[v][i].slot = r.slot /\ ~HasKey(record'[v][i])
  <2>1. UNCHANGED <<sub, now, ran>> /\ UNCHANGED <<sent, queue>> /\ "unclaim" # "slotCopy"
        /\ "unclaim" \in {"slotCopy", "unclaim", "keepUnknown"}
    BY <1>1
  <2> QED
    BY <1>1, <1>4, <2>1, ConsumeMoves
<1>5. 0 \in Nat /\ 1 \in Nat /\ 1 # 0
  OBVIOUS
<1>6. CASE Faults(0) /\ Release(ClaimOf(v, i), <<v, i>>)
  BY <1>3, <1>4, <1>5, <1>6 DEF RecordGoes, ClaimsMove, SettlesKey
<1>7. CASE Faults(1) /\ claims' = claims
  BY <1>3, <1>4, <1>5, <1>7 DEF RecordGoes, ClaimsMove, LeavesClaims
<1> QED
  BY <1>1, <1>6, <1>7

LEMMA KeepUnknownGoes ==
  ASSUME RuntimeInv, NEW v \in Invocations, NEW i, KeepUnknown(v, i)
  PROVE  RecordGoes(v, i)
<1> DEFINE r == record[v][i]
<1>1. /\ At(v, i, "keepUnknown") /\ UNCHANGED <<sub, now, sent, queue, ran>> /\ ToConsume(v, i, r)
      /\ \/ Faults(0) /\ Keep(ClaimOf(v, i), <<v, i>>, "unknown")
         \/ Faults(1) /\ claims' = claims
  BY DEF KeepUnknown, Logged
<1>2. r.pc = "keepUnknown" /\ Flags(r)
  BY <1>1, AtRecord
<1>3. HasKey(r) /\ Done(r)
  BY <1>2 DEF Flags, Sound, HasKey, KeyPlaces, Done
<1>4. ASSUME NEW n \in Nat, Faults(n)
      PROVE  /\ RecordMoves(v, i) /\ QueueMoves(v, i) /\ (n # 0 => faults' # 0)
             /\ record'[v][i].slot = r.slot /\ ~HasKey(record'[v][i]) /\ record'[v][i].pc \in {"consume", "free", "over"}
  <2>1. UNCHANGED <<sub, now, ran>> /\ UNCHANGED <<sent, queue>> /\ "keepUnknown" # "slotCopy"
        /\ "keepUnknown" \in {"slotCopy", "unclaim", "keepUnknown"}
    BY <1>1
  <2> QED
    BY <1>1, <1>4, <2>1, ConsumeMoves
<1>5. 0 \in Nat /\ 1 \in Nat /\ 1 # 0
  OBVIOUS
<1>6. CASE Faults(0) /\ Keep(ClaimOf(v, i), <<v, i>>, "unknown")
  BY <1>3, <1>4, <1>5, <1>6 DEF RecordGoes, ClaimsMove, SettlesKey
<1>7. CASE Faults(1) /\ claims' = claims
  BY <1>3, <1>4, <1>5, <1>7 DEF RecordGoes, ClaimsMove, LeavesClaims
<1> QED
  BY <1>1, <1>6, <1>7
\* DeleteMessage or a request that changes when the message is visible, done or failed.
LEMMA ConsumeGoes ==
  ASSUME RuntimeInv, NEW v \in Invocations, NEW i, Consume(v, i)
  PROVE  RecordGoes(v, i)
<1> DEFINE r == record[v][i]
<1>1. /\ At(v, i, "consume") /\ UNCHANGED <<sub, now, sent, claims, ran>> /\ Leave(v, i, r)
      /\ (Faults(0) /\ Delete(v, i)) \/ (Faults(1) /\ queue' = queue)
  BY DEF Consume, Logged
<1>2. r.pc = "consume" /\ Flags(r) /\ r \in Record /\ Sound(r)
  BY <1>1, AtRecord
<1>3. ~HasKey(r) /\ ~r.handled /\ ~r.fatal /\ Doomed(r, calls[v].failed)
  BY <1>2 DEF Flags, Sound, HasKey, KeyPlaces, Doomed
<1>4. ASSUME NEW n \in Nat, Faults(n)
      PROVE  LET r_ == record'[v][i] IN
             /\ RecordMoves(v, i) /\ (n # 0 => faults' # 0) /\ r_.pc \in {"free", "over"} /\ r_.slot = r.slot /\ ~HasKey(r_)
             /\ ~r_.handled
  <2>1. UNCHANGED <<sub, now>> /\ "consume" \in {"handler", "settle", "ack", "consume", "retry"}
    BY <1>1
  <2> QED
    BY <1>1, <1>2, <1>3, <1>4, <2>1, LeaveMoves
<1>5. 0 \in Nat /\ 1 \in Nat /\ 1 # 0
  OBVIOUS
<1>6. RecordMoves(v, i) /\ record'[v][i].slot = r.slot /\ ~HasKey(record'[v][i]) /\ ~Done(record'[v][i])
  BY <1>1, <1>4, <1>5 DEF Done
<1>7. LeavesClaims(v, i)
  BY <1>1, <1>3, <1>6 DEF LeavesClaims
<1>8. QueueMoves(v, i)
  BY <1>1, <1>3, <1>4, <1>5, <1>6 DEF QueueMoves, Deletes
<1> QED
  BY <1>6, <1>7, <1>8 DEF RecordGoes, ClaimsMove

LEMMA RetryMessageGoes ==
  ASSUME RuntimeInv, NEW v \in Invocations, NEW i, NEW d \in RetryDelays, RetryMessage(v, i, d)
  PROVE  RecordGoes(v, i)
<1> DEFINE r == record[v][i]
<1>1. /\ At(v, i, "retry") /\ UNCHANGED <<sub, now, sent, claims, ran>> /\ Leave(v, i, r)
      /\ (Faults(0) /\ ChangeVisibility(v, i, d)) \/ (Faults(1) /\ queue' = queue)
  BY DEF RetryMessage, Logged
<1>2. r.pc = "retry" /\ Flags(r) /\ r \in Record /\ Sound(r)
  BY <1>1, AtRecord
<1>3. ~HasKey(r) /\ ~r.handled /\ ~r.fatal /\ r.handedBack
  BY <1>2 DEF Flags, Sound, HasKey, KeyPlaces
<1>4. ASSUME NEW n \in Nat, Faults(n)
      PROVE  LET r_ == record'[v][i] IN
             /\ RecordMoves(v, i) /\ r_.slot = r.slot /\ ~HasKey(r_) /\ r_.pc \in {"free", "over"}
             /\ ~r_.handled /\ r_.handedBack /\ (r_.deferred => r.deferred)
  <2>1. UNCHANGED <<sub, now>> /\ "retry" \in {"handler", "settle", "ack", "consume", "retry"}
    BY <1>1
  <2> QED
    BY <1>1, <1>2, <1>3, <1>4, <2>1, LeaveMoves
<1>5. 0 \in Nat /\ 1 \in Nat /\ d \in Nat
  BY RuntimeAssumption
<1>6. LET r_ == record'[v][i] IN
      /\ RecordMoves(v, i) /\ r_.slot = r.slot /\ ~HasKey(r_) /\ ~Done(r_) /\ r_.handedBack
      /\ Doomed(r_, calls'[v].failed) => Doomed(r, calls[v].failed)
  BY <1>1, <1>4, <1>5 DEF Done, Doomed
<1>7. LeavesClaims(v, i)
  BY <1>1, <1>3, <1>6 DEF LeavesClaims
<1>8. UNCHANGED <<sent, queue>> \/ Shows(v, i)
  BY <1>1, <1>5 DEF Shows
<1>9. QueueMoves(v, i)
  BY <1>1, <1>6, <1>8 DEF QueueMoves
<1> QED
  BY <1>6, <1>7, <1>9 DEF RecordGoes, ClaimsMove

LEMMA HandlerRetriesGoes ==
  ASSUME RuntimeInv, NEW v \in Invocations, NEW i, NEW d \in RetryDelays, HandlerRetries(v, i, d)
  PROVE  RecordGoes(v, i)
<1> DEFINE r == record[v][i]
           r_ == [r EXCEPT !.handedBack = TRUE, !.holdsGroup = TRUE]
<1>1. /\ At(v, i, "handler") /\ UNCHANGED <<sub, now, sent, claims, calls, ran>> /\ Become(v, i, r_) /\ ~r.deferred
      /\ (Faults(0) /\ ChangeVisibility(v, i, d)) \/ (Faults(1) /\ queue' = queue)
  BY DEF HandlerRetries, Logged
<1>2. r.pc = "handler" /\ Flags(r) /\ r \in Record /\ TypeInv /\ i \in DOMAIN calls[v].batch
  BY <1>1, AtRecord
<1>3. ~r.handled /\ ~r.fatal /\ ~r.unknown
  BY <1>2 DEF Flags
<1>4. /\ r_ \in Record /\ r_.pc = "handler" /\ r_.slot = r.slot /\ r_.claim = r.claim /\ ~r_.fatal /\ ~r_.handled
      /\ ~r_.unknown /\ ~r_.deferred /\ r_.since = r.since /\ r_.handedBack /\ r_.holdsGroup
  BY <1>1, <1>2, <1>3 DEF Record
<1> HIDE DEF r_
<1>5. Flags(r_) /\ (HasKey(r_) <=> HasKey(r)) /\ ~Done(r_) /\ ~Doomed(r_, calls[v].failed)
  BY <1>2, <1>4 DEF Flags, Sound, HasKey, KeyPlaces, Done, Doomed
<1>6. RecordMoves(v, i) /\ record'[v][i] = r_
  <2>1. Becomes(v, i, r_, FALSE)
    BY <1>1, <1>2, <1>4, BecomeDoes
  <2>2. UNCHANGED <<sub, now>> /\ r_.pc # "queued" /\ ~r_.fatal /\ Flags(r_) /\ At(v, i, "handler")
    BY <1>1, <1>4, <1>5
  <2>3. \E n \in Nat : Faults(n)
    BY <1>1
  <2> QED
    BY <2>1, <2>2, <2>3, GoesOn
<1>7. LeavesClaims(v, i)
  BY <1>1, <1>4, <1>5, <1>6 DEF LeavesClaims
<1>8. d \in Nat
  BY RuntimeAssumption
<1>9. UNCHANGED <<sent, queue>> \/ Shows(v, i)
  BY <1>1, <1>8 DEF Shows
<1>10. QueueMoves(v, i)
  BY <1>1, <1>4, <1>5, <1>6, <1>9 DEF QueueMoves
<1> QED
  BY <1>6, <1>7, <1>10 DEF RecordGoes, ClaimsMove

LEMMA HandlerDefersGoes ==
  ASSUME RuntimeInv, NEW v \in Invocations, NEW i, NEW d \in DeferDelays, HandlerDefers(v, i, d)
  PROVE  RecordGoes(v, i)
<1> DEFINE r == record[v][i]
           r_ == [r EXCEPT !.deferred = TRUE]
<1>1. At(v, i, "handler") /\ UNCHANGED <<sub, now, claims, ran>> /\ MessageOf(v, i).group = NoGroup /\ ~r.handedBack
  BY DEF HandlerDefers
<1>2. r.pc = "handler" /\ Flags(r) /\ r \in Record /\ TypeInv /\ SentInv /\ i \in DOMAIN calls[v].batch
  BY <1>1, AtRecord
<1>3. ~r.handled /\ ~r.fatal /\ ~r.unknown
  BY <1>2 DEF Flags
<1>4. ~sub.fifo /\ d \in Nat /\ MaxDeferDelay \in Nat /\ EpochSeconds \in Nat
  BY <1>1, <1>2, MessageType, RuntimeConstants, RuntimeAssumption
<1> DEFINE defers == MessageOf(v, i).defers + 1
           wait == IF d < MaxDeferDelay THEN d ELSE MaxDeferDelay
           until == IF d > wait THEN EpochSeconds + d ELSE 0
<1>5. defers \in Nat /\ wait \in Nat /\ until \in Nat
  BY <1>2, <1>4, MessageType
<1>6. \/ /\ MayDefer(defers) /\ SendCopy(v, i, wait, defers, until)
         /\ \/ Fine /\ Become(v, i, r_) /\ calls' = calls
            \/ Faults(1) /\ UNCHANGED <<record, calls>>
      \/ UNCHANGED <<sent, queue>> /\ (Faults(1) \/ Faults(0)) /\ UNCHANGED <<record, calls>>
  BY DEF HandlerDefers, SendDeferredCopy
<1> HIDE DEF defers, wait, until
<1>7. \/ Copies(v, i) /\ \/ Fine /\ Become(v, i, r_) /\ calls' = calls
                         \/ Faults(1) /\ UNCHANGED <<record, calls>>
      \/ UNCHANGED <<sent, queue>> /\ (Faults(1) \/ Faults(0)) /\ UNCHANGED <<record, calls>>
  BY <1>2, <1>4, <1>5, <1>6, SendCopyDoes
<1>8. CASE Copies(v, i) /\ Fine /\ Become(v, i, r_) /\ calls' = calls
  <2>1. /\ r_ \in Record /\ r_.pc = "handler" /\ r_.slot = r.slot /\ r_.claim = r.claim /\ ~r_.fatal /\ ~r_.handled
        /\ ~r_.unknown /\ r_.since = r.since /\ r_.handedBack = r.handedBack /\ r_.holdsGroup = r.holdsGroup
    BY <1>2, <1>3 DEF Record
  <2> HIDE DEF r_
  <2>2. Flags(r_) /\ (HasKey(r_) <=> HasKey(r)) /\ ~Done(r_)
    BY <1>2, <2>1 DEF Flags, Sound, HasKey, KeyPlaces, Done
  <2>3. Becomes(v, i, r_, FALSE)
    BY <1>2, <1>8, <2>1, BecomeDoes
  <2>4. RecordMoves(v, i) /\ record'[v][i] = r_
    <3>1. UNCHANGED <<sub, now>> /\ r_.pc # "queued" /\ ~r_.fatal /\ Flags(r_) /\ At(v, i, "handler") /\ Faults(0)
      BY <1>1, <1>8, <2>1, <2>2 DEF Fine
    <3> QED
      BY <2>3, <3>1, GoesOn
  <2>5. LeavesClaims(v, i)
    BY <1>1, <2>1, <2>2, <2>4 DEF LeavesClaims
  <2>6. QueueMoves(v, i)
    BY <1>1, <1>8, <2>1, <2>2, <2>4 DEF QueueMoves
  <2> QED
    BY <2>4, <2>5, <2>6 DEF RecordGoes, ClaimsMove
<1>9. CASE UNCHANGED <<record, calls>> /\ (Faults(1) \/ Faults(0)) /\ (Copies(v, i) \/ UNCHANGED <<sent, queue>>)
  <2>1. Becomes(v, i, r, FALSE)
    BY <1>2, <1>9 DEF Becomes, Goes, TypeInv, CallInv
  <2>2. RecordMoves(v, i) /\ record'[v][i] = r
    <3>1. UNCHANGED <<sub, now>> /\ r.pc # "queued" /\ ~r.fatal /\ Flags(r) /\ At(v, i, "handler")
      BY <1>1, <1>2, <1>3
    <3>2. \E n \in Nat : Faults(n)
      BY <1>9
    <3> HIDE DEF r
    <3> QED
      BY <2>1, <3>1, <3>2, GoesOn
  <2>3. LeavesClaims(v, i)
    BY <1>1, <2>2 DEF LeavesClaims
  <2>4. QueueMoves(v, i)
    BY <1>1, <1>2, <1>9, <2>2 DEF QueueMoves
  <2> QED
    BY <2>2, <2>3, <2>4 DEF RecordGoes, ClaimsMove
<1> QED
  BY <1>7, <1>8, <1>9
LEMMA HandlerThrowsGoes ==
  ASSUME RuntimeInv, NEW v \in Invocations, NEW i, NEW unknown \in BOOLEAN, HandlerThrows(v, i, unknown)
  PROVE  RecordGoes(v, i)
<1> DEFINE r == record[v][i]
           r0 == [r EXCEPT !.unknown = unknown]
           origin == MessageOf(v, i).origin
<1>1. /\ At(v, i, "handler") /\ UNCHANGED <<sub, now, sent, queue, claims>> /\ Catch(v, i, r0, 0)
      /\ ran' = IF unknown /\ r0.claim /\ ~r0.deferred THEN ran \cup {origin} ELSE ran
  BY DEF HandlerThrows
<1>2. r.pc = "handler" /\ Flags(r) /\ Sound(r) /\ r \in Record
  BY <1>1, AtRecord
<1>3. ~r.handled /\ ~r.fatal /\ ~r.unknown /\ (HasKey(r) <=> r.claim)
  BY <1>2 DEF Flags, HasKey, KeyPlaces
<1>4. /\ r0 \in Record /\ r0.pc = "handler" /\ r0.claim = r.claim /\ r0.deferred = r.deferred /\ ~r0.handled /\ ~r0.fatal
      /\ r0.unknown = unknown /\ r0.slot = r.slot /\ r0.since = r.since /\ r0.handedBack = r.handedBack
      /\ r0.holdsGroup = r.holdsGroup
  BY <1>2, <1>3 DEF Record
<1> HIDE DEF r0
<1>5. Sound(r0)
  BY <1>2, <1>4 DEF Sound
<1>6. RecordMoves(v, i) /\ Catches(v, i, r0, 0)
  <2>1. UNCHANGED <<sub, now>> /\ "handler" \notin {"over", "consume", "free"} /\ "handler" # "ack"
        /\ "handler" # "queued" /\ 0 \in Nat
    BY <1>1
  <2> QED
    BY <1>1, <1>4, <1>5, <2>1, CatchMoves
<1>7. LET r_ == record'[v][i] IN
      /\ r_.slot = r.slot /\ (HasKey(r_) => HasKey(r)) /\ (faults' = 0 /\ HasKey(r) => HasKey(r_))
      /\ Doomed(r_, calls'[v].failed) => r.deferred \/ r_.pc = "keepUnknown"
      /\ Done(r_) => r_.pc = "keepUnknown"
      /\ r_.pc = "keepUnknown" => unknown /\ r0.claim /\ ~r0.deferred
      /\ faults' = 0 /\ DeleteEach(v) => r_.pc \notin {"free", "over"}
  BY <1>3, <1>4, <1>6 DEF Catches
<1>8. LET r_ == record'[v][i] IN r_.pc = "keepUnknown" => origin \in ran'
  BY <1>1, <1>7
<1>9. LeavesClaims(v, i)
  BY <1>1, <1>7 DEF LeavesClaims
<1>10. QueueMoves(v, i)
  BY <1>1, <1>7, <1>8 DEF QueueMoves, Doomed
<1> QED
  BY <1>6, <1>9, <1>10 DEF RecordGoes, ClaimsMove

\* After its handler a record is over, unless it acknowledges its message first.
Finishes(v, i, r0, n) ==
  LET r_ == record'[v][i] IN
  /\ RecordMoves(v, i) /\ (n # 0 => faults' # 0)
  /\ r_.pc \in {"ack", "free", "over"} /\ r_.slot = r0.slot /\ ~HasKey(r_)
  /\ Doomed(r_, calls'[v].failed) => ~r0.handedBack \/ r0.deferred
  /\ Done(r_) => ~r0.handedBack /\ ~r0.deferred

LEMMA OnDoneDoes ==
  ASSUME RuntimeInv, NEW v \in Invocations, NEW i, NEW pc \in {"handler", "settle", "ack"}, At(v, i, pc),
         NEW r0 \in Record, Sound(r0), r0.handled, ~r0.fatal, NEW n \in Nat, OnDone(v, i, r0, n), UNCHANGED <<sub, now>>
  PROVE  /\ Finishes(v, i, r0, n)
         /\ record'[v][i].pc \in {"free", "over"}
         /\ faults' = 0 => record'[v][i].handedBack = r0.handedBack
<1>1. CASE Faults(n) /\ Leave(v, i, r0)
  <2>1. pc \in {"handler", "settle", "ack", "consume", "retry"}
    OBVIOUS
  <2>2. LET r_ == record'[v][i] IN
        /\ RecordMoves(v, i) /\ (n # 0 => faults' # 0)
        /\ r_.pc \in {"free", "over"} /\ r_.slot = r0.slot /\ ~HasKey(r_) /\ r_.handedBack = r0.handedBack
        /\ (r_.deferred => r0.deferred) /\ (r_.handled => r0.handled /\ r_.deferred = r0.deferred)
    BY <1>1, <2>1, LeaveMoves
  <2> QED
    BY <2>2 DEF Finishes, Doomed, Done
<1>2. CASE Catch(v, i, r0, n + 1)
  <2>1. n + 1 \in Nat /\ n + 1 # 0 /\ pc \notin {"over", "consume", "free"} /\ pc # "queued"
    OBVIOUS
  <2>2. RecordMoves(v, i) /\ Catches(v, i, r0, n + 1) /\ faults' # 0
    BY <1>2, <2>1, CatchMoves
  <2>3. record'[v][i].pc \in {"free", "over"} /\ record'[v][i].slot = r0.slot
    BY <2>2 DEF Catches
  <2>4. ~HasKey(record'[v][i])
    BY <2>3 DEF HasKey, KeyPlaces
  <2> QED
    BY <2>2, <2>3, <2>4 DEF Finishes, Catches
<1> QED
  BY <1>1, <1>2 DEF OnDone

LEMMA AfterSettleDoes ==
  ASSUME RuntimeInv, NEW v \in Invocations, NEW i, NEW pc \in {"handler", "settle"}, At(v, i, pc),
         NEW r0 \in Record, Sound(r0), r0.handled, ~r0.fatal, NEW n \in Nat, AfterSettle(v, i, r0, n), UNCHANGED <<sub, now>>
  PROVE  /\ Finishes(v, i, r0, n)
         /\ LET r_ == record'[v][i] IN
            faults' = 0 /\ DeleteEach(v) /\ r_.pc \in {"free", "over"} => r_.handedBack
<1> DEFINE ack == [r0 EXCEPT !.pc = "ack"]
<1>1. CASE DeleteEach(v) /\ ~r0.handedBack /\ Faults(n) /\ Become(v, i, ack) /\ calls' = calls
  <2>1. TypeInv /\ i \in DOMAIN calls[v].batch
    BY AtRecord
  <2>2. /\ ack \in Record /\ ack.pc = "ack" /\ ack.claim = r0.claim /\ ack.deferred = r0.deferred /\ ack.handled /\ ~ack.fatal
        /\ ack.unknown = r0.unknown /\ ack.slot = r0.slot /\ ack.since = r0.since /\ ~ack.handedBack
    BY <1>1 DEF Record, Places
  <2> HIDE DEF ack
  <2>3. Flags(ack) /\ ~HasKey(ack)
    BY <2>2 DEF Flags, Sound, HasKey, KeyPlaces
  <2>4. Becomes(v, i, ack, FALSE)
    BY <1>1, <2>1, <2>2, BecomeDoes
  <2>5. RecordMoves(v, i) /\ record'[v][i] = ack /\ (n # 0 => faults' # 0)
    <3>1. UNCHANGED <<sub, now>> /\ ack.pc # "queued" /\ ~ack.fatal /\ Flags(ack) /\ Faults(n)
          /\ pc \in {"slot", "slotCopy", "handler", "settle", "unclaim", "keepUnknown", "failRelease", "retry"}
      BY <1>1, <2>2, <2>3
    <3> QED
      BY <2>4, <3>1, GoesOn
  <2> QED
    BY <1>1, <2>2, <2>3, <2>5 DEF Finishes, Done
<1>2. CASE ~(DeleteEach(v) /\ ~r0.handedBack) /\ OnDone(v, i, r0, n)
  <2>1. pc \in {"handler", "settle", "ack"}
    OBVIOUS
  <2> QED
    BY <1>2, <2>1, OnDoneDoes
<1> QED
  BY <1>1, <1>2 DEF AfterSettle

LEMMA HandlerEndsGoes ==
  ASSUME RuntimeInv, NEW v \in Invocations, NEW i, HandlerEnds(v, i)
  PROVE  RecordGoes(v, i)
<1> DEFINE r == record[v][i]
           r0 == [r EXCEPT !.handled = TRUE]
           settle == [r0 EXCEPT !.pc = "settle"]
           origin == MessageOf(v, i).origin
<1>1. /\ At(v, i, "handler") /\ UNCHANGED <<sub, now, sent, queue, claims>>
      /\ \/ r0.claim /\ Fine /\ Become(v, i, settle) /\ calls' = calls
         \/ ~r0.claim /\ AfterSettle(v, i, r0, 0)
      /\ ran' = IF r0.handedBack \/ r0.deferred THEN ran ELSE ran \cup {origin}
  BY DEF HandlerEnds
<1>2. r.pc = "handler" /\ Flags(r) /\ Sound(r) /\ r \in Record /\ TypeInv /\ i \in DOMAIN calls[v].batch
  BY <1>1, AtRecord
<1>3. ~r.handled /\ ~r.fatal /\ (HasKey(r) <=> r.claim)
  BY <1>2 DEF Flags, HasKey, KeyPlaces
<1>4. /\ r0 \in Record /\ r0.pc = "handler" /\ r0.claim = r.claim /\ r0.deferred = r.deferred /\ r0.handled /\ ~r0.fatal
      /\ r0.unknown = r.unknown /\ r0.slot = r.slot /\ r0.since = r.since /\ r0.handedBack = r.handedBack
      /\ r0.holdsGroup = r.holdsGroup
  BY <1>2, <1>3 DEF Record
<1>5. /\ settle \in Record /\ settle.pc = "settle" /\ settle.claim = r.claim /\ settle.deferred = r.deferred /\ settle.handled
      /\ ~settle.fatal /\ settle.slot = r.slot /\ settle.since = r.since /\ settle.handedBack = r.handedBack
      /\ settle.holdsGroup = r.holdsGroup
  BY <1>2, <1>3 DEF Record, Places
<1> HIDE DEF r0, settle
<1>6. Sound(r0)
  BY <1>2, <1>4 DEF Sound
<1>7. \/ r.deferred /\ Doomed(r, calls[v].failed)
      \/ r.handedBack /\ ~r.deferred
      \/ ~r.handedBack /\ ~r.deferred /\ origin \in ran'
  BY <1>1, <1>4 DEF Doomed
<1>8. CASE r0.claim /\ Fine /\ Become(v, i, settle) /\ calls' = calls
  <2>1. Flags(settle) /\ HasKey(settle)
    BY <1>2, <1>4, <1>5, <1>8 DEF Flags, Sound, HasKey, KeyPlaces
  <2>2. Becomes(v, i, settle, FALSE)
    BY <1>2, <1>5, <1>8, BecomeDoes
  <2>3. RecordMoves(v, i) /\ record'[v][i] = settle
    <3>1. UNCHANGED <<sub, now>> /\ settle.pc # "queued" /\ ~settle.fatal /\ Flags(settle) /\ Faults(0) /\ At(v, i, "handler")
      BY <1>1, <1>5, <1>8, <2>1 DEF Fine
    <3> QED
      BY <2>2, <3>1, GoesOn
  <2>4. LeavesClaims(v, i)
    BY <1>1, <1>3, <1>4, <1>5, <1>8, <2>1, <2>3 DEF LeavesClaims
  <2>5. /\ Doomed(settle, calls'[v].failed) => r.deferred \/ ~r.handedBack
        /\ Done(settle) => ~r.handedBack /\ ~r.deferred
    BY <1>5 DEF Doomed, Done
  <2>6. QueueMoves(v, i)
    BY <1>1, <1>5, <1>7, <2>3, <2>5 DEF QueueMoves
  <2> QED
    BY <2>3, <2>4, <2>6 DEF RecordGoes, ClaimsMove
<1>9. CASE ~r0.claim /\ AfterSettle(v, i, r0, 0)
  <2>1. UNCHANGED <<sub, now>> /\ 0 \in Nat /\ "handler" \in {"handler", "settle"}
    BY <1>1
  <2>2. /\ Finishes(v, i, r0, 0)
        /\ faults' = 0 /\ DeleteEach(v) /\ record'[v][i].pc \in {"free", "over"} => record'[v][i].handedBack
    BY <1>1, <1>4, <1>6, <1>9, <2>1, AfterSettleDoes
  <2>3. LET r_ == record'[v][i] IN
        /\ RecordMoves(v, i) /\ r_.slot = r.slot /\ ~HasKey(r_)
        /\ Doomed(r_, calls'[v].failed) => r.deferred \/ ~r.handedBack
        /\ Done(r_) => ~r.handedBack /\ ~r.deferred
    BY <1>4, <2>2 DEF Finishes
  <2>4. LeavesClaims(v, i)
    BY <1>1, <1>3, <1>4, <1>9, <2>3 DEF LeavesClaims
  <2>5. QueueMoves(v, i)
    BY <1>1, <1>7, <2>2, <2>3 DEF QueueMoves
  <2> QED
    BY <2>3, <2>4, <2>5 DEF RecordGoes, ClaimsMove
<1> QED
  BY <1>1, <1>8, <1>9

LEMMA SettleGoes ==
  ASSUME RuntimeInv, NEW v \in Invocations, NEW i, Settle(v, i)
  PROVE  RecordGoes(v, i)
<1> DEFINE r == record[v][i]
<1>1. /\ At(v, i, "settle") /\ UNCHANGED <<sub, now, sent, queue, ran>>
      /\ \/ (r.handedBack \/ r.deferred) /\ Release(ClaimOf(v, i), <<v, i>>) /\ AfterSettle(v, i, r, 0)
         \/ ~(r.handedBack \/ r.deferred) /\ Keep(ClaimOf(v, i), <<v, i>>, "done") /\ AfterSettle(v, i, r, 0)
         \/ claims' = claims /\ AfterSettle(v, i, r, 1)
  BY DEF Settle, Logged
<1>2. r.pc = "settle" /\ Flags(r) /\ Sound(r) /\ r \in Record
  BY <1>1, AtRecord
<1>3. r.handled /\ ~r.fatal /\ HasKey(r)
  BY <1>2 DEF Flags, Sound, HasKey, KeyPlaces
<1>4. ASSUME NEW n \in Nat, AfterSettle(v, i, r, n)
      PROVE  /\ Finishes(v, i, r, n)
             /\ faults' = 0 /\ DeleteEach(v) /\ record'[v][i].pc \in {"free", "over"} => record'[v][i].handedBack
  <2>1. UNCHANGED <<sub, now>> /\ "settle" \in {"handler", "settle"}
    BY <1>1
  <2> QED
    BY <1>1, <1>2, <1>3, <1>4, <2>1, AfterSettleDoes
<1>5. 0 \in Nat /\ 1 \in Nat /\ 1 # 0
  OBVIOUS
<1>6. LET r_ == record'[v][i] IN
      /\ RecordMoves(v, i) /\ r_.slot = r.slot /\ ~HasKey(r_) /\ r_.pc \in {"ack", "free", "over"}
      /\ Doomed(r_, calls'[v].failed) => ~r.handedBack \/ r.deferred
      /\ Done(r_) => ~r.handedBack /\ ~r.deferred
      /\ faults' = 0 /\ DeleteEach(v) /\ r_.pc \in {"free", "over"} => r_.handedBack
  BY <1>1, <1>4, <1>5 DEF Finishes
<1>7. ClaimsMove(v, i)
  <2>1. CASE (r.handedBack \/ r.deferred) /\ Release(ClaimOf(v, i), <<v, i>>)
    BY <1>3, <1>6, <2>1 DEF ClaimsMove, SettlesKey
  <2>2. CASE ~(r.handedBack \/ r.deferred) /\ Keep(ClaimOf(v, i), <<v, i>>, "done")
    BY <1>3, <1>6, <2>2 DEF ClaimsMove, SettlesKey, Done
  <2>3. CASE claims' = claims /\ AfterSettle(v, i, r, 1)
    <3>1. faults' # 0
      BY <1>4, <1>5, <2>3 DEF Finishes
    <3> QED
      BY <1>6, <2>3, <3>1 DEF ClaimsMove, LeavesClaims
  <2> QED
    BY <1>1, <2>1, <2>2, <2>3
<1>8. QueueMoves(v, i)
  BY <1>1, <1>3, <1>6 DEF QueueMoves, Doomed, Done
<1> QED
  BY <1>6, <1>7, <1>8 DEF RecordGoes

LEMMA AckMessageGoes ==
  ASSUME RuntimeInv, NEW v \in Invocations, NEW i, AckMessage(v, i)
  PROVE  RecordGoes(v, i)
<1> DEFINE r == record[v][i]
<1>1. /\ At(v, i, "ack") /\ UNCHANGED <<sub, now, sent, claims, ran>>
      /\ (Delete(v, i) /\ OnDone(v, i, r, 0)) \/ (queue' = queue /\ OnDone(v, i, r, 1))
  BY DEF AckMessage, Logged
<1>2. r.pc = "ack" /\ Flags(r) /\ Sound(r) /\ r \in Record
  BY <1>1, AtRecord
<1>3. r.handled /\ ~r.fatal /\ ~HasKey(r) /\ Doomed(r, calls[v].failed)
  BY <1>2 DEF Flags, Sound, HasKey, KeyPlaces, Doomed
<1>4. ASSUME NEW n \in Nat, OnDone(v, i, r, n)
      PROVE  Finishes(v, i, r, n) /\ record'[v][i].pc \in {"free", "over"}
  <2>1. UNCHANGED <<sub, now>> /\ "ack" \in {"handler", "settle", "ack"}
    BY <1>1
  <2> QED
    BY <1>1, <1>2, <1>3, <1>4, <2>1, OnDoneDoes
<1>5. 0 \in Nat /\ 1 \in Nat /\ 1 # 0
  OBVIOUS
<1>6. LET r_ == record'[v][i] IN
      /\ RecordMoves(v, i) /\ r_.slot = r.slot /\ ~HasKey(r_)
      /\ Done(r_) => ~r.handedBack /\ ~r.deferred
  BY <1>1, <1>4, <1>5 DEF Finishes
<1>7. LeavesClaims(v, i)
  BY <1>1, <1>3, <1>6 DEF LeavesClaims
<1>8. Deletes(v, i) \/ (UNCHANGED <<sent, queue>> /\ faults' # 0)
  BY <1>1, <1>3, <1>4, <1>5 DEF Finishes, Deletes
<1>9. QueueMoves(v, i)
  BY <1>1, <1>3, <1>6, <1>8 DEF QueueMoves, Done
<1> QED
  BY <1>6, <1>7, <1>9 DEF RecordGoes, ClaimsMove

LEMMA FailReleaseGoes ==
  ASSUME RuntimeInv, NEW v \in Invocations, NEW i, FailRelease(v, i)
  PROVE  RecordGoes(v, i)
<1> DEFINE r == record[v][i]
           r_ == [r EXCEPT !.pc = "retry", !.handedBack = TRUE]
<1>1. /\ At(v, i, "failRelease") /\ UNCHANGED <<sub, now, sent, queue, calls, ran>> /\ Become(v, i, r_)
      /\ \/ Faults(0) /\ Release(ClaimOf(v, i), <<v, i>>)
         \/ Faults(1) /\ claims' = claims
  BY DEF FailRelease, Logged
<1>2. r.pc = "failRelease" /\ Flags(r) /\ r \in Record /\ TypeInv /\ i \in DOMAIN calls[v].batch
  BY <1>1, AtRecord
<1>3. HasKey(r) /\ ~r.handled /\ ~r.fatal /\ r.holdsGroup
  BY <1>2 DEF Flags, Sound, HasKey, KeyPlaces
<1>4. /\ r_ \in Record /\ r_.pc = "retry" /\ r_.slot = r.slot /\ r_.claim = r.claim /\ ~r_.fatal /\ ~r_.handled
      /\ r_.unknown = r.unknown /\ r_.deferred = r.deferred /\ r_.since = r.since /\ r_.handedBack /\ r_.holdsGroup
  BY <1>2, <1>3 DEF Record, Places
<1> HIDE DEF r_
<1>5. Flags(r_) /\ ~HasKey(r_) /\ ~Done(r_) /\ (Doomed(r_, calls[v].failed) => Doomed(r, calls[v].failed))
  BY <1>2, <1>4 DEF Flags, Sound, HasKey, KeyPlaces, Done, Doomed
<1>6. Becomes(v, i, r_, FALSE)
  BY <1>1, <1>2, <1>4, BecomeDoes
<1>7. ASSUME NEW n \in Nat, Faults(n) PROVE RecordMoves(v, i) /\ record'[v][i] = r_ /\ (n # 0 => faults' # 0)
  <2>1. UNCHANGED <<sub, now>> /\ r_.pc # "queued" /\ ~r_.fatal /\ Flags(r_) /\ At(v, i, "failRelease")
    BY <1>1, <1>4, <1>5
  <2> QED
    BY <1>6, <1>7, <2>1, GoesOn
<1>8. 0 \in Nat /\ 1 \in Nat /\ 1 # 0
  OBVIOUS
<1>9. RecordMoves(v, i) /\ record'[v][i] = r_
  BY <1>1, <1>7, <1>8
<1>10. ClaimsMove(v, i)
  <2>1. CASE Faults(0) /\ Release(ClaimOf(v, i), <<v, i>>)
    BY <1>3, <1>4, <1>5, <1>9, <2>1 DEF ClaimsMove, SettlesKey
  <2>2. CASE Faults(1) /\ claims' = claims
    <3>1. faults' # 0
      BY <1>7, <1>8, <2>2
    <3> QED
      BY <1>4, <1>5, <1>9, <2>2, <3>1 DEF ClaimsMove, LeavesClaims
  <2> QED
    BY <1>1, <2>1, <2>2
<1>11. QueueMoves(v, i)
  BY <1>1, <1>4, <1>5, <1>9 DEF QueueMoves
<1> QED
  BY <1>9, <1>10, <1>11 DEF RecordGoes

LEMMA FreeGoes ==
  ASSUME RuntimeInv, NEW v \in Invocations, NEW i, Free(v, i)
  PROVE  RecordGoes(v, i)
<1> DEFINE r == record[v][i]
           r_ == record'[v][i]
<1>1. /\ At(v, i, "free") /\ UNCHANGED <<sub, now, sent, queue, ran>> /\ End(v, i, r)
      /\ \/ Faults(0) /\ Release(SlotKey(MessageOf(v, i).tenant, r.slot), <<v, i>>)
         \/ Faults(1) /\ claims' = claims
  BY DEF Free, Logged
<1>2. /\ r.pc = "free" /\ Flags(r) /\ Sound(r) /\ r \in Record /\ TypeInv /\ SentInv /\ i \in DOMAIN calls[v].batch
      /\ calls[v].is = "running" /\ faults \in Nat /\ sub.faults \in Nat /\ (faults = 0 => ~r.fatal)
  BY <1>1, AtRecord
<1>3. ~HasKey(r) /\ r.since <= now
  BY <1>2 DEF Sound, HasKey, KeyPlaces
<1>4. Becomes(v, i, Ended(r), r.fatal)
  BY <1>1, <1>2, <1>3, EndDoes
<1>5. /\ Flags(Ended(r)) /\ Ended(r).pc = "over" /\ Ended(r).slot = 0 /\ ~HasKey(Ended(r)) /\ ~Done(Ended(r))
      /\ Ended(r).handedBack = r.handedBack /\ ~Ended(r).fatal /\ ~Ended(r).deferred /\ ~Ended(r).handled
  BY <1>2, EndedIs
<1>6. r_ = Ended(r) /\ Goes(v, i) /\ (calls'[v].failed <=> calls[v].failed \/ r.fatal)
  BY <1>4 DEF Becomes
<1>7. faults' \in Nat /\ faults <= faults' /\ faults' <= sub.faults /\ (Faults(1) => faults' # 0)
  BY <1>1, <1>2 DEF Faults
<1> HIDE DEF r_
<1>8. RecordMoves(v, i)
  BY <1>1, <1>2, <1>5, <1>6, <1>7 DEF RecordMoves, r_
<1>9. ClaimsMove(v, i)
  <2>1. CASE Faults(0) /\ Release(SlotKey(MessageOf(v, i).tenant, r.slot), <<v, i>>)
    BY <1>2, <1>5, <1>6, <2>1 DEF ClaimsMove, ReleasesSlot, r_
  <2>2. CASE Faults(1) /\ claims' = claims
    BY <1>5, <1>6, <1>7, <2>2 DEF ClaimsMove, LeavesClaims, r_
  <2> QED
    BY <1>1, <2>1, <2>2
<1>10. Doomed(r_, calls'[v].failed) => Doomed(r, calls[v].failed)
  BY <1>2, <1>5, <1>6 DEF Doomed
<1>11. QueueMoves(v, i)
  BY <1>1, <1>2, <1>5, <1>6, <1>10 DEF QueueMoves, r_
<1> QED
  BY <1>8, <1>9, <1>11 DEF RecordGoes

\* Every step of a record is of this form.
LEMMA RecordStepGoes ==
  ASSUME RuntimeInv, NEW v \in Invocations, NEW i, RecordStep(v, i)
  PROVE  RecordGoes(v, i)
BY SkipGoes, WaitAgainGoes, InvalidGoes, TakeClaimGoes, BeginWithoutClaimGoes, TakeSlotGoes, WaitForSlotGoes, UnclaimGoes,
   ConsumeGoes, HandlerRetriesGoes, RetryMessageGoes, HandlerDefersGoes, HandlerThrowsGoes, HandlerEndsGoes, SettleGoes,
   AckMessageGoes, KeepUnknownGoes, FailReleaseGoes, FreeGoes
   DEF RecordStep

-----------------------------------------------------------------------------
(* What a step does to the messages                                        *)

\* A bounded set of numbers has a largest one.
LEMMA HasLargest ==
  ASSUME NEW n \in Nat, NEW S \in SUBSET (0..n), S # {}
  PROVE  \E m \in S : \A y \in S : y <= m
<1> DEFINE T == {n - y : y \in S}
<1>1. T \in SUBSET Nat /\ T # {}
  <2>1. \A y \in S : y \in 0..n /\ n - y \in Nat
    OBVIOUS
  <2> QED
    BY <2>1
<1>2. PICK x \in T : \A y \in T : ~(y < x)
  <2> DEFINE R == OpToRel(<, Nat)
  <2>1. \A x, y \in Nat : x < y => <<x, y>> \in R
    BY DEF OpToRel
  <2>2. IsWellFoundedOn(R, Nat)
    BY NatLessThanWellFounded
  <2> HIDE DEF R, T
  <2>3. PICK x \in T : \A y \in T : ~(<<y, x>> \in R)
    BY <1>1, <2>2, WFMin
  <2> QED
    BY <1>1, <2>1, <2>3
<1>3. PICK m \in S : x = n - m
  BY <1>2
<1>4. \A y \in S : ~(n - y < n - m)
  BY <1>2, <1>3
<1> QED
  BY <1>4

\* No step takes back what was sent or what ran, and none receives less; what leaves the queue may leave it.
MessagesMove ==
  /\ sub' = sub /\ SentInv' /\ QueueInv'
  /\ \A j \in DOMAIN sent : j \in DOMAIN sent' /\ sent'[j] = sent[j]
  /\ \A j \in DOMAIN sent' : j \notin DOMAIN sent => sent'[j].origin # j
  /\ ran \subseteq ran'
  /\ \A j \in DOMAIN sent : j \in DOMAIN queue' => j \in DOMAIN queue /\ queue[j].receives <= queue'[j].receives
  /\ \A j \in DOMAIN queue : j \notin DOMAIN queue' => MayLeave(j)

\* What is settled stays settled.
LEMMA SettledStays ==
  ASSUME SentInv, MessagesMove, NEW i \in DOMAIN sent, Settled(i)
  PROVE  Settled(i)'
<1>1. PICK j \in ran : j = i \/ (sub.idempotent /\ sent[j].key = sent[i].key)
  BY DEF Settled
<1>2. j \in DOMAIN sent /\ j \in ran' /\ sent'[j] = sent[j] /\ sent'[i] = sent[i] /\ sub' = sub
  BY <1>1 DEF SentInv, MessagesMove
<1> QED
  BY <1>1, <1>2 DEF Settled

\* Where a message comes from.
LEMMA OriginType ==
  ASSUME SentInv, NEW i \in DOMAIN sent
  PROVE  /\ sent[i].origin \in DOMAIN sent /\ sent[i].origin <= i /\ sent[sent[i].origin].key = sent[i].key
         /\ i \in Nat /\ 1 <= i /\ i <= Len(sent) /\ Len(sent) \in Nat /\ DOMAIN sent = 1..Len(sent)
<1>1. Len(sent) \in Nat /\ DOMAIN sent = 1..Len(sent)
  BY DEF SentInv
<1>2. sent[i].origin \in 1..i /\ sent[sent[i].origin].key = sent[i].key
  BY DEF SentInv
<1> QED
  BY <1>1, <1>2

\* Of the messages with an origin, the last one stays as long as its work isn't settled.
LEMMA LastStays ==
  ASSUME TypeInv, MessagesMove, NEW o \in DOMAIN sent, NEW low \in Nat, ~Settled(o)',
         \E j \in DOMAIN queue : low < j /\ sent[j].origin = o
  PROVE  \E j \in DOMAIN queue' : low < j /\ sent'[j].origin = o
<1> DEFINE S == {j \in DOMAIN queue : low < j /\ sent[j].origin = o}
<1>1. SentInv /\ DOMAIN queue \subseteq DOMAIN sent /\ Len(sent) \in Nat /\ DOMAIN sent = 1..Len(sent)
  BY OriginType DEF TypeInv, QueueInv
<1>2. S \in SUBSET (0..Len(sent)) /\ S # {}
  BY <1>1
<1>3. PICK m \in S : \A y \in S : y <= m
  <2> HIDE DEF S
  <2> QED
    BY <1>1, <1>2, HasLargest
<1>4. m \in DOMAIN queue /\ m \in DOMAIN sent /\ low < m /\ sent[m].origin = o /\ m \in Nat
  BY <1>1, <1>3
<1>5. CASE m \in DOMAIN queue'
  BY <1>4, <1>5 DEF MessagesMove
<1>6. CASE m \notin DOMAIN queue'
  <2>1. MayLeave(m)
    BY <1>4, <1>6 DEF MessagesMove
  <2>2. ~Settled(o)
    BY <1>1, SettledStays
  <2>3. PICK j \in DOMAIN queue : m < j /\ sent[j].origin = o
    BY <1>4, <2>1, <2>2 DEF MayLeave
  <2>4. j \in Nat /\ low < j
    BY <1>1, <1>4, <2>3
  <2>5. j \in S
    BY <2>3, <2>4
  <2> QED
    BY <1>3, <1>4, <2>3, <2>4, <2>5
<1> QED
  BY <1>5, <1>6

\* A message that may leave the queue may do so after any step, also when the copy that had its work to do left as well.
LEMMA MayLeaveStays ==
  ASSUME TypeInv, MessagesMove, NEW i \in DOMAIN sent, MayLeave(i)
  PROVE  MayLeave(i)'
<1>0. SentInv /\ i \in Nat /\ sent[i].origin \in DOMAIN sent
  BY OriginType DEF TypeInv
<1>1. PICK o \in DOMAIN sent : o = sent[i].origin
  BY <1>0
<1>2. sent'[i].origin = o
  BY <1>1 DEF MessagesMove
<1>3. CASE Settled(o)'
  BY <1>2, <1>3 DEF MayLeave
<1>4. CASE ~Settled(o)'
  <2>1. ~Settled(o)
    BY <1>0, <1>4, SettledStays
  <2>2. \E j \in DOMAIN queue : i < j /\ sent[j].origin = o
    BY <1>1, <2>1 DEF MayLeave
  <2>3. \E j \in DOMAIN queue' : i < j /\ sent'[j].origin = o
    BY <1>0, <1>4, <2>2, LastStays
  <2> QED
    BY <1>2, <2>3 DEF MayLeave
<1> QED
  BY <1>3, <1>4

\* No step loses a message.
LEMMA NothingLostStays ==
  ASSUME TypeInv, MessagesMove, NothingLost
  PROVE  NothingLost'
<1> SUFFICES ASSUME NEW i \in DOMAIN sent', sent'[i].origin = i, ~Settled(i)'
             PROVE  \E j \in DOMAIN queue' : sent'[j].origin = i
  BY DEF NothingLost
<1>1. SentInv /\ i \in DOMAIN sent /\ sent'[i] = sent[i] /\ DOMAIN queue \subseteq DOMAIN sent
  BY DEF MessagesMove, TypeInv, QueueInv
<1>2. ~Settled(i)
  BY <1>1, SettledStays
<1>3. PICK j \in DOMAIN queue : sent[j].origin = i
  BY <1>1, <1>2 DEF NothingLost
<1>4. j \in DOMAIN sent /\ 0 < j
  BY <1>1, <1>3, OriginType
<1>5. 0 \in Nat
  OBVIOUS
<1> QED
  BY <1>1, <1>3, <1>4, <1>5, LastStays
-----------------------------------------------------------------------------
(* What a step of another record, or of no record, leaves as it is         *)

\* The invocation goes on as it is, unless a record of it failed its batch.
CallStays(w) ==
  /\ calls'[w].is = calls[w].is /\ calls'[w].batch = calls[w].batch /\ calls'[w].receives = calls[w].receives
  /\ calls'[w].start = calls[w].start /\ (calls[w].failed => calls'[w].failed)

\* Nobody but the owner changes an item whose lease has not passed.
ClaimsStay(w, i) ==
  \A c \in ClaimKeys : claims'[c] = claims[c] \/ IsFree(c) \/ claims[c].owner # <<w, i>>

TimeStays == now' \in Nat /\ now <= now' /\ faults' \in Nat /\ faults <= faults'

\* The numbers that leases are made of.
LEMMA NumbersOf ==
  ASSUME TypeInv, NEW w \in Invocations
  PROVE  /\ sub.timeout * Second \in Nat /\ calls[w].start \in Nat /\ now \in Nat /\ Second \in Nat
         /\ \A c \in ClaimKeys : claims[c] \in Claim /\ claims[c].expiration \in Nat
<1>1. sub.timeout \in Nat /\ Second \in Nat /\ now \in Nat
  BY RuntimeConstants DEF TypeInv
<1>2. sub.timeout * Second \in Nat
  BY <1>1
<1>3. calls[w].start \in Nat
  BY DEF TypeInv, Call
<1>4. \A c \in ClaimKeys : claims[c] \in Claim /\ claims[c].expiration \in Nat
  BY DEF TypeInv, Claim
<1> QED
  BY <1>1, <1>2, <1>3, <1>4

LEMMA TimesMonotone ==
  ASSUME NEW a \in Nat, NEW b \in Nat, NEW n \in Nat, a <= b
  PROVE  a * n <= b * n
<1>1. b - a \in Nat /\ b = a + (b - a)
  OBVIOUS
<1>2. (b - a) * n \in Nat
  BY <1>1
<1>3. b * n = a * n + (b - a) * n
  BY <1>1
<1> QED
  BY <1>2, <1>3

\* A lease lasts for as long as nobody but its owner changes the item, and others only take it once it has passed.
LEMMA LeaseStays ==
  ASSUME TypeInv, NEW w \in Invocations, NEW j, NEW c \in ClaimKeys, sub' = sub, TimeStays, CallStays(w),
         ClaimsStay(w, j), Late(w) \/ Leases(w, j, c)
  PROVE  Late(w)' \/ Leases(w, j, c)'
<1> DEFINE end == calls[w].start + sub.timeout * Second
<1>1. /\ sub.timeout * Second \in Nat /\ calls[w].start \in Nat /\ now \in Nat /\ Second \in Nat
      /\ claims[c].expiration \in Nat
  BY NumbersOf
<1>2. now' \in Nat /\ now <= now' /\ calls'[w].start = calls[w].start
  BY DEF TimeStays, CallStays
<1>3. CASE Late(w)
  <2>1. now' + Second > end
    BY <1>1, <1>2, <1>3 DEF Late
  <2> QED
    BY <1>2, <2>1 DEF Late
<1>4. CASE Leases(w, j, c) /\ claims'[c] = claims[c]
  BY <1>2, <1>4 DEF Leases
<1>5. CASE Leases(w, j, c) /\ IsFree(c)
  <2>1. EpochSeconds \in Nat /\ EpochSeconds * Second <= now
    BY RuntimeConstants DEF TypeInv
  <2>2. claims[c].expiration * Second <= EpochSeconds * Second
    BY <1>1, <1>5, <2>1, TimesMonotone DEF IsFree
  <2>3. claims[c].expiration * Second \in Nat /\ EpochSeconds * Second \in Nat
    BY <1>1, <2>1
  <2>4. claims[c].expiration * Second + Second > end
    BY <1>5 DEF Leases
  <2>5. now' + Second > end
    BY <1>1, <1>2, <2>1, <2>2, <2>3, <2>4
  <2> QED
    BY <1>2, <2>5 DEF Late
<1>6. CASE Leases(w, j, c) /\ claims[c].owner # <<w, j>>
  BY <1>6 DEF Leases
<1> QED
  BY <1>3, <1>4, <1>5, <1>6 DEF ClaimsStay

\* A receipt that is of no use stays so.
LEMMA NotCurrentStays ==
  ASSUME TypeInv, MessagesMove, NEW w \in Invocations, NEW j \in DOMAIN calls[w].batch, CallStays(w),
         ~IsCurrent(w, j)
  PROVE  ~IsCurrent(w, j)'
<1> DEFINE m == calls[w].batch[j]
<1>1. /\ m \in DOMAIN sent /\ (m \in DOMAIN queue => calls[w].receives[j] <= queue[m].receives)
      /\ QueueInv
  BY DEF TypeInv, CallInv
<1>2. calls[w].receives[j] \in Nat
  <2>1. calls[w].receives \in Seq(Nat) /\ DOMAIN calls[w].receives = DOMAIN calls[w].batch
    BY DEF TypeInv, CallInv, Call
  <2> QED
    BY <2>1
<1>3. SUFFICES ASSUME m \in DOMAIN queue', queue'[m].receives = calls[w].receives[j]
               PROVE  FALSE
  BY DEF IsCurrent, CallStays
<1>4. m \in DOMAIN queue /\ queue[m].receives <= queue'[m].receives /\ queue[m].receives \in Nat
  BY <1>1, <1>3 DEF MessagesMove, QueueInv
<1>5. queue[m].receives # calls[w].receives[j]
  BY <1>4 DEF IsCurrent
<1> QED
  BY <1>1, <1>2, <1>3, <1>4, <1>5

\* What is known of an invocation that goes on.
LEMMA CallInvStays ==
  ASSUME TypeInv, MessagesMove, NEW w \in Invocations, CallStays(w), record'[w] \in [DOMAIN calls[w].batch -> Record],
         TimeStays,
         calls[w].is = "running" => now' <= calls[w].start + sub.timeout * Second
  PROVE  CallInv(w)'
<1>1. CallInv(w) /\ QueueInv /\ QueueInv'
  BY DEF TypeInv, MessagesMove
<1>2. /\ calls'[w].is = calls[w].is /\ calls'[w].batch = calls[w].batch /\ calls'[w].receives = calls[w].receives
      /\ calls'[w].start = calls[w].start /\ sub' = sub
  BY DEF CallStays, MessagesMove
<1>3. calls[w].is = "running" => calls[w].start <= now'
  <2>1. calls[w].start \in Nat /\ now \in Nat /\ now' \in Nat /\ now <= now'
    BY NumbersOf DEF TimeStays
  <2> QED
    BY <1>1, <2>1 DEF CallInv
<1>4. ASSUME NEW i \in DOMAIN calls[w].batch
      PROVE  /\ calls[w].batch[i] \in DOMAIN sent'
             /\ calls[w].batch[i] \in DOMAIN queue' => calls[w].receives[i] <= queue'[calls[w].batch[i]].receives
             /\ \A j \in DOMAIN calls[w].batch : j < i => calls[w].batch[j] < calls[w].batch[i]
  <2> DEFINE m == calls[w].batch[i]
  <2>1. /\ m \in DOMAIN sent /\ (m \in DOMAIN queue => calls[w].receives[i] <= queue[m].receives)
        /\ \A j \in DOMAIN calls[w].batch : j < i => calls[w].batch[j] < m
    BY <1>1 DEF CallInv
  <2>2. calls[w].receives[i] \in Nat
    <3>1. calls[w].receives \in Seq(Nat) /\ DOMAIN calls[w].receives = DOMAIN calls[w].batch
      BY DEF TypeInv, CallInv, Call
    <3> QED
      BY <3>1
  <2>3. m \in DOMAIN sent' /\ (m \in DOMAIN queue' => m \in DOMAIN queue /\ queue[m].receives <= queue'[m].receives)
    BY <2>1 DEF MessagesMove
  <2>4. m \in DOMAIN queue' /\ m \in DOMAIN queue => queue[m].receives \in Nat /\ queue'[m].receives \in Nat
    BY <1>1 DEF QueueInv
  <2> QED
    BY <2>1, <2>2, <2>3, <2>4
<1> QED
  BY <1>1, <1>2, <1>3, <1>4 DEF CallInv
\* Flags say the same later on.
LEMMA FlagsStay ==
  ASSUME NEW r \in Record, Flags(r), sub' = sub, now \in Nat, now' \in Nat, now <= now'
  PROVE  Flags(r)'
<1>1. r.since \in Nat
  BY DEF Record
<1>2. r.since <= now'
  BY <1>1 DEF Flags, Sound
<1> QED
  BY <1>2 DEF Flags, Sound, Slots

\* A record that a step leaves alone keeps what is known of it.
LEMMA RecordStays ==
  ASSUME RuntimeInv, MessagesMove, NEW w \in Invocations, NEW j \in DOMAIN calls[w].batch, CallStays(w), TimeStays,
         ClaimsStay(w, j), record'[w][j] = record[w][j]
  PROVE  RecordInv(w, j)'
<1> DEFINE m == calls[w].batch[j]
<1>1. /\ TypeInv /\ SentInv /\ RecordInv(w, j) /\ sub' = sub /\ CallInv(w) /\ QueueInv
  BY DEF RuntimeInv, TypeInv, MessagesMove
<1>2. record[w][j] \in Record /\ m \in DOMAIN sent /\ sent'[m] = sent[m]
  BY <1>1 DEF CallInv, MessagesMove
<1>r. PICK r \in Record : r = record[w][j] /\ r = record'[w][j]
  BY <1>2
<1>3. MessageOf(w, j)' = MessageOf(w, j) /\ ClaimOf(w, j)' = ClaimOf(w, j) /\ calls'[w].batch[j] = m
  BY <1>2 DEF MessageOf, ClaimOf, CallStays
<1>4. Flags(r)'
  <2>1. now \in Nat /\ now' \in Nat /\ now <= now' /\ Flags(r)
    BY <1>1, <1>r, RuntimeConstants DEF TimeStays, RecordInv
  <2> QED
    BY <1>1, <2>1, FlagsStay
<1>5. HasKey(r) => (Late(w) \/ Leases(w, j, ClaimOf(w, j)))'
  <2>1. SUFFICES ASSUME HasKey(r)
                 PROVE  (Late(w) \/ Leases(w, j, ClaimOf(w, j)))'
    OBVIOUS
  <2>2. PICK c \in ClaimKeys : c = ClaimOf(w, j)
    BY <1>1, MessageType
  <2>3. Late(w) \/ Leases(w, j, c)
    BY <1>1, <1>r, <2>1, <2>2 DEF RecordInv
  <2>4. Late(w)' \/ Leases(w, j, c)'
    BY <1>1, <2>3, LeaseStays
  <2> QED
    BY <1>3, <2>2, <2>4 DEF Leases
<1>6. r.slot # 0 => (Late(w) \/ Leases(w, j, SlotKey(MessageOf(w, j).tenant, r.slot)))'
  <2>1. SUFFICES ASSUME r.slot # 0
                 PROVE  (Late(w) \/ Leases(w, j, SlotKey(MessageOf(w, j).tenant, r.slot)))'
    OBVIOUS
  <2>2. r.slot \in Slots
    BY <1>1, <1>r, <2>1 DEF RecordInv, Flags, Sound
  <2>3. PICK c \in ClaimKeys : c = SlotKey(MessageOf(w, j).tenant, r.slot)
    BY <1>1, <2>2, MessageType
  <2>4. Late(w) \/ Leases(w, j, c)
    BY <1>1, <1>r, <2>1, <2>3 DEF RecordInv
  <2>5. Late(w)' \/ Leases(w, j, c)'
    BY <1>1, <2>4, LeaseStays
  <2> QED
    BY <1>3, <2>3, <2>5 DEF Leases, SlotKey
<1>7. Doomed(r, calls'[w].failed) => MayLeave(calls[w].batch[j])'
  <2>1. Doomed(r, calls'[w].failed) => Doomed(r, calls[w].failed)
    BY DEF Doomed, CallStays
  <2>2. Doomed(r, calls[w].failed) => MayLeave(m)
    BY <1>1, <1>r DEF RecordInv
  <2>3. PICK d \in DOMAIN sent : d = m /\ d = calls'[w].batch[j]
    BY <1>2, <1>3
  <2> QED
    BY <1>1, <2>1, <2>2, <2>3, MayLeaveStays
<1>8. Done(r) => Settled(MessageOf(w, j).origin)'
  <2>1. Done(r) => Settled(MessageOf(w, j).origin)
    BY <1>1, <1>r DEF RecordInv
  <2>2. sent[m].origin \in DOMAIN sent
    BY <1>1, <1>2, OriginType
  <2>3. PICK o \in DOMAIN sent : o = sent[m].origin /\ o = MessageOf(w, j).origin /\ o = MessageOf(w, j)'.origin
    BY <1>3, <2>2 DEF MessageOf
  <2> QED
    BY <1>1, <2>1, <2>3, SettledStays
<1>9. faults' = 0 => faults = 0
  BY <1>1, RuntimeConstants DEF TimeStays
<1>10. /\ faults' = 0 /\ DeleteEach(w)' /\ r.pc \in {"free", "over"} /\ ~r.handedBack => ~IsCurrent(w, j)'
       /\ faults' = 0 => ~r.fatal
  <2>1. DeleteEach(w)' <=> DeleteEach(w)
    BY <1>1 DEF DeleteEach, CallStays
  <2>2. /\ faults = 0 /\ DeleteEach(w) /\ r.pc \in {"free", "over"} /\ ~r.handedBack => ~IsCurrent(w, j)
        /\ faults = 0 => ~r.fatal
    BY <1>1, <1>r DEF RecordInv
  <2>3. ~IsCurrent(w, j) => ~IsCurrent(w, j)'
    BY <1>1, NotCurrentStays
  <2> QED
    BY <1>9, <2>1, <2>2, <2>3
<1> QED
  BY <1>r, <1>3, <1>4, <1>5, <1>6, <1>7, <1>8, <1>10 DEF RecordInv

\* What is known of its group: a record may have started, if what precedes it in its group is settled.
LEMMA GroupStays ==
  ASSUME RuntimeInv, MessagesMove, NEW w \in Invocations, NEW j \in DOMAIN calls[w].batch, CallStays(w),
         \/ record'[w][j].pc = record[w][j].pc \/ record'[w][j].pc = "over" \/ record[w][j].pc \notin {"queued", "over"}
         \/ sub.fifo => \A m \in DOMAIN calls[w].batch : m < j /\ SameGroup(calls[w].batch[j], calls[w].batch[m])
                                                         => Settled(calls[w].batch[m])
  PROVE  GroupInv(w, j)'
<1> DEFINE b == calls[w].batch
<1>1. TypeInv /\ SentInv /\ GroupInv(w, j) /\ sub' = sub /\ b = calls'[w].batch /\ CallInv(w) /\ QueueInv'
  BY DEF RuntimeInv, TypeInv, MessagesMove, CallStays
<1>2. \A i \in DOMAIN b : b[i] \in DOMAIN sent /\ sent'[b[i]] = sent[b[i]]
  BY <1>1 DEF CallInv, MessagesMove
<1>3. ASSUME NEW i \in DOMAIN queue', SameGroup(b[j], i)', i < b[j]
      PROVE  \E m \in DOMAIN b : b[m] = i
  <2>1. i \in DOMAIN sent' /\ i \in DOMAIN sent
    <3>1. i \in DOMAIN sent' /\ SentInv'
      BY <1>1 DEF QueueInv, MessagesMove
    <3>2. DOMAIN sent' = 1..Len(sent') /\ Len(sent') \in Nat
      BY <3>1 DEF SentInv
    <3>3. i \in Nat /\ 1 <= i
      BY <3>1, <3>2
    <3>4. b[j] \in DOMAIN sent /\ DOMAIN sent = 1..Len(sent) /\ Len(sent) \in Nat
      BY <1>1, <1>2, OriginType
    <3> QED
      BY <1>3, <3>1, <3>3, <3>4
  <2>2. i \in DOMAIN queue /\ sent'[i] = sent[i]
    BY <2>1 DEF MessagesMove
  <2>3. SameGroup(b[j], i)
    BY <1>1, <1>2, <1>3, <2>2 DEF SameGroup
  <2> QED
    BY <1>1, <1>3, <2>2, <2>3 DEF GroupInv
<1>4. ASSUME sub.fifo, record'[w][j].pc \notin {"queued", "over"}, NEW m \in DOMAIN b, m < j, SameGroup(b[j], b[m])'
      PROVE  Settled(b[m])'
  <2>1. SameGroup(b[j], b[m])
    BY <1>1, <1>2, <1>4 DEF SameGroup
  <2>2. Settled(b[m])
    BY <1>1, <1>4, <2>1 DEF GroupInv
  <2>3. PICK d \in DOMAIN sent : d = b[m] /\ d = calls'[w].batch[m]
    BY <1>1, <1>2
  <2> QED
    BY <1>1, <2>2, <2>3, SettledStays
<1> QED
  BY <1>1, <1>3, <1>4 DEF GroupInv
-----------------------------------------------------------------------------
(* A step of a record keeps what is known of the messages                  *)

\* A copy is one more message, with the origin and the keys of the one it is a copy of.
LEMMA CopiesDoes ==
  ASSUME TypeInv, NEW v \in Invocations, NEW i \in DOMAIN calls[v].batch, Copies(v, i)
  PROVE  LET n == Len(sent) + 1
             m == MessageOf(v, i)
         IN  /\ sent' \in Seq(SentMessage) /\ Len(sent') <= MaxMessages
             /\ DOMAIN sent' = DOMAIN sent \cup {n} /\ n \notin DOMAIN sent /\ n \in Nat
             /\ \A j \in DOMAIN sent : sent'[j] = sent[j] /\ j < n
             /\ sent'[n].origin = m.origin /\ sent'[n].key = m.key /\ sent'[n].group = m.group
             /\ DOMAIN queue' = DOMAIN queue \cup {n}
             /\ \A j \in DOMAIN queue : queue'[j] = queue[j]
             /\ queue'[n] \in [visibleAt : Nat, receives : Nat]
<1> DEFINE n == Len(sent) + 1
           m == MessageOf(v, i)
<1>1. SentInv /\ QueueInv /\ m \in SentMessage
  BY MessageType DEF TypeInv
<1>2. PICK defers \in 0..MaxDeferCount, until \in Nat : sent' = Append(sent, [m EXCEPT !.defers = defers, !.until = until])
  BY DEF Copies
<1>3. PICK at \in Nat : queue' = Put(n, [visibleAt |-> at, receives |-> 0])
  BY DEF Copies
<1>4. PICK q : q = [m EXCEPT !.defers = defers, !.until = until]
  OBVIOUS
<1>5. q \in SentMessage /\ q.origin = m.origin /\ q.key = m.key /\ q.group = m.group
  BY <1>1, <1>4 DEF SentMessage
<1>6. sent \in Seq(SentMessage) /\ Len(sent) \in Nat /\ DOMAIN sent = 1..Len(sent) /\ Len(sent) < MaxMessages
  BY <1>1 DEF SentInv, Copies
<1>7. sent' = Append(sent, q)
  BY <1>2, <1>4
<1>8. /\ sent' \in Seq(SentMessage) /\ Len(sent') = n /\ sent'[n] = q /\ DOMAIN sent' = 1..n
      /\ \A j \in 1..Len(sent) : sent'[j] = sent[j]
  BY <1>5, <1>6, <1>7
<1>9. MaxMessages \in Nat
  BY <1>1, RuntimeConstants
<1>10. /\ DOMAIN sent' = DOMAIN sent \cup {n} /\ n \notin DOMAIN sent /\ n \in Nat /\ Len(sent') <= MaxMessages
       /\ \A j \in DOMAIN sent : j < n
  BY <1>6, <1>8, <1>9
<1>11. /\ DOMAIN queue' = DOMAIN queue \cup {n} /\ n \notin DOMAIN queue
       /\ \A j \in DOMAIN queue : queue'[j] = queue[j]
       /\ queue'[n] = [visibleAt |-> at, receives |-> 0]
  <2>1. n \notin DOMAIN queue
    BY <1>1, <1>10 DEF QueueInv
  <2> QED
    BY <1>3, <2>1 DEF Put
<1>12. queue'[n] \in [visibleAt : Nat, receives : Nat]
  BY <1>11
<1> QED
  BY <1>5, <1>6, <1>8, <1>10, <1>11, <1>12

\* Deleting takes no message from the queue but one that may leave.
LEMMA DeletesDoes ==
  ASSUME RuntimeInv, NEW v \in Invocations, NEW i \in DOMAIN calls[v].batch, Deletes(v, i)
  PROVE  /\ sent' = sent /\ DOMAIN queue' \subseteq DOMAIN queue /\ \A j \in DOMAIN queue' : queue'[j] = queue[j]
         /\ \A j \in DOMAIN queue : j \notin DOMAIN queue' => MayLeave(j)
         /\ IsCurrent(v, i) => calls[v].batch[i] \notin DOMAIN queue'
<1>1. /\ sent' = sent /\ queue' = Without(Current(v, {i})) /\ Doomed(record[v][i], calls[v].failed)
  BY DEF Deletes, Delete
<1>2. MayLeave(calls[v].batch[i])
  BY <1>1 DEF RuntimeInv, RecordInv
<1>3. Current(v, {i}) \subseteq {calls[v].batch[i]} /\ (IsCurrent(v, i) => calls[v].batch[i] \in Current(v, {i}))
  BY DEF Current
<1> QED
  BY <1>1, <1>2, <1>3 DEF Without

\* A change of visibility leaves the receipts alone.
LEMMA ShowsDoes ==
  ASSUME TypeInv, NEW v \in Invocations, NEW i \in DOMAIN calls[v].batch, Shows(v, i)
  PROVE  /\ sent' = sent /\ DOMAIN queue' = DOMAIN queue /\ queue' \in [DOMAIN queue -> [visibleAt : Nat, receives : Nat]]
         /\ \A j \in DOMAIN queue : queue'[j].receives = queue[j].receives
<1>1. PICK d \in Nat : sent' = sent /\ ChangeVisibility(v, i, d)
  BY DEF Shows
<1>2. Second \in Nat /\ now \in Nat /\ queue \in [DOMAIN queue -> [visibleAt : Nat, receives : Nat]]
  BY RuntimeConstants DEF TypeInv, QueueInv
<1>3. now + d * Second \in Nat
  BY <1>2
<1> DEFINE at == now + d * Second
<1>4. queue' = queue \/ queue' = [queue EXCEPT ![calls[v].batch[i]].visibleAt = at]
  BY <1>1 DEF ChangeVisibility
<1> HIDE DEF at
<1> QED
  BY <1>1, <1>2, <1>3, <1>4 DEF at

\* A step of a record moves messages as any step may.
LEMMA RecordGoesMessages ==
  ASSUME RuntimeInv, NEW v \in Invocations, NEW i, RecordGoes(v, i)
  PROVE  MessagesMove
<1> DEFINE n == Len(sent) + 1
           m == calls[v].batch[i]
           o == MessageOf(v, i).origin
<1>1. /\ RecordMoves(v, i) /\ QueueMoves(v, i) /\ TypeInv /\ SentInv /\ QueueInv /\ i \in DOMAIN calls[v].batch
      /\ UNCHANGED <<sub, now>>
  BY DEF RecordGoes, RecordMoves, RuntimeInv, TypeInv
<1>2. m \in DOMAIN sent /\ o \in DOMAIN sent /\ o <= m /\ sent[o].key = sent[m].key /\ sent[m] = MessageOf(v, i)
  BY <1>1, MessageType, OriginType DEF MessageOf
<1>3. faults' \in 0..sub.faults /\ now \in 0..sub.ticks /\ sub \in Subscriptions
  <2>1. faults' \in Nat /\ faults' <= sub.faults /\ sub.faults \in Nat
    BY <1>1, RuntimeConstants DEF RecordMoves
  <2> QED
    BY <1>1, <2>1 DEF SentInv
<1>4. ran \subseteq ran' /\ ran' \subseteq DOMAIN sent
  BY <1>1, <1>2 DEF QueueMoves, SentInv
<1> HIDE DEF o, m
<1>5. CASE sent' = sent
  <2>1. SentInv'
    BY <1>1, <1>3, <1>4, <1>5 DEF SentInv
  <2>2. CASE queue' = queue
    <3>1. \A j \in DOMAIN queue : queue[j].receives \in Nat
      BY <1>1 DEF QueueInv
    <3>2. QueueInv'
      BY <1>1, <1>5, <2>2 DEF QueueInv
    <3> QED
      BY <1>1, <1>4, <1>5, <2>1, <2>2, <3>1, <3>2 DEF MessagesMove
  <2>3. CASE Deletes(v, i)
    <3>1. /\ DOMAIN queue' \subseteq DOMAIN queue /\ \A j \in DOMAIN queue' : queue'[j] = queue[j]
          /\ \A j \in DOMAIN queue : j \notin DOMAIN queue' => MayLeave(j)
      BY <1>1, <2>3, DeletesDoes
    <3>2. \A j \in DOMAIN queue : queue[j].receives \in Nat
      BY <1>1 DEF QueueInv
    <3>3. queue' = [j \in DOMAIN queue' |-> queue'[j]]
      BY <2>3 DEF Deletes, Delete, Without
    <3>4. QueueInv'
      BY <1>1, <1>5, <3>1, <3>3 DEF QueueInv
    <3> QED
      BY <1>1, <1>4, <1>5, <2>1, <3>1, <3>2, <3>4 DEF MessagesMove
  <2>4. CASE Shows(v, i)
    <3>1. /\ DOMAIN queue' = DOMAIN queue /\ queue' \in [DOMAIN queue -> [visibleAt : Nat, receives : Nat]]
          /\ \A j \in DOMAIN queue : queue'[j].receives = queue[j].receives
      BY <1>1, <2>4, ShowsDoes
    <3>2. \A j \in DOMAIN queue : queue[j].receives \in Nat
      BY <1>1 DEF QueueInv
    <3>3. QueueInv'
      BY <1>1, <1>5, <3>1 DEF QueueInv
    <3> QED
      BY <1>1, <1>4, <1>5, <2>1, <3>1, <3>2, <3>3 DEF MessagesMove
  <2>5. ~Copies(v, i)
    BY <1>1, <1>5, CopiesDoes
  <2> QED
    BY <1>1, <2>2, <2>3, <2>4, <2>5 DEF QueueMoves
<1>6. CASE Copies(v, i)
  <2>1. /\ sent' \in Seq(SentMessage) /\ Len(sent') <= MaxMessages
        /\ DOMAIN sent' = DOMAIN sent \cup {n} /\ n \notin DOMAIN sent /\ n \in Nat
        /\ \A j \in DOMAIN sent : sent'[j] = sent[j] /\ j < n
        /\ sent'[n].origin = o /\ sent'[n].key = sent[m].key /\ sent'[n].group = sent[m].group
        /\ DOMAIN queue' = DOMAIN queue \cup {n}
        /\ \A j \in DOMAIN queue : queue'[j] = queue[j]
        /\ queue'[n] \in [visibleAt : Nat, receives : Nat]
    BY <1>1, <1>2, <1>6, CopiesDoes DEF o, m
  <2>2. ~sub.fifo /\ sent[m].group = NoGroup
    BY <1>1, <1>2, <1>6 DEF Copies, SentInv
  <2>3. o \in Nat /\ 1 <= o /\ o < n
    <3>1. o \in Nat /\ 1 <= o
      BY <1>1, <1>2, OriginType
    <3> QED
      BY <1>2, <2>1, <3>1
  <2>4. o \in 1..n
    BY <2>1, <2>3
  <2>5. SentInv'
    <3>1. ASSUME NEW j \in DOMAIN sent'
          PROVE  /\ sent'[j].origin \in 1..j /\ sent'[sent'[j].origin].key = sent'[j].key
                 /\ sent'[j].group = NoGroup
      <4>1. CASE j \in DOMAIN sent
        <5>1. sent'[j] = sent[j] /\ sent[j].origin \in 1..j /\ sent[sent[j].origin].key = sent[j].key
              /\ sent[j].group = NoGroup /\ sent[j].origin \in DOMAIN sent
          BY <1>1, <2>1, <2>2, <4>1, OriginType DEF SentInv
        <5> QED
          BY <2>1, <5>1
      <4>2. CASE j = n
        BY <1>2, <2>1, <2>2, <2>4, <4>2
      <4> QED
        BY <2>1, <4>1, <4>2
    <3>2. ran' \subseteq DOMAIN sent'
      BY <1>4, <2>1
    <3> HIDE DEF n
    <3> QED
      BY <1>1, <1>3, <2>1, <2>2, <3>1, <3>2 DEF SentInv
  <2>6. QueueInv'
    <3>1. queue' = [j \in DOMAIN queue' |-> queue'[j]]
      BY <1>6 DEF Copies, Put
    <3>2. \A j \in DOMAIN queue' : queue'[j] \in [visibleAt : Nat, receives : Nat]
      BY <1>1, <2>1 DEF QueueInv
    <3>3. DOMAIN queue' \subseteq DOMAIN sent'
      BY <1>1, <2>1 DEF QueueInv
    <3> QED
      BY <3>1, <3>2, <3>3 DEF QueueInv
  <2>7. \A j \in DOMAIN sent : j \in DOMAIN queue' => j \in DOMAIN queue /\ queue[j].receives <= queue'[j].receives
    <3>1. \A j \in DOMAIN queue : queue[j].receives \in Nat
      BY <1>1 DEF QueueInv
    <3> QED
      BY <2>1, <3>1
  <2> HIDE DEF n
  <2>8. \A j \in DOMAIN sent' : j \notin DOMAIN sent => sent'[j].origin # j
    BY <2>1, <2>3
  <2> QED
    BY <1>1, <1>4, <2>1, <2>5, <2>6, <2>7, <2>8 DEF MessagesMove
<1> QED
  BY <1>1, <1>5, <1>6 DEF QueueMoves, Deletes, Shows
-----------------------------------------------------------------------------
(* A step of a record keeps what is known of the claims                    *)

\* A record as the owner of claims.
LEMMA OwnerType ==
  ASSUME TypeInv, NEW v \in Invocations, NEW i \in DOMAIN calls[v].batch
  PROVE  <<v, i>> \in Owners /\ <<v, i>> # NoOwner /\ i \in 1..sub.batchSize /\ i \in Nat
         /\ DOMAIN calls[v].batch = 1..Len(calls[v].batch) /\ Len(calls[v].batch) \in Nat
<1>1. calls[v].batch \in Seq(Nat) /\ Len(calls[v].batch) <= sub.batchSize /\ sub.batchSize \in Nat
  BY RuntimeConstants DEF TypeInv, CallInv, Call
<1>2. i \in 1..sub.batchSize /\ i \in Nat /\ DOMAIN calls[v].batch = 1..Len(calls[v].batch) /\ Len(calls[v].batch) \in Nat
  BY <1>1
<1> QED
  BY <1>2 DEF Owners, NoOwner

LEMMA NoClaimType ==
  ASSUME TypeInv
  PROVE  NoClaim \in Claim /\ NoClaim.state = "none" /\ NoClaim.owner = NoOwner /\ NoClaim.expiration = 0
BY DEF NoClaim, Claim

\* takeClaim, keepClaim and releaseClaim: what they do to the item and to the others.
LEMMA TakeDoes ==
  ASSUME TypeInv, NEW c \in ClaimKeys, NEW o \in Owners, Take(c, o)
  PROVE  /\ claims' \in [ClaimKeys -> Claim] /\ \A d \in ClaimKeys : d # c => claims'[d] = claims[d]
         /\ claims'[c].state = "running" /\ claims'[c].owner = o /\ claims'[c].expiration = EpochSeconds + sub.timeout
<1>1. claims \in [ClaimKeys -> Claim] /\ EpochSeconds \in Nat /\ sub.timeout \in Nat
  BY RuntimeConstants DEF TypeInv
<1>2. EpochSeconds + sub.timeout \in Nat
  BY <1>1
<1> DEFINE q == [state |-> "running", owner |-> o, expiration |-> EpochSeconds + sub.timeout]
<1>3. q \in Claim /\ q.state = "running" /\ q.owner = o /\ q.expiration = EpochSeconds + sub.timeout
  BY <1>2 DEF Claim
<1>4. claims' = [claims EXCEPT ![c] = q]
  BY DEF Take
<1> HIDE DEF q
<1> QED
  BY <1>1, <1>3, <1>4

LEMMA KeepDoes ==
  ASSUME TypeInv, NEW c \in ClaimKeys, NEW o \in Owners, NEW state \in {"done", "unknown"}, Keep(c, o, state)
  PROVE  /\ claims' \in [ClaimKeys -> Claim] /\ \A d \in ClaimKeys : d # c => claims'[d] = claims[d]
         /\ claims[c].owner # o => claims'[c] = claims[c]
         /\ claims[c].owner = o => claims'[c].state = state /\ claims'[c].owner = o
<1>1. claims \in [ClaimKeys -> Claim] /\ EpochSeconds \in Nat /\ Ttl \in Nat
  BY RuntimeConstants DEF TypeInv
<1>2. EpochSeconds + Ttl \in Nat /\ claims[c] \in Claim
  BY <1>1
<1> DEFINE q == [claims[c] EXCEPT !.state = state, !.expiration = EpochSeconds + Ttl]
<1>3. q \in Claim /\ q.state = state /\ q.owner = claims[c].owner
  BY <1>2 DEF Claim
<1>4. claims' = IF claims[c].owner = o THEN [claims EXCEPT ![c] = q] ELSE claims
  BY <1>1 DEF Keep
<1> HIDE DEF q
<1> QED
  BY <1>1, <1>3, <1>4

LEMMA ReleaseDoes ==
  ASSUME TypeInv, NEW c \in ClaimKeys, NEW o \in Owners, Release(c, o)
  PROVE  /\ claims' \in [ClaimKeys -> Claim] /\ \A d \in ClaimKeys : d # c => claims'[d] = claims[d]
         /\ claims[c].owner # o => claims'[c] = claims[c]
         /\ claims[c].owner = o => claims'[c] = NoClaim
BY NoClaimType DEF Release, TypeInv

\* A record changes what is free or its own, and owns or gives back what it changes.
LEMMA ClaimsOfRecord ==
  ASSUME RuntimeInv, NEW v \in Invocations, NEW i, RecordGoes(v, i)
  PROVE  /\ claims' \in [ClaimKeys -> Claim]
         /\ \A c \in ClaimKeys :
              \/ claims'[c] = claims[c]
              \/ /\ IsFree(c) \/ claims[c].owner = <<v, i>>
                 /\ claims'[c] = NoClaim \/ (claims'[c].owner = <<v, i>> /\ claims'[c].state # "none")
<1> DEFINE k == ClaimOf(v, i)
           o == <<v, i>>
           r == record[v][i]
<1>1. TypeInv /\ i \in DOMAIN calls[v].batch /\ ClaimsMove(v, i) /\ Flags(r)
  BY DEF RecordGoes, RecordMoves, RuntimeInv, RecordInv
<1>2. k \in ClaimKeys /\ o \in Owners /\ \A s \in Slots : SlotKey(MessageOf(v, i).tenant, s) \in ClaimKeys
  BY <1>1, MessageType, OwnerType
<1> HIDE DEF k, o
<1>3. CASE LeavesClaims(v, i)
  BY <1>1, <1>3 DEF LeavesClaims, TypeInv
<1>4. CASE TakesKey(v, i)
  <2>1. IsFree(k) /\ Take(k, o)
    BY <1>4 DEF TakesKey, k, o
  <2> QED
    BY <1>1, <1>2, <2>1, TakeDoes DEF o
<1>5. CASE \E s \in Slots : TakesSlot(v, i, s)
  <2>1. PICK c \in ClaimKeys : IsFree(c) /\ Take(c, o)
    BY <1>2, <1>5 DEF TakesSlot, o
  <2> QED
    BY <1>1, <1>2, <2>1, TakeDoes DEF o
<1>6. CASE SettlesKey(v, i)
  <2>1. Release(k, o) \/ Keep(k, o, "done") \/ Keep(k, o, "unknown")
    BY <1>6 DEF SettlesKey, k, o
  <2> QED
    BY <1>1, <1>2, <2>1, ReleaseDoes, KeepDoes DEF o
<1>7. CASE ReleasesSlot(v, i)
  <2>1. r.pc = "free"
    BY <1>7 DEF ReleasesSlot
  <2>2. r.slot \in Slots
    BY <1>1, <2>1 DEF Flags, Sound
  <2>3. PICK c \in ClaimKeys : Release(c, o)
    BY <1>2, <1>7, <2>2 DEF ReleasesSlot, o
  <2> QED
    BY <1>1, <1>2, <2>3, ReleaseDoes DEF o
<1> QED
  BY <1>1, <1>3, <1>4, <1>5, <1>6, <1>7 DEF ClaimsMove

\* A lease just taken lasts for as long as the invocation may.
LEMMA TakenLeases ==
  ASSUME TypeInv, NEW v \in Invocations, NEW i \in DOMAIN calls[v].batch, calls[v].is = "running",
         NEW c \in ClaimKeys, Take(c, <<v, i>>), sub' = sub, CallStays(v)
  PROVE  Leases(v, i, c)'
<1> DEFINE e == EpochSeconds
           t == sub.timeout
<1>1. /\ e \in Nat /\ t \in Nat /\ Second \in Nat /\ now \in Nat /\ now < e * Second + Second /\ calls[v].start \in Nat
  BY RuntimeConstants, NumbersOf DEF TypeInv
<1>2. /\ claims'[c].state = "running" /\ claims'[c].owner = <<v, i>> /\ claims'[c].expiration = e + t
  BY OwnerType, TakeDoes
<1>3. calls[v].start <= now
  BY DEF TypeInv, CallInv
<1> HIDE DEF e, t
<1>4. (e + t) * Second = e * Second + t * Second /\ e * Second \in Nat /\ t * Second \in Nat
  BY <1>1
<1>5. (e + t) * Second + Second > calls[v].start + t * Second
  BY <1>1, <1>3, <1>4
<1> QED
  BY <1>2, <1>5 DEF Leases, CallStays, t

\* The record has the leases it says it has.
LEMMA LeasesOfRecord ==
  ASSUME RuntimeInv, NEW v \in Invocations, NEW i, RecordGoes(v, i), CallStays(v), TimeStays,
         NEW r_ \in Record, r_ = record'[v][i]
  PROVE  /\ HasKey(r_) => Late(v)' \/ Leases(v, i, ClaimOf(v, i))'
         /\ r_.slot # 0 => Late(v)' \/ Leases(v, i, SlotKey(MessageOf(v, i).tenant, r_.slot))'
<1> DEFINE r == record[v][i]
<1>1. /\ TypeInv /\ SentInv /\ i \in DOMAIN calls[v].batch /\ ClaimsMove(v, i) /\ RecordInv(v, i)
      /\ UNCHANGED <<sub, now>> /\ calls[v].is = "running" /\ Flags(r)
  BY DEF RecordGoes, RecordMoves, RuntimeInv, RecordInv, TypeInv
<1>2. MessagesMove
  BY RecordGoesMessages
<1>3. ClaimOf(v, i)' = ClaimOf(v, i) /\ MessageOf(v, i)' = MessageOf(v, i)
  BY <1>1, <1>2, MessageType DEF ClaimOf, MessageOf, CallStays, MessagesMove
<1>k. PICK k \in ClaimKeys : k = ClaimOf(v, i) /\ k = ClaimOf(v, i)'
  BY <1>1, <1>3, MessageType
<1>o. PICK o \in Owners : o = <<v, i>>
  BY <1>1, OwnerType
<1>4. ASSUME NEW s \in Nat, s # 0
      PROVE  SlotKey(MessageOf(v, i).tenant, s) = SlotKey(MessageOf(v, i)'.tenant, s)
             /\ SlotKey(MessageOf(v, i).tenant, s) # k
  BY <1>1, <1>3, <1>4, <1>k, MessageType DEF SlotKey
<1>5. \A c : Leases(v, i, c) /\ claims'[c] = claims[c] => Leases(v, i, c)'
  BY <1>1 DEF Leases, CallStays
<1>6. Late(v) => Late(v)'
  BY <1>1 DEF Late, CallStays
<1>7. CASE Late(v)
  BY <1>6, <1>7
<1>8. CASE ~Late(v)
  <2>1. HasKey(r) => Leases(v, i, k)
    BY <1>1, <1>k, <1>8 DEF RecordInv
  <2>2. r.slot # 0 => Leases(v, i, SlotKey(MessageOf(v, i).tenant, r.slot)) /\ r.slot \in Slots
    BY <1>1, <1>8 DEF RecordInv, Flags, Sound
  <2>3. r.slot # 0 => SlotKey(MessageOf(v, i).tenant, r.slot) \in ClaimKeys
    BY <1>1, <2>2, MessageType
  <2>4. SUFFICES /\ HasKey(r_) => Leases(v, i, k)'
                 /\ r_.slot # 0 => \E c : c = SlotKey(MessageOf(v, i).tenant, r_.slot) /\ Leases(v, i, c)'
    <3>1. r_.slot \in Nat
      BY DEF Record
    <3> QED
      BY <1>k, <1>4, <3>1
  <2>5. r_.slot \in Nat /\ (r.slot # 0 => r.slot \in Nat)
    BY <1>1, <2>2 DEF Record, Slots
  <2>6. CASE LeavesClaims(v, i)
    <3>1. claims' = claims /\ (HasKey(r_) => HasKey(r)) /\ (r_.slot # 0 => r_.slot = r.slot)
      BY <2>6 DEF LeavesClaims
    <3> QED
      BY <1>5, <2>1, <2>2, <3>1
  <2>7. CASE TakesKey(v, i)
    <3>1. Take(k, o) /\ r_.slot = 0
      BY <1>k, <1>o, <2>7 DEF TakesKey
    <3>2. Leases(v, i, k)'
      BY <1>1, <1>o, <3>1, TakenLeases
    <3> QED
      BY <3>1, <3>2
  <2>8. CASE \E s \in Slots : TakesSlot(v, i, s)
    <3>1. PICK s \in Slots : TakesSlot(v, i, s)
      BY <2>8
    <3>2. s \in Nat /\ s # 0
      BY <1>1, RuntimeConstants DEF Slots
    <3>c. PICK c \in ClaimKeys : c = SlotKey(MessageOf(v, i).tenant, s)
      BY <1>1, MessageType
    <3>3. Take(c, o) /\ (HasKey(r_) => HasKey(r)) /\ (r_.slot # 0 => r_.slot = s) /\ c # k
      BY <1>o, <1>4, <3>1, <3>2, <3>c DEF TakesSlot
    <3>4. Leases(v, i, c)' /\ claims'[k] = claims[k]
      <4>1. Leases(v, i, c)'
        BY <1>1, <1>o, <3>3, TakenLeases
      <4>2. claims'[k] = claims[k]
        BY <1>1, <3>3, TakeDoes
      <4> QED
        BY <4>1, <4>2
    <3> QED
      BY <1>5, <2>1, <3>3, <3>4, <3>c
  <2>9. CASE SettlesKey(v, i)
    <3>1. ~HasKey(r_) /\ r_.slot = r.slot
      BY <2>9 DEF SettlesKey
    <3>2. Release(k, o) \/ Keep(k, o, "done") \/ Keep(k, o, "unknown")
      BY <1>k, <1>o, <2>9 DEF SettlesKey
    <3>3. \A c \in ClaimKeys : c # k => claims'[c] = claims[c]
      BY <1>1, <3>2, ReleaseDoes, KeepDoes
    <3>4. SUFFICES ASSUME r.slot # 0
                   PROVE  \E c : c = SlotKey(MessageOf(v, i).tenant, r_.slot) /\ Leases(v, i, c)'
      BY <3>1
    <3>c. PICK c \in ClaimKeys : c = SlotKey(MessageOf(v, i).tenant, r.slot)
      BY <2>3, <3>4
    <3>5. c # k /\ Leases(v, i, c)
      BY <1>4, <2>2, <2>5, <3>4, <3>c
    <3> QED
      BY <1>5, <3>1, <3>3, <3>5, <3>c
  <2>10. CASE ReleasesSlot(v, i)
    BY <2>10 DEF ReleasesSlot
  <2> QED
    BY <1>1, <2>6, <2>7, <2>8, <2>9, <2>10 DEF ClaimsMove
<1> QED
  BY <1>7, <1>8
\* A key that may be kept may be so later on.
LEMMA KeptOfStays ==
  ASSUME SentInv, MessagesMove, NEW c, KeptOf(c)
  PROVE  KeptOf(c)'
<1>1. PICK key \in Keys : c = IdempotencyKey(key) /\ \E j \in ran : sent[j].key = key
  BY DEF KeptOf
<1>2. PICK j \in ran : sent[j].key = key
  BY <1>1
<1>3. j \in ran' /\ sent'[j] = sent[j] /\ sub' = sub
  BY <1>2 DEF MessagesMove, SentInv
<1> QED
  BY <1>1, <1>2, <1>3 DEF KeptOf, IdempotencyKey

\* A settled message of an idempotent subscription is one whose key may be kept.
LEMMA SettledKept ==
  ASSUME TypeInv, NEW v \in Invocations, NEW i \in DOMAIN calls[v].batch, sub.idempotent,
         Settled(MessageOf(v, i).origin)
  PROVE  KeptOf(ClaimOf(v, i))
<1> DEFINE m == calls[v].batch[i]
<1>1. m \in DOMAIN sent /\ MessageOf(v, i) = sent[m] /\ sent[m].key \in Keys /\ sent[sent[m].origin].key = sent[m].key
  BY MessageType, OriginType DEF MessageOf, TypeInv
<1>2. PICK j \in ran : j = sent[m].origin \/ sent[j].key = sent[sent[m].origin].key
  BY <1>1 DEF Settled
<1>3. sent[j].key = sent[m].key
  BY <1>1, <1>2
<1>4. ClaimOf(v, i) = IdempotencyKey(sent[m].key)
  BY <1>1 DEF ClaimOf
<1> QED
  BY <1>1, <1>3, <1>4 DEF KeptOf

\* A key that is kept is one whose message is settled.
LEMMA KeptSettled ==
  ASSUME RuntimeInv, NEW v \in Invocations, NEW i \in DOMAIN calls[v].batch, sub.idempotent,
         ~IsFree(ClaimOf(v, i)), claims[ClaimOf(v, i)].state # "running"
  PROVE  Settled(MessageOf(v, i).origin)
<1> DEFINE m == calls[v].batch[i]
           c == ClaimOf(v, i)
<1>1. TypeInv /\ SentInv /\ c \in ClaimKeys /\ OwnerInv(c) /\ claims[c] \in Claim
  BY MessageType, NumbersOf DEF RuntimeInv, TypeInv
<1>2. claims[c].state # "none"
  <2>1. SUFFICES ASSUME claims[c].state = "none"
                 PROVE  FALSE
    OBVIOUS
  <2>2. claims[c].expiration = 0
    BY <1>1, <2>1, NoClaimType DEF OwnerInv
  <2>3. EpochSeconds \in Nat
    BY <1>1, RuntimeConstants
  <2> QED
    BY <2>2, <2>3 DEF IsFree
<1>3. claims[c].state \in {"done", "unknown"}
  BY <1>1, <1>2 DEF Claim
<1>4. KeptOf(c)
  BY <1>1, <1>3 DEF OwnerInv
<1>5. PICK key \in Keys : c = IdempotencyKey(key) /\ \E j \in ran : sent[j].key = key
  BY <1>4 DEF KeptOf
<1>6. m \in DOMAIN sent /\ MessageOf(v, i) = sent[m] /\ sent[sent[m].origin].key = sent[m].key
  BY <1>1, MessageType, OriginType DEF MessageOf
<1>7. key = sent[m].key
  BY <1>5, <1>6 DEF ClaimOf, IdempotencyKey
<1> QED
  BY <1>5, <1>6, <1>7 DEF Settled

\* Owners a step leaves alone.
LEMMA OwnedByStays ==
  ASSUME TypeInv, MessagesMove, TimeStays, NEW v \in Invocations, NEW i, NEW c, NEW state, OwnedBy(v, i, c, state),
         calls[v].is = "running" => CallStays(v) /\ record'[v][i] = record[v][i],
         calls'[v].is \in {calls[v].is, "over"}
  PROVE  OwnedBy(v, i, c, state)'
<1>1. CASE calls'[v].is = "over"
  BY <1>1 DEF OwnedBy
<1>2. CASE calls[v].is # "running" /\ calls'[v].is = calls[v].is
  BY <1>2 DEF OwnedBy
<1>3. CASE calls[v].is = "running" /\ calls'[v].is = calls[v].is
  <2>1. i \in DOMAIN calls[v].batch
    BY <1>3 DEF OwnedBy
  <2>2. MessageOf(v, i)' = MessageOf(v, i) /\ ClaimOf(v, i)' = ClaimOf(v, i)
    BY <1>3, <2>1, MessageType DEF MessageOf, ClaimOf, CallStays, MessagesMove
  <2>3. faults' = 0 => faults = 0
    BY RuntimeConstants DEF TypeInv, TimeStays
  <2>4. PICK r : r = record[v][i] /\ r = record'[v][i]
    BY <1>3
  <2> QED
    BY <1>3, <2>1, <2>2, <2>3, <2>4 DEF OwnedBy, CallStays
<1> QED
  BY <1>1, <1>2, <1>3
\* The record itself as an owner.
LEMMA RecordOwns ==
  ASSUME RuntimeInv, NEW v \in Invocations, NEW i, RecordGoes(v, i), CallStays(v), TimeStays,
         NEW c \in ClaimKeys, claims'[c].owner = <<v, i>>, NEW r_ \in Record, r_ = record'[v][i]
  PROVE  /\ claims'[c].state \in {"done", "unknown"} => r_.pc \in {"ack", "consume", "free", "over"} /\ KeptOf(c)'
         /\ faults' = 0 /\ claims'[c].state = "running" =>
              \/ HasKey(r_) /\ c = ClaimOf(v, i)
              \/ r_.slot # 0 /\ c = SlotKey(MessageOf(v, i).tenant, r_.slot)
<1> DEFINE r == record[v][i]
<1>1. /\ TypeInv /\ SentInv /\ i \in DOMAIN calls[v].batch /\ ClaimsMove(v, i) /\ RecordInv(v, i) /\ OwnerInv(c)
      /\ calls[v].is = "running" /\ Flags(r) /\ r.pc # "over" /\ r_.pc # "queued" /\ RecordMoves(v, i)
  BY DEF RecordGoes, RecordMoves, RuntimeInv, RecordInv, TypeInv
<1>2. MessagesMove
  BY RecordGoesMessages
<1>3. faults' = 0 => faults = 0
  BY <1>1, RuntimeConstants DEF TimeStays
<1>k. PICK k \in ClaimKeys : k = ClaimOf(v, i)
  BY <1>1, MessageType
<1>o. PICK o \in Owners : o = <<v, i>> /\ o # NoOwner
  BY <1>1, OwnerType
<1>4. ASSUME claims[c].owner = o
      PROVE  /\ r.pc # "queued" /\ (claims[c].state \in {"done", "unknown"} => r.pc \in {"ack", "consume", "free"})
             /\ faults = 0 /\ claims[c].state = "running" =>
                  \/ HasKey(r) /\ c = k
                  \/ r.slot # 0 /\ c = SlotKey(MessageOf(v, i).tenant, r.slot)
  <2>1. i \in 1..sub.batchSize
    BY <1>1, OwnerType
  <2>2. OwnedBy(v, i, c, claims[c].state)
    BY <1>1, <1>4, <1>o, <2>1 DEF OwnerInv
  <2> QED
    BY <1>1, <1>k, <2>2 DEF OwnedBy
<1>5. r.pc \in {"ack", "consume", "free"} => r_.pc \in {"free", "over"}
  BY <1>1 DEF RecordMoves
<1>6. claims'[c] = claims[c] /\ claims'[c].state \in {"done", "unknown"}
        => r_.pc \in {"ack", "consume", "free", "over"} /\ KeptOf(c)'
  BY <1>1, <1>2, <1>4, <1>5, <1>o, KeptOfStays DEF OwnerInv
<1>7. CASE LeavesClaims(v, i)
  BY <1>3, <1>4, <1>6, <1>7, <1>k, <1>o DEF LeavesClaims
<1>8. CASE TakesKey(v, i)
  <2>1. Take(k, o) /\ r.pc = "queued" /\ (faults' = 0 => HasKey(r_))
    BY <1>8, <1>k, <1>o DEF TakesKey
  <2>2. claims'[k].state = "running" /\ (c # k => claims'[c] = claims[c])
    BY <1>1, <2>1, TakeDoes
  <2>3. c = k
    BY <1>4, <1>o, <2>1, <2>2
  <2> QED
    BY <1>k, <2>1, <2>2, <2>3
<1>9. CASE \E s \in Slots : TakesSlot(v, i, s)
  <2>1. PICK s \in Slots : TakesSlot(v, i, s)
    BY <1>9
  <2>2. s # 0
    BY <1>1, RuntimeConstants DEF Slots
  <2>3. PICK d \in ClaimKeys : d = SlotKey(MessageOf(v, i).tenant, s)
    BY <1>1, MessageType
  <2>4. Take(d, o) /\ r.pc = "slot" /\ (faults' = 0 => r_.slot = s /\ (HasKey(r) => HasKey(r_)))
    BY <1>o, <2>1, <2>3 DEF TakesSlot
  <2>5. claims'[d].state = "running" /\ (c # d => claims'[c] = claims[c])
    BY <1>1, <2>4, TakeDoes
  <2>6. r.slot = 0
    BY <1>1, <2>4 DEF Flags, Sound
  <2>7. CASE c = d
    BY <2>2, <2>3, <2>4, <2>5, <2>7
  <2>8. CASE c # d
    BY <1>3, <1>4, <1>6, <1>k, <1>o, <2>4, <2>5, <2>6, <2>8
  <2> QED
    BY <2>7, <2>8
<1>10. CASE SettlesKey(v, i)
  <2>1. HasKey(r) /\ r_.slot = r.slot
    BY <1>10 DEF SettlesKey
  <2>2. CASE Release(k, o)
    <3>1. (c # k => claims'[c] = claims[c]) /\ (claims[k].owner # o => claims'[k] = claims[k])
          /\ (claims[k].owner = o => claims'[k] = NoClaim)
      BY <1>1, <2>2, ReleaseDoes
    <3>2. c # k
      BY <1>1, <1>o, <3>1, NoClaimType
    <3> QED
      BY <1>3, <1>4, <1>6, <1>k, <1>o, <2>1, <3>1, <3>2
  <2>3. CASE /\ Keep(k, o, "done") \/ Keep(k, o, "unknown")
             /\ Done(r) /\ r_.pc \in {"ack", "consume", "free", "over"}
    <3>1. (c # k => claims'[c] = claims[c]) /\ (claims[k].owner # o => claims'[k] = claims[k])
          /\ (claims[k].owner = o => claims'[k].state \in {"done", "unknown"})
      BY <1>1, <2>3, KeepDoes
    <3>2. CASE c = k
      <4>1. claims'[k].state \in {"done", "unknown"}
        BY <1>o, <3>1, <3>2
      <4>2. sub.idempotent /\ Settled(MessageOf(v, i).origin)
        BY <1>1, <2>1, <2>3 DEF RecordInv, Flags, Sound, HasKey
      <4>3. KeptOf(k)'
        BY <1>1, <1>2, <1>k, <4>2, SettledKept, KeptOfStays
      <4> QED
        BY <2>3, <3>2, <4>1, <4>3
    <3>3. CASE c # k
      BY <1>3, <1>4, <1>6, <1>k, <1>o, <2>1, <3>1, <3>3
    <3> QED
      BY <3>2, <3>3
  <2> QED
    BY <1>10, <1>k, <1>o, <2>2, <2>3 DEF SettlesKey
<1>11. CASE ReleasesSlot(v, i)
  <2>1. r.pc = "free" /\ Release(SlotKey(MessageOf(v, i).tenant, r.slot), o)
    BY <1>11, <1>o DEF ReleasesSlot
  <2>2. ~HasKey(r) /\ r.slot \in Slots /\ r.slot # 0
    BY <1>1, <2>1 DEF Flags, Sound, HasKey, KeyPlaces
  <2>3. PICK d \in ClaimKeys : d = SlotKey(MessageOf(v, i).tenant, r.slot)
    BY <1>1, <2>2, MessageType
  <2>4. (c # d => claims'[c] = claims[c]) /\ (claims[d].owner # o => claims'[d] = claims[d])
        /\ (claims[d].owner = o => claims'[d] = NoClaim)
    BY <1>1, <2>1, <2>3, ReleaseDoes
  <2>5. c # d
    BY <1>1, <1>o, <2>4, NoClaimType
  <2> QED
    BY <1>3, <1>4, <1>6, <1>o, <2>2, <2>3, <2>4, <2>5
<1> QED
  BY <1>1, <1>7, <1>8, <1>9, <1>10, <1>11 DEF ClaimsMove

\* Every item after a step of a record.
LEMMA OwnersOfRecord ==
  ASSUME RuntimeInv, NEW v \in Invocations, NEW i, RecordGoes(v, i), CallStays(v), TimeStays,
         \A w \in Invocations : CallStays(w), NEW c \in ClaimKeys
  PROVE  OwnerInv(c)'
<1>1. /\ TypeInv /\ SentInv /\ i \in DOMAIN calls[v].batch /\ OwnerInv(c) /\ calls[v].is = "running" /\ Goes(v, i)
      /\ record'[v][i].pc # "queued" /\ sub' = sub
  BY DEF RecordGoes, RecordMoves, RuntimeInv, TypeInv
<1>2. MessagesMove
  BY RecordGoesMessages
<1>o. PICK o \in Owners : o = <<v, i>> /\ o # NoOwner
  BY <1>1, OwnerType
<1>3. \/ claims'[c] = claims[c] \/ claims'[c].owner = o \/ claims'[c] = NoClaim
  BY <1>o, ClaimsOfRecord
<1>r. PICK r_ \in Record : r_ = record'[v][i]
  BY <1>1 DEF Goes
<1>4. CASE claims'[c].owner = o
  <2>1. /\ claims'[c].state \in {"done", "unknown"} => r_.pc \in {"ack", "consume", "free", "over"} /\ KeptOf(c)'
        /\ faults' = 0 /\ claims'[c].state = "running" =>
              \/ HasKey(r_) /\ c = ClaimOf(v, i)
              \/ r_.slot # 0 /\ c = SlotKey(MessageOf(v, i).tenant, r_.slot)
    BY <1>4, <1>o, <1>r, RecordOwns
  <2>2. MessageOf(v, i)' = MessageOf(v, i) /\ ClaimOf(v, i)' = ClaimOf(v, i)
    BY <1>1, <1>2, MessageType DEF MessageOf, ClaimOf, CallStays, MessagesMove
  <2>3. OwnedBy(v, i, c, claims[c].state)'
    BY <1>1, <1>r, <2>1, <2>2 DEF OwnedBy, CallStays
  <2>4. claims'[c].state # "none"
    <3>1. claims'[c] # NoClaim
      BY <1>1, <1>4, <1>o, NoClaimType
    <3>2. claims'[c] = claims[c] => claims'[c].state # "none"
      BY <1>1, <3>1 DEF OwnerInv
    <3> QED
      BY <3>1, <3>2, ClaimsOfRecord
  <2>5. \A w \in Invocations, j \in 1..sub'.batchSize : claims'[c].owner = <<w, j>> => w = v /\ j = i
    BY <1>4, <1>o
  <2> QED
    BY <2>1, <2>3, <2>4, <2>5 DEF OwnerInv
<1>5. CASE claims'[c] = NoClaim
  <2>1. claims'[c].state = "none" /\ claims'[c].owner = NoOwner
    BY <1>1, <1>5, NoClaimType
  <2>2. \A w, j : <<w, j>> # NoOwner
    BY DEF NoOwner
  <2> QED
    BY <1>5, <2>1, <2>2 DEF OwnerInv, NoClaim
<1>6. CASE claims'[c] = claims[c] /\ claims'[c].owner # o
  <2>1. ASSUME NEW w \in Invocations, NEW j \in 1..sub.batchSize, claims[c].owner = <<w, j>>
        PROVE  OwnedBy(w, j, c, claims[c].state)'
    <3>1. OwnedBy(w, j, c, claims[c].state) /\ CallStays(w)
      BY <1>1, <2>1 DEF OwnerInv
    <3>2. <<w, j>> # <<v, i>>
      BY <1>6, <1>o, <2>1
    <3>3. calls[w].is = "running" => record'[w][j] = record[w][j]
      BY <1>1, <3>1, <3>2 DEF OwnedBy, Goes
    <3>4. calls'[w].is \in {calls[w].is, "over"}
      BY <3>1 DEF CallStays
    <3>5. PICK state : state = claims[c].state /\ state = claims'[c].state
      BY <1>6
    <3> QED
      BY <1>1, <1>2, <3>1, <3>3, <3>4, <3>5, OwnedByStays
  <2>2. claims[c].state \in {"done", "unknown"} => KeptOf(c)'
    BY <1>1, <1>2, KeptOfStays DEF OwnerInv
  <2>3. claims[c].state = "none" => claims[c] = NoClaim
    BY <1>1 DEF OwnerInv
  <2>4. NoClaim' = NoClaim
    BY DEF NoClaim, NoOwner
  <2> QED
    BY <1>1, <1>6, <2>1, <2>2, <2>3, <2>4 DEF OwnerInv
<1> QED
  BY <1>3, <1>4, <1>5, <1>6
-----------------------------------------------------------------------------
(* A step of a record keeps the invariant                                  *)

\* What a step of a record leaves to the other records.
LEMMA RecordGoesFrame ==
  ASSUME RuntimeInv, NEW v \in Invocations, NEW i, RecordGoes(v, i)
  PROVE  /\ \A w \in Invocations : CallStays(w) /\ record'[w] \in [DOMAIN calls[w].batch -> Record]
         /\ TimeStays
         /\ \A w \in Invocations, j \in Nat : <<w, j>> # <<v, i>> => ClaimsStay(w, j)
<1>1. /\ TypeInv /\ SentInv /\ Goes(v, i) /\ UNCHANGED <<sub, now>> /\ faults' \in Nat /\ faults <= faults'
      /\ calls[v].failed => calls'[v].failed
  BY DEF RecordGoes, RecordMoves, RuntimeInv, TypeInv
<1>2. \A w \in Invocations : record[w] \in [DOMAIN calls[w].batch -> Record]
  BY <1>1 DEF TypeInv, CallInv
<1>3. \A w \in Invocations : CallStays(w)
  BY <1>1 DEF Goes, CallStays
<1>4. \A w \in Invocations : record'[w] \in [DOMAIN calls[w].batch -> Record]
  BY <1>1, <1>2 DEF Goes
<1>5. TimeStays
  BY <1>1, RuntimeConstants DEF TimeStays
<1>6. ASSUME NEW w \in Invocations, NEW j \in Nat, <<w, j>> # <<v, i>>
      PROVE  ClaimsStay(w, j)
  BY <1>6, ClaimsOfRecord DEF ClaimsStay
<1> QED
  BY <1>3, <1>4, <1>5, <1>6

\* The record itself.
LEMMA RecordOfRecord ==
  ASSUME RuntimeInv, NEW v \in Invocations, NEW i, RecordGoes(v, i)
  PROVE  RecordInv(v, i)'
<1> DEFINE r == record[v][i]
           m == calls[v].batch[i]
<1>1. /\ TypeInv /\ SentInv /\ i \in DOMAIN calls[v].batch /\ Goes(v, i) /\ RecordMoves(v, i) /\ QueueMoves(v, i)
      /\ RecordInv(v, i) /\ Flags(record'[v][i]) /\ UNCHANGED <<sub, now>> /\ (faults' = 0 => ~record'[v][i].fatal)
  BY DEF RecordGoes, RecordMoves, RuntimeInv, TypeInv
<1>2. MessagesMove /\ CallStays(v) /\ TimeStays
  BY RecordGoesMessages, RecordGoesFrame
<1>r. PICK r_ \in Record : r_ = record'[v][i]
  BY <1>1 DEF Goes
<1>3. m \in DOMAIN sent /\ sent'[m] = sent[m] /\ sent[m].origin \in DOMAIN sent /\ sent[m] = MessageOf(v, i)
  BY <1>1, <1>2, MessageType, OriginType DEF MessagesMove, MessageOf
<1>4. MessageOf(v, i)' = MessageOf(v, i) /\ ClaimOf(v, i)' = ClaimOf(v, i) /\ calls'[v].batch[i] = m
  BY <1>2, <1>3 DEF MessageOf, ClaimOf, CallStays
<1>5. Flags(r_)'
  BY <1>1, <1>r DEF Flags, Sound, Slots
<1>6. /\ HasKey(r_) => Late(v)' \/ Leases(v, i, ClaimOf(v, i))'
      /\ r_.slot # 0 => Late(v)' \/ Leases(v, i, SlotKey(MessageOf(v, i).tenant, r_.slot))'
  BY <1>2, <1>r, LeasesOfRecord
<1>o. PICK o \in DOMAIN sent : o = sent[m].origin /\ o = MessageOf(v, i).origin /\ o = MessageOf(v, i)'.origin
  BY <1>3, <1>4
<1>d. PICK d \in DOMAIN sent : d = m /\ d = calls'[v].batch[i]
  BY <1>3, <1>4
<1>7. o \in ran' => Settled(o)'
  BY DEF Settled
<1>8. Settled(o)' => MayLeave(d)'
  BY <1>2, <1>3, <1>o, <1>d DEF MayLeave
<1>9. Doomed(r_, calls'[v].failed) => MayLeave(d)'
  <2>1. SUFFICES ASSUME Doomed(r_, calls'[v].failed)
                 PROVE  MayLeave(d)'
    OBVIOUS
  <2>2. \/ Doomed(r, calls[v].failed) \/ Copies(v, i) \/ o \in ran'
        \/ sub.idempotent /\ ~IsFree(ClaimOf(v, i)) /\ claims[ClaimOf(v, i)].state # "running"
    BY <1>1, <1>r, <1>o, <2>1 DEF QueueMoves
  <2>3. CASE Doomed(r, calls[v].failed)
    <3>1. MayLeave(d)
      BY <1>1, <1>d, <2>3 DEF RecordInv
    <3> QED
      BY <1>1, <1>2, <3>1, MayLeaveStays
  <2>4. CASE Copies(v, i)
    <3> DEFINE n == Len(sent) + 1
    <3>1. n \in DOMAIN queue' /\ d < n /\ sent'[n].origin = o /\ sent'[d].origin = o
      BY <1>1, <1>3, <1>o, <1>d, <2>4, CopiesDoes
    <3> QED
      BY <3>1 DEF MayLeave
  <2>5. CASE sub.idempotent /\ ~IsFree(ClaimOf(v, i)) /\ claims[ClaimOf(v, i)].state # "running"
    BY <1>1, <1>2, <1>8, <1>o, <2>5, KeptSettled, SettledStays
  <2> QED
    BY <1>7, <1>8, <2>2, <2>3, <2>4, <2>5
<1>10. Done(r_) => Settled(o)'
  <2>1. Done(r_) => Done(r) \/ o \in ran'
    BY <1>1, <1>r, <1>o DEF QueueMoves
  <2>2. Done(r) => Settled(o)
    BY <1>1, <1>o DEF RecordInv
  <2> QED
    BY <1>1, <1>2, <1>7, <2>1, <2>2, SettledStays
<1>11. faults' = 0 /\ DeleteEach(v)' /\ r_.pc \in {"free", "over"} /\ ~r_.handedBack => ~IsCurrent(v, i)'
  <2>1. SUFFICES ASSUME faults' = 0, DeleteEach(v)', r_.pc \in {"free", "over"}, ~r_.handedBack
                 PROVE  ~IsCurrent(v, i)'
    OBVIOUS
  <2>2. DeleteEach(v) /\ faults = 0
    <3>1. faults \in Nat
      BY <1>1, RuntimeConstants
    <3> QED
      BY <1>1, <1>2, <2>1, <3>1 DEF DeleteEach, CallStays, TimeStays
  <2>3. (r.pc = "free" /\ ~r.handedBack) \/ Deletes(v, i)
    BY <1>1, <1>r, <2>1, <2>2 DEF QueueMoves
  <2>4. ~IsCurrent(v, i) => ~IsCurrent(v, i)'
    BY <1>1, <1>2, NotCurrentStays
  <2>5. CASE r.pc = "free" /\ ~r.handedBack
    BY <1>1, <2>2, <2>4, <2>5 DEF RecordInv
  <2>6. CASE Deletes(v, i) /\ IsCurrent(v, i)
    <3>1. m \notin DOMAIN queue'
      BY <1>1, <2>6, DeletesDoes
    <3> QED
      BY <1>4, <3>1 DEF IsCurrent
  <2> QED
    BY <2>3, <2>4, <2>5, <2>6
<1> QED
  BY <1>1, <1>r, <1>5, <1>6, <1>9, <1>10, <1>11, <1>o, <1>d DEF RecordInv

\* A record of a FIFO queue begins when what precedes it in its group is settled.
LEMMA BeginsInOrder ==
  ASSUME RuntimeInv, NEW v \in Invocations, NEW i \in DOMAIN calls[v].batch, Begins(v, i), sub.fifo,
         NEW n \in DOMAIN calls[v].batch, n < i, SameGroup(calls[v].batch[i], calls[v].batch[n])
  PROVE  Settled(calls[v].batch[n])
<1> DEFINE m == calls[v].batch[n]
           r == record[v][n]
<1>1. TypeInv /\ SentInv /\ QueueInv /\ CallInv(v) /\ RecordInv(v, n) /\ HasTurn(v, i) /\ ~GroupFailed(v, i) /\ ~calls[v].failed
  BY DEF RuntimeInv, TypeInv, Begins
<1>2. n \in 1..(i - 1)
  <2>1. DOMAIN calls[v].batch = 1..Len(calls[v].batch) /\ Len(calls[v].batch) \in Nat
    BY <1>1, OwnerType
  <2> QED
    BY <2>1
<1>3. SameGroup(m, calls[v].batch[i])
  BY DEF SameGroup
<1>4. r.pc = "over"
  BY <1>1, <1>2, <1>3 DEF HasTurn
<1>5. n \in Over(v)
  BY <1>1, <1>4 DEF Over, CallInv
<1>6. ~r.handedBack
  BY <1>1, <1>3, <1>5 DEF GroupFailed, RecordInv, Flags, Sound
<1>7. MayLeave(m)
  BY <1>1, <1>4, <1>6 DEF RecordInv, Doomed
<1>8. \A j \in DOMAIN queue : sent[j].origin = j
  BY <1>1 DEF SentInv, QueueInv
<1>9. m \in DOMAIN sent /\ sent[m].origin = m /\ m \in Nat
  <2>1. m \in DOMAIN sent
    BY <1>1 DEF CallInv
  <2> QED
    BY <1>1, <2>1, OriginType DEF SentInv
<1>10. ~\E j \in DOMAIN queue : m < j /\ sent[j].origin = sent[m].origin
  BY <1>8, <1>9
<1> QED
  BY <1>7, <1>9, <1>10 DEF MayLeave

\* Its group.
LEMMA GroupOfRecord ==
  ASSUME RuntimeInv, NEW v \in Invocations, NEW i, RecordGoes(v, i)
  PROVE  GroupInv(v, i)'
<1>1. /\ i \in DOMAIN calls[v].batch /\ MessagesMove /\ CallStays(v)
      /\ record[v][i].pc # "over" /\ (record[v][i].pc = "queued" => record'[v][i].pc = "over" \/ Begins(v, i))
  BY RecordGoesMessages, RecordGoesFrame DEF RecordGoes, RecordMoves
<1>2. CASE record'[v][i].pc = "over" \/ record[v][i].pc \notin {"queued", "over"}
  BY <1>1, <1>2, GroupStays
<1>3. CASE Begins(v, i)
  <2>1. sub.fifo => \A m \in DOMAIN calls[v].batch : m < i /\ SameGroup(calls[v].batch[i], calls[v].batch[m])
                                                     => Settled(calls[v].batch[m])
    BY <1>1, <1>3, BeginsInOrder
  <2> QED
    BY <1>1, <2>1, GroupStays
<1> QED
  BY <1>1, <1>2, <1>3

\* A step of a record keeps every part of the invariant.
LEMMA RecordStepKeeps ==
  ASSUME RuntimeInv, NEW v \in Invocations, NEW i, RecordGoes(v, i)
  PROVE  RuntimeInv'
<1>1. /\ TypeInv /\ SentInv /\ i \in DOMAIN calls[v].batch /\ Goes(v, i) /\ UNCHANGED <<sub, now>> /\ NothingLost
      /\ faults' = 0 => (calls'[v].failed => calls[v].failed)
  BY DEF RecordGoes, RecordMoves, RuntimeInv, TypeInv
<1>2. MessagesMove /\ TimeStays
  BY RecordGoesMessages, RecordGoesFrame
<1>3. \A w \in Invocations : CallStays(w) /\ record'[w] \in [DOMAIN calls[w].batch -> Record]
  BY RecordGoesFrame
<1>4. ASSUME NEW w \in Invocations
      PROVE  CallInv(w)'
  <2>1. calls[w].is = "running" => now' <= calls[w].start + sub.timeout * Second
    BY <1>1 DEF TypeInv, CallInv
  <2> QED
    BY <1>1, <1>2, <1>3, <2>1, CallInvStays
<1>5. TypeInv'
  <2>1. claims' \in [ClaimKeys -> Claim]
    BY ClaimsOfRecord
  <2>2. ClaimKeys' = ClaimKeys /\ Claim' = Claim
    BY <1>1 DEF ClaimKeys, Slots, Claim, Owners, Invocations, NoOwner
  <2> QED
    BY <1>1, <1>2, <1>4, <2>1, <2>2 DEF TypeInv, MessagesMove, Goes
<1>6. ASSUME NEW w \in Invocations, NEW j \in DOMAIN calls[w].batch
      PROVE  RecordInv(w, j)' /\ GroupInv(w, j)'
  <2>1. CASE w = v /\ j = i
    BY <2>1, RecordOfRecord, GroupOfRecord
  <2>2. CASE ~(w = v /\ j = i)
    <3>1. <<w, j>> # <<v, i>> /\ j \in Nat
      BY <1>1, <2>2, OwnerType
    <3>2. record'[w][j] = record[w][j]
      BY <1>1, <2>2 DEF Goes
    <3>3. ClaimsStay(w, j) /\ CallStays(w)
      BY <3>1, RecordGoesFrame
    <3> QED
      BY <1>2, <3>2, <3>3, RecordStays, GroupStays
  <2> QED
    BY <2>1, <2>2
<1>7. \A w \in Invocations : faults' = 0 => ~calls'[w].failed
  <2>1. faults' = 0 => faults = 0
    BY <1>1, <1>2, RuntimeConstants DEF TimeStays
  <2> QED
    BY <1>1, <2>1 DEF Goes, RuntimeInv
<1>8. \A c \in ClaimKeys : OwnerInv(c)'
  BY <1>2, <1>3, OwnersOfRecord
<1>9. NothingLost'
  BY <1>1, <1>2, NothingLostStays
<1>10. ClaimKeys' = ClaimKeys /\ \A w \in Invocations : calls'[w].batch = calls[w].batch
  BY <1>1, <1>3 DEF ClaimKeys, Slots, CallStays
<1> QED
  BY <1>5, <1>6, <1>7, <1>8, <1>9, <1>10 DEF RuntimeInv
-----------------------------------------------------------------------------
(* The other steps                                                         *)

\* What the steps that change no claim and no record of an invocation that goes on have in common.
OthersStay(v) ==
  /\ MessagesMove /\ TimeStays /\ claims' = claims
  /\ calls' \in [Invocations -> Call] /\ DOMAIN record' = Invocations
  /\ \A w \in Invocations : w # v => calls'[w] = calls[w] /\ record'[w] = record[w]

\* Such a step keeps the invariant if what it does to its own invocation does.
LEMMA OthersKeep ==
  ASSUME RuntimeInv, NEW v, OthersStay(v),
         \A w \in Invocations : calls[w].is = "running" /\ w # v => now' <= calls[w].start + sub.timeout * Second,
         v \in Invocations =>
           /\ CallInv(v)' /\ (faults' = 0 => ~calls'[v].failed)
           /\ \A i \in DOMAIN calls'[v].batch : RecordInv(v, i)' /\ GroupInv(v, i)'
           /\ calls[v].is = "idle" \/ calls'[v].is = "over"
  PROVE  RuntimeInv'
<1>1. /\ TypeInv /\ SentInv /\ MessagesMove /\ TimeStays /\ claims' = claims /\ NothingLost /\ sub' = sub
      /\ \A w \in Invocations : w # v => calls'[w] = calls[w] /\ record'[w] = record[w] /\ CallStays(w)
  BY DEF RuntimeInv, TypeInv, OthersStay, MessagesMove, CallStays
<1>2. \A w \in Invocations : CallInv(w)'
  <2>1. ASSUME NEW w \in Invocations, w # v
        PROVE  CallInv(w)'
    <3>1. record'[w] \in [DOMAIN calls[w].batch -> Record] /\ CallStays(w)
      BY <1>1, <2>1 DEF TypeInv, CallInv
    <3>2. calls[w].is = "running" => now' <= calls[w].start + sub.timeout * Second
      BY <2>1
    <3> QED
      BY <1>1, <3>1, <3>2, CallInvStays
  <2> QED
    BY <2>1
<1>3. ClaimKeys' = ClaimKeys /\ Claim' = Claim
  BY <1>1 DEF ClaimKeys, Slots, Claim, Owners, Invocations, NoOwner
<1>4. TypeInv'
  BY <1>1, <1>2, <1>3 DEF TypeInv, MessagesMove, OthersStay
<1>5. \A w \in Invocations : \A i \in DOMAIN calls'[w].batch : RecordInv(w, i)' /\ GroupInv(w, i)'
  <2>1. ASSUME NEW w \in Invocations, w # v, NEW i \in DOMAIN calls'[w].batch
        PROVE  RecordInv(w, i)' /\ GroupInv(w, i)'
    <3>1. i \in DOMAIN calls[w].batch /\ record'[w][i] = record[w][i] /\ CallStays(w) /\ ClaimsStay(w, i)
      BY <1>1, <2>1 DEF ClaimsStay
    <3> QED
      BY <1>1, <3>1, RecordStays, GroupStays
  <2> QED
    BY <2>1
<1>6. \A w \in Invocations : faults' = 0 => ~calls'[w].failed
  <2>1. faults' = 0 => faults = 0
    BY <1>1, RuntimeConstants DEF TimeStays
  <2> QED
    BY <1>1, <2>1 DEF RuntimeInv
<1>7. ASSUME NEW c \in ClaimKeys
      PROVE  OwnerInv(c)'
  <2>1. OwnerInv(c)
    BY DEF RuntimeInv
  <2>2. ASSUME NEW w \in Invocations, NEW i \in 1..sub.batchSize, claims[c].owner = <<w, i>>
        PROVE  OwnedBy(w, i, c, claims[c].state)'
    <3>1. OwnedBy(w, i, c, claims[c].state)
      BY <2>1, <2>2 DEF OwnerInv
    <3>2. CASE w = v
      BY <3>1, <3>2 DEF OwnedBy
    <3>3. CASE w # v
      <4>1. CallStays(w) /\ record'[w][i] = record[w][i] /\ calls'[w].is \in {calls[w].is, "over"}
        BY <1>1, <3>3
      <4>2. PICK state : state = claims[c].state /\ state = claims'[c].state
        BY <1>1
      <4> QED
        BY <1>1, <3>1, <4>1, <4>2, OwnedByStays
    <3> QED
      BY <3>2, <3>3
  <2>3. claims[c].state \in {"done", "unknown"} => KeptOf(c)'
    BY <1>1, <2>1, KeptOfStays DEF OwnerInv
  <2>4. NoClaim' = NoClaim
    BY DEF NoClaim, NoOwner
  <2> QED
    BY <1>1, <2>1, <2>2, <2>3, <2>4 DEF OwnerInv
<1>8. NothingLost'
  BY <1>1, NothingLostStays
<1> QED
  BY <1>3, <1>4, <1>5, <1>6, <1>7, <1>8 DEF RuntimeInv

LEMMA IdleCallType ==
  /\ IdleCall \in Call /\ IdleCall.is = "idle" /\ IdleCall.batch = <<>> /\ IdleCall.receives = <<>> /\ ~IdleCall.failed
  /\ OverCall \in Call /\ OverCall.is = "over" /\ OverCall.batch = <<>> /\ OverCall.receives = <<>> /\ ~OverCall.failed
<1>1. <<>> \in Seq(Nat)
  OBVIOUS
<1>2. IdleCall \in Call /\ IdleCall.is = "idle" /\ IdleCall.batch = <<>> /\ IdleCall.receives = <<>> /\ ~IdleCall.failed
  BY <1>1 DEF IdleCall, Call
<1> QED
  BY <1>2 DEF OverCall, Call

\* An invocation that returns or dies.
LEMMA CallOverKeeps ==
  ASSUME RuntimeInv, NEW v \in Invocations, calls[v].is = "running", CallOver(v), MessagesMove, TimeStays, claims' = claims,
         now' = now
  PROVE  RuntimeInv'
<1>1. calls \in [Invocations -> Call] /\ DOMAIN record = Invocations /\ TypeInv /\ SentInv
  BY DEF RuntimeInv, TypeInv
<1>2. calls' = [calls EXCEPT ![v] = OverCall] /\ record' = [record EXCEPT ![v] = <<>>]
  BY DEF CallOver
<1>3. /\ calls' \in [Invocations -> Call] /\ DOMAIN record' = Invocations
      /\ \A w \in Invocations : w # v => calls'[w] = calls[w] /\ record'[w] = record[w]
      /\ calls'[v] = OverCall /\ record'[v] = <<>>
  BY <1>1, <1>2, IdleCallType
<1>4. OthersStay(v)
  BY <1>3 DEF OthersStay
<1>5. calls'[v].batch = <<>> /\ calls'[v].receives = <<>> /\ calls'[v].is = "over" /\ ~calls'[v].failed
  BY <1>3, IdleCallType
<1>6. CallInv(v)'
  <2>1. DOMAIN <<>> = {} /\ Len(<<>>) = 0 /\ <<>> \in [{} -> Record]
    OBVIOUS
  <2>2. 0 <= sub'.batchSize
    BY <1>1, RuntimeConstants DEF MessagesMove
  <2> QED
    BY <1>3, <1>5, <2>1, <2>2 DEF CallInv
<1>7. DOMAIN calls'[v].batch = {}
  BY <1>5
<1>8. \A w \in Invocations : calls[w].is = "running" /\ w # v => now' <= calls[w].start + sub.timeout * Second
  BY <1>1 DEF TypeInv, CallInv
<1> QED
  BY <1>4, <1>5, <1>6, <1>7, <1>8, OthersKeep

\* Failures are counted, and time stands still.
LEMMA FaultsDo ==
  ASSUME TypeInv, NEW n \in Nat, Faults(n), UNCHANGED <<sub, now>>
  PROVE  TimeStays /\ faults' \in 0..sub'.faults /\ now' \in 0..sub'.ticks
<1>1. faults \in Nat /\ now \in Nat /\ sub.faults \in Nat /\ now \in 0..sub.ticks
  BY RuntimeConstants DEF TypeInv, SentInv
<1>2. faults' = faults + n /\ faults + n <= sub.faults
  BY DEF Faults
<1>3. faults' \in Nat /\ faults <= faults' /\ faults' <= sub.faults
  BY <1>1, <1>2
<1>4. faults' \in 0..sub.faults
  BY <1>1, <1>3
<1> QED
  BY <1>1, <1>3, <1>4 DEF TimeStays

\* A step that leaves messages alone moves them as any step may.
LEMMA MessagesStay ==
  ASSUME TypeInv, UNCHANGED <<sub, sent, queue, ran>>, faults' \in 0..sub.faults, now' \in 0..sub.ticks
  PROVE  MessagesMove
<1>1. SentInv /\ QueueInv
  BY DEF TypeInv
<1>2. SentInv' /\ QueueInv'
  BY <1>1 DEF SentInv, QueueInv
<1>3. \A j \in DOMAIN queue : queue[j].receives \in Nat
  BY <1>1 DEF QueueInv
<1> QED
  BY <1>2, <1>3 DEF MessagesMove

\* The batch response deletes only messages that may leave.
LEMMA ReturnKeeps ==
  ASSUME RuntimeInv, NEW v \in Invocations, Return(v)
  PROVE  RuntimeInv'
<1>1. /\ calls[v].is = "running" /\ CallOver(v) /\ UNCHANGED <<sub, now, sent, claims, ran>> /\ TypeInv
      /\ Over(v) = DOMAIN record[v] /\ SentInv /\ QueueInv /\ CallInv(v)
  BY DEF Return, RuntimeInv, TypeInv
<1>2. PICK n \in Nat : Faults(n)
  BY DEF Return, Fine
<1>3. TimeStays /\ faults' \in 0..sub'.faults /\ now' \in 0..sub'.ticks
  BY <1>1, <1>2, FaultsDo
<1>4. MessagesMove
  <2>1. CASE queue' = queue
    BY <1>1, <1>3, <2>1, MessagesStay
  <2>2. CASE /\ ~calls[v].failed
             /\ queue' = Without(Current(v, {i \in DOMAIN record[v] : ~record[v][i].handedBack}))
    <3> DEFINE I == {i \in DOMAIN record[v] : ~record[v][i].handedBack}
    <3>1. ASSUME NEW j \in Current(v, I)
          PROVE  MayLeave(j)
      <4>1. PICK i \in I : j = calls[v].batch[i]
        BY DEF Current
      <4>2. i \in DOMAIN calls[v].batch /\ record[v][i].pc = "over" /\ ~record[v][i].handedBack
        BY <1>1, <4>1 DEF Over, CallInv
      <4> QED
        BY <2>2, <4>1, <4>2 DEF RuntimeInv, RecordInv, Doomed
    <3>2. /\ DOMAIN queue' \subseteq DOMAIN queue /\ \A j \in DOMAIN queue' : queue'[j] = queue[j]
          /\ queue' = [j \in DOMAIN queue' |-> queue'[j]]
          /\ \A j \in DOMAIN queue : j \notin DOMAIN queue' => j \in Current(v, I)
      BY <2>2 DEF Without
    <3> HIDE DEF I
    <3>3. SentInv'
      BY <1>1, <1>3 DEF SentInv
    <3>4. QueueInv'
      BY <1>1, <3>2 DEF QueueInv
    <3>5. \A j \in DOMAIN queue : queue[j].receives \in Nat
      BY <1>1 DEF QueueInv
    <3> QED
      BY <1>1, <3>1, <3>2, <3>3, <3>4, <3>5 DEF MessagesMove
  <2> QED
    BY <2>1, <2>2 DEF Return
<1> QED
  BY <1>1, <1>3, <1>4, CallOverKeeps

\* An invocation that dies leaves its messages and claims as they are.
LEMMA DieKeeps ==
  ASSUME RuntimeInv, NEW v \in Invocations, Die(v)
  PROVE  RuntimeInv'
<1>1. /\ calls[v].is = "running" /\ CallOver(v) /\ UNCHANGED <<sub, now, sent, queue, claims, ran>> /\ TypeInv
  BY DEF Die, RuntimeInv
<1>2. PICK n \in Nat : Faults(n)
  BY DEF Die, Fine
<1>3. TimeStays /\ faults' \in 0..sub'.faults /\ now' \in 0..sub'.ticks
  BY <1>1, <1>2, FaultsDo
<1>4. MessagesMove
  BY <1>1, <1>3, MessagesStay
<1> QED
  BY <1>1, <1>3, <1>4, CallOverKeeps

\* The clock.
LEMMA TickKeeps ==
  ASSUME RuntimeInv, Tick
  PROVE  RuntimeInv'
<1>1. /\ UNCHANGED <<sub, sent, claims, calls, record, ran, faults>> /\ now' = now + 1 /\ now < sub.ticks
      /\ TypeInv /\ SentInv /\ QueueInv
      /\ \A w \in Invocations : calls[w].is = "running" => now < calls[w].start + sub.timeout * Second
  BY DEF Tick, RuntimeInv, TypeInv
<1>2. now \in Nat /\ faults \in Nat /\ sub.ticks \in Nat /\ faults \in 0..sub.faults
  BY <1>1, RuntimeConstants DEF SentInv
<1>3. TimeStays /\ now' \in 0..sub.ticks
  BY <1>1, <1>2 DEF TimeStays
<1>4. /\ DOMAIN queue' = DOMAIN queue /\ queue' \in [DOMAIN queue -> [visibleAt : Nat, receives : Nat]]
      /\ \A j \in DOMAIN queue : queue'[j].receives = queue[j].receives /\ queue[j].receives \in Nat
  <2>1. queue' = [j \in DOMAIN queue |-> [queue[j] EXCEPT !.visibleAt = IF @ <= now + 1 THEN 0 ELSE @]]
    BY DEF Tick
  <2>2. ASSUME NEW j \in DOMAIN queue
        PROVE  queue'[j] \in [visibleAt : Nat, receives : Nat] /\ queue'[j].receives = queue[j].receives
               /\ queue[j].receives \in Nat
    <3>1. queue[j] \in [visibleAt : Nat, receives : Nat]
      BY <1>1 DEF QueueInv
    <3>2. PICK at \in Nat : queue'[j] = [queue[j] EXCEPT !.visibleAt = at]
      BY <2>1, <3>1
    <3> QED
      BY <3>1, <3>2
  <2> QED
    BY <2>1, <2>2
<1>5. MessagesMove
  <2>1. SentInv'
    BY <1>1, <1>3 DEF SentInv
  <2>2. QueueInv'
    BY <1>1, <1>4 DEF QueueInv
  <2> QED
    BY <1>1, <1>4, <2>1, <2>2 DEF MessagesMove
<1>6. \A w \in Invocations : calls[w].is = "running" => now' <= calls[w].start + sub.timeout * Second
  <2>1. \A w \in Invocations : calls[w].start \in Nat /\ sub.timeout * Second \in Nat
    BY <1>1, NumbersOf
  <2> QED
    BY <1>1, <1>2, <2>1
<1>7. PICK v : v \notin Invocations
  <2>1. MaxInvocations \in Nat
    BY <1>1, RuntimeConstants
  <2>2. MaxInvocations + 1 \notin Invocations
    BY <2>1 DEF Invocations
  <2> QED
    BY <2>2
<1>8. OthersStay(v)
  BY <1>1, <1>3, <1>5 DEF OthersStay, TypeInv
<1> QED
  BY <1>6, <1>7, <1>8, OthersKeep
\* A record that has not begun holds nothing and owes nothing.
LEMMA NewRecordFlags ==
  ASSUME SentInv
  PROVE  /\ Flags(NewRecord) /\ ~HasKey(NewRecord) /\ NewRecord.slot = 0 /\ ~Done(NewRecord)
         /\ \A failed \in BOOLEAN : ~Doomed(NewRecord, failed)
         /\ ~NewRecord.fatal /\ NewRecord.pc = "queued"
<1>1. now \in Nat
  BY RuntimeConstants
<1>2. /\ NewRecord.pc = "queued" /\ NewRecord.slot = 0 /\ NewRecord.since = 0 /\ ~NewRecord.claim /\ ~NewRecord.deferred
      /\ ~NewRecord.handled /\ ~NewRecord.unknown /\ ~NewRecord.fatal /\ ~NewRecord.handedBack
      /\ NewRecord = [NewRecord EXCEPT !.since = NewRecord.since]
  BY DEF NewRecord
<1> QED
  BY <1>1, <1>2 DEF Flags, Sound, HasKey, Done, Doomed

\* A new invocation has the first messages of its groups, and receipts that are of use.
LEMMA InvokeKeeps ==
  ASSUME RuntimeInv, NEW v \in Invocations, IsNext(v), NEW b \in Batches, Invoke(v, b)
  PROVE  RuntimeInv'
<1>1. /\ UNCHANGED <<sub, now, sent, claims, ran, faults>> /\ TypeInv /\ SentInv /\ QueueInv /\ calls[v].is = "idle"
      /\ calls \in [Invocations -> Call] /\ DOMAIN record = Invocations
  BY DEF Invoke, RuntimeInv, TypeInv, IsNext
<1>2. PICK n \in 1..sub.batchSize : b \in [1..n -> Visible]
  BY DEF Batches
<1>3. /\ \A i, j \in DOMAIN b : i < j => b[i] < b[j]
      /\ \A i \in DOMAIN b, j \in DOMAIN queue :
           SameGroup(j, b[i]) => j \in Visible /\ (j < b[i] => \E m \in DOMAIN b : b[m] = j)
  BY DEF Batches
<1>4. n \in Nat /\ n <= sub.batchSize /\ sub.batchSize \in Nat
  BY <1>1, RuntimeConstants
<1>5. /\ \A i \in 1..n : b[i] \in DOMAIN queue /\ b[i] \in DOMAIN sent /\ b[i] \in Nat
      /\ DOMAIN b = 1..n
  <2>1. \A i \in 1..n : b[i] \in DOMAIN queue
    BY <1>2 DEF Visible
  <2>2. \A i \in 1..n : b[i] \in DOMAIN sent
    BY <1>1, <2>1 DEF QueueInv
  <2>3. \A i \in 1..n : b[i] \in Nat
    BY <1>1, <2>2, OriginType
  <2> QED
    BY <1>2, <2>1, <2>2, <2>3
<1>6. b \in Seq(Nat) /\ Len(b) = n
  <2>1. b \in [1..n -> Nat]
    BY <1>2, <1>5
  <2> QED
    BY <1>4, <2>1
<1> DEFINE receives == [i \in DOMAIN b |-> queue[b[i]].receives + 1]
           call == [IdleCall EXCEPT !.is = "running", !.batch = b, !.start = now, !.receives = receives]
<1>7. receives \in Seq(Nat) /\ DOMAIN receives = 1..n /\ \A i \in 1..n : receives[i] = queue[b[i]].receives + 1
  <2>1. \A i \in 1..n : queue[b[i]].receives + 1 \in Nat
    <3>1. \A i \in 1..n : queue[b[i]].receives \in Nat
      BY <1>1, <1>5 DEF QueueInv
    <3> QED
      BY <3>1
  <2>2. receives \in [1..n -> Nat]
    BY <1>5, <2>1
  <2> QED
    BY <1>4, <1>5, <2>2
<1>8. now \in Nat /\ sub.timeout * Second \in Nat /\ sub.lag \in Nat /\ sub.lag <= sub.timeout * Second /\ faults \in Nat
  BY <1>1, RuntimeConstants, NumbersOf
<1>9. /\ call \in Call /\ call.is = "running" /\ call.batch = b /\ call.receives = receives /\ call.start = now
      /\ ~call.failed
  <2> HIDE DEF receives
  <2> QED
    BY <1>6, <1>7, <1>8, IdleCallType DEF Call, IdleCall
<1>10. /\ calls' \in [Invocations -> Call] /\ DOMAIN record' = Invocations
       /\ \A w \in Invocations : w # v => calls'[w] = calls[w] /\ record'[w] = record[w]
       /\ calls'[v] = call /\ record'[v] = [i \in DOMAIN b |-> NewRecord]
  <2>1. calls' = [calls EXCEPT ![v] = call] /\ record' = [record EXCEPT ![v] = [i \in DOMAIN b |-> NewRecord]]
    BY DEF Invoke
  <2> HIDE DEF call
  <2> QED
    BY <1>1, <1>9, <2>1
<1>11. calls'[v].is = "running" /\ calls'[v].batch = b /\ calls'[v].receives = receives /\ calls'[v].start = now
       /\ ~calls'[v].failed
  BY <1>9, <1>10
<1> HIDE DEF receives, call
<1>12. /\ DOMAIN queue' = DOMAIN queue /\ queue' \in [DOMAIN queue -> [visibleAt : Nat, receives : Nat]]
       /\ \A j \in DOMAIN queue : queue[j].receives <= queue'[j].receives
       /\ \A i \in 1..n : queue'[b[i]].receives = queue[b[i]].receives + 1
  <2> DEFINE at == now + sub.timeout * Second - sub.lag
  <2>1. at \in Nat
    BY <1>8
  <2>2. queue' = [j \in DOMAIN queue |-> IF \E i \in DOMAIN b : b[i] = j
                                           THEN [visibleAt |-> at, receives |-> queue[j].receives + 1]
                                           ELSE queue[j]]
    BY DEF Invoke
  <2> HIDE DEF at
  <2>3. \A j \in DOMAIN queue : queue[j] \in [visibleAt : Nat, receives : Nat]
    BY <1>1 DEF QueueInv
  <2>4. ASSUME NEW j \in DOMAIN queue
        PROVE  queue'[j] \in [visibleAt : Nat, receives : Nat] /\ queue[j].receives <= queue'[j].receives
    <3>1. queue[j].receives \in Nat /\ queue[j].receives + 1 \in Nat
      BY <2>3
    <3>2. queue'[j] = [visibleAt |-> at, receives |-> queue[j].receives + 1] \/ queue'[j] = queue[j]
      BY <2>2
    <3> QED
      BY <2>1, <2>3, <3>1, <3>2
  <2>5. \A i \in 1..n : queue'[b[i]].receives = queue[b[i]].receives + 1
    BY <1>5, <2>2
  <2> QED
    BY <2>2, <2>4, <2>5
<1>13. MessagesMove
  <2>1. SentInv'
    BY <1>1 DEF SentInv
  <2>2. QueueInv'
    BY <1>1, <1>12 DEF QueueInv
  <2> QED
    BY <1>1, <1>12, <2>1, <2>2 DEF MessagesMove
<1>14. TimeStays
  BY <1>1, <1>8 DEF TimeStays
<1>15. OthersStay(v)
  BY <1>1, <1>10, <1>13, <1>14 DEF OthersStay
<1>16. CallInv(v)'
  <2>1. record'[v] \in [DOMAIN b -> Record]
    BY <1>10, NewRecordType
  <2>2. now <= now /\ now <= now + sub.timeout * Second
    BY <1>8
  <2>3. ASSUME NEW i \in DOMAIN b
        PROVE  /\ b[i] \in DOMAIN sent' /\ (b[i] \in DOMAIN queue' => receives[i] <= queue'[b[i]].receives)
               /\ \A j \in DOMAIN b : j < i => b[j] < b[i]
    <3>1. receives[i] = queue'[b[i]].receives /\ receives[i] \in Nat
      BY <1>5, <1>7, <1>12
    <3> QED
      BY <1>1, <1>3, <1>5, <3>1
  <2> QED
    BY <1>1, <1>4, <1>5, <1>6, <1>7, <1>11, <2>1, <2>2, <2>3 DEF CallInv
<1>17. ASSUME NEW i \in DOMAIN calls'[v].batch
       PROVE  RecordInv(v, i)' /\ GroupInv(v, i)'
  <2>1. i \in DOMAIN b
    BY <1>11
  <2>2. PICK r : r = record'[v][i] /\ r = NewRecord
    BY <1>10, <2>1
  <2>3. Flags(r) /\ ~HasKey(r) /\ r.slot = 0 /\ ~Done(r) /\ ~Doomed(r, FALSE) /\ ~r.fatal /\ r.pc = "queued"
    BY <1>1, <2>2, NewRecordFlags
  <2>4. Flags(r)' /\ calls'[v].failed = FALSE
    <3>1. calls'[v].failed \in BOOLEAN
      BY <1>10 DEF Call
    <3> QED
      BY <1>1, <1>11, <2>3, <3>1 DEF Flags, Sound, Slots
  <2>5. RecordInv(v, i)'
    BY <2>2, <2>3, <2>4 DEF RecordInv
  <2>6. ASSUME NEW j \in DOMAIN queue', SameGroup(b[i], j)', j < b[i]
        PROVE  \E m \in DOMAIN b : b[m] = j
    <3>1. j \in DOMAIN queue /\ SameGroup(j, b[i])
      BY <1>1, <1>12, <2>6 DEF SameGroup
    <3> QED
      BY <1>3, <2>1, <2>6, <3>1
  <2>7. GroupInv(v, i)'
    BY <1>11, <2>2, <2>3, <2>6 DEF GroupInv
  <2> QED
    BY <2>5, <2>7
<1>18. \A w \in Invocations : calls[w].is = "running" /\ w # v => now' <= calls[w].start + sub.timeout * Second
  BY <1>1 DEF TypeInv, CallInv
<1> QED
  BY <1>1, <1>11, <1>15, <1>16, <1>17, <1>18, OthersKeep

-----------------------------------------------------------------------------
(* The invariant                                                           *)

\* The invariant holds at the start,
LEMMA InitRuntime ==
  ASSUME Init
  PROVE  RuntimeInv
<1> DEFINE n == sub.sends
<1>1. /\ sub \in Subscriptions /\ now = 0 /\ faults = 0 /\ ran = {} /\ claims = [c \in ClaimKeys |-> NoClaim]
      /\ calls = [v \in Invocations |-> IdleCall] /\ record = [v \in Invocations |-> <<>>]
      /\ queue = [i \in 1..n |-> [visibleAt |-> 0, receives |-> 0]]
  BY DEF Init
<1>2. sub \in Subscription /\ n <= MaxMessages /\ MaxMessages \in Nat /\ MaxDeferCount \in Nat
  BY <1>1, RuntimeAssumption
<1>3. n \in Nat /\ sub.faults \in Nat /\ sub.ticks \in Nat /\ sub.fifo \in BOOLEAN /\ sub.batchSize \in Nat
  BY <1>2 DEF Subscription
<1>4. PICK key \in [1..n -> Keys], tenant \in [1..n -> Tenants], group \in [1..n -> Groups] :
        sent = [i \in 1..n |->
                  [key |-> key[i], tenant |-> tenant[i], group |-> IF sub.fifo THEN group[i] ELSE NoGroup,
                   origin |-> i, defers |-> 0, until |-> 0]]
  BY DEF Init
<1>5. ASSUME NEW i \in 1..n
      PROVE  /\ sent[i] \in SentMessage /\ sent[i].origin = i /\ sent[i].until = 0 /\ i \in 1..i
             /\ sub.fifo => sent[i].group # NoGroup
             /\ ~sub.fifo => sent[i].group = NoGroup
  <2>1. group[i] \in Groups /\ group[i] # NoGroup /\ key[i] \in Keys /\ tenant[i] \in Tenants
    BY RuntimeAssumption
  <2>2. 0 \in 0..MaxDeferCount /\ i \in Nat /\ i \in 1..i /\ 0 \in Nat
    BY <1>2, <1>3
  <2>3. PICK g \in Groups \cup {NoGroup} : g = IF sub.fifo THEN group[i] ELSE NoGroup
    BY <2>1
  <2>4. sent[i] = [key |-> key[i], tenant |-> tenant[i], group |-> g, origin |-> i, defers |-> 0, until |-> 0]
    BY <1>4, <2>3
  <2>5. sent[i] \in SentMessage
    BY <2>1, <2>2, <2>4 DEF SentMessage
  <2> QED
    BY <2>1, <2>2, <2>3, <2>4, <2>5
<1> HIDE DEF n
<1>6. DOMAIN sent = 1..n /\ sent \in Seq(SentMessage) /\ Len(sent) = n
  <2>1. DOMAIN sent = 1..n /\ sent = [i \in 1..n |-> sent[i]]
    BY <1>4
  <2>2. sent \in [1..n -> SentMessage]
    BY <1>5, <2>1
  <2> QED
    BY <1>3, <2>1, <2>2
<1>7. SentInv
  <2>1. faults \in 0..sub.faults /\ now \in 0..sub.ticks
    BY <1>1, <1>3
  <2>2. Len(sent) <= MaxMessages
    BY <1>2, <1>6 DEF n
  <2>3. ran \subseteq DOMAIN sent
    BY <1>1
  <2>4. ASSUME NEW i \in DOMAIN sent
        PROVE  /\ sent[i].origin \in 1..i /\ sent[sent[i].origin].key = sent[i].key
               /\ sub.fifo => sent[i].origin = i /\ sent[i].until = 0 /\ sent[i].group # NoGroup
               /\ ~sub.fifo => sent[i].group = NoGroup
    <3>1. /\ sent[i].origin = i /\ sent[i].until = 0 /\ i \in 1..i
          /\ sub.fifo => sent[i].group # NoGroup
          /\ ~sub.fifo => sent[i].group = NoGroup
      BY <1>5, <1>6
    <3> QED
      BY <3>1
  <2> QED
    BY <1>1, <1>6, <2>1, <2>2, <2>3, <2>4 DEF SentInv
<1>8. QueueInv /\ DOMAIN queue = 1..n
  <2>1. DOMAIN queue = 1..n /\ \A i \in 1..n : queue[i] \in [visibleAt : Nat, receives : Nat]
    BY <1>1 DEF n
  <2>2. queue \in [1..n -> [visibleAt : Nat, receives : Nat]]
    BY <1>1 DEF n
  <2> QED
    BY <1>6, <2>1, <2>2 DEF QueueInv
<1>9. ASSUME NEW v \in Invocations
      PROVE  /\ CallInv(v) /\ calls[v] \in Call /\ DOMAIN calls[v].batch = {} /\ ~calls[v].failed
  <2>1. calls[v] = IdleCall /\ record[v] = <<>>
    BY <1>1
  <2>2. calls[v].is = "idle" /\ calls[v].batch = <<>> /\ calls[v].receives = <<>> /\ ~calls[v].failed /\ calls[v] \in Call
    BY <2>1, IdleCallType
  <2>3. DOMAIN <<>> = {} /\ Len(<<>>) = 0 /\ <<>> \in [{} -> Record]
    OBVIOUS
  <2>4. 0 <= sub.batchSize
    BY <1>3
  <2> QED
    BY <2>1, <2>2, <2>3, <2>4 DEF CallInv
<1>10. NoClaim \in Claim /\ NoClaim.state = "none" /\ NoClaim.owner = NoOwner
  BY DEF NoClaim, Claim
<1>11. TypeInv
  <2>1. claims \in [ClaimKeys -> Claim]
    BY <1>1, <1>10
  <2>2. calls \in [Invocations -> Call] /\ DOMAIN record = Invocations
    BY <1>1, IdleCallType
  <2> QED
    BY <1>7, <1>8, <1>9, <2>1, <2>2 DEF TypeInv
<1>12. \A c \in ClaimKeys : OwnerInv(c)
  <2>1. \A v, i : NoOwner # <<v, i>>
    BY DEF NoOwner
  <2>2. \A c \in ClaimKeys : claims[c] = NoClaim
    BY <1>1
  <2> QED
    BY <1>10, <2>1, <2>2 DEF OwnerInv
<1>13. NothingLost
  BY <1>5, <1>6, <1>8 DEF NothingLost
<1> QED
  BY <1>9, <1>11, <1>12, <1>13 DEF RuntimeInv

\* and after every step.
LEMMA NextRuntime ==
  ASSUME RuntimeInv, [Next]_vars
  PROVE  RuntimeInv'
<1>1. ASSUME NEW v \in Invocations, IsNext(v), NEW b \in Batches, Invoke(v, b)
      PROVE  RuntimeInv'
  BY <1>1, InvokeKeeps
<1>2. ASSUME NEW v \in Invocations, NEW i \in DOMAIN record[v], RecordStep(v, i)
      PROVE  RuntimeInv'
  BY <1>2, RecordStepGoes, RecordStepKeeps
<1>3. ASSUME NEW v \in Invocations, Return(v) \/ Die(v)
      PROVE  RuntimeInv'
  BY <1>3, ReturnKeeps, DieKeeps
<1>4. CASE Tick
  BY <1>4, TickKeeps
<1>5. CASE UNCHANGED vars
  <2>1. UNCHANGED <<sub, now, sent, queue, claims, calls, record, ran, faults>> /\ TypeInv /\ SentInv
    BY <1>5 DEF vars, RuntimeInv, TypeInv
  <2>2. now \in Nat /\ faults \in Nat /\ faults' \in 0..sub.faults /\ now' \in 0..sub.ticks /\ MaxInvocations \in Nat
    BY <2>1, RuntimeConstants DEF SentInv
  <2>3. TimeStays
    BY <2>1, <2>2 DEF TimeStays
  <2>4. MessagesMove
    BY <2>1, <2>2, MessagesStay
  <2>5. PICK v : v \notin Invocations
    <3>1. MaxInvocations + 1 \notin Invocations
      BY <2>2 DEF Invocations
    <3> QED
      BY <3>1
  <2>6. OthersStay(v)
    BY <2>1, <2>3, <2>4 DEF OthersStay, TypeInv
  <2>7. \A w \in Invocations : calls[w].is = "running" => now' <= calls[w].start + sub.timeout * Second
    BY <2>1 DEF TypeInv, CallInv
  <2> QED
    BY <2>5, <2>6, <2>7, OthersKeep
<1> QED
  BY <1>1, <1>2, <1>3, <1>4, <1>5 DEF Next
\* RuntimeInv is an invariant of the runtime.
LEMMA RuntimeInvariant ==
  Spec => []RuntimeInv
BY InitRuntime, NextRuntime, PTL DEF Spec

-----------------------------------------------------------------------------
(* What follows from it                                                    *)

\* The state of the runtime is well formed at every request: the clock stays within an invocation's timeout, every
\* record belongs to a message of its batch, and every slot is one of the subscription.
THEOREM TypeCorrect ==
  Spec => []TypeOK
<1>1. ASSUME RuntimeInv PROVE TypeOK
  <2>1. TypeInv /\ SentInv /\ QueueInv
    BY <1>1 DEF RuntimeInv, TypeInv
  <2>2. sub \in Subscriptions /\ now \in 0..sub.ticks /\ faults \in 0..sub.faults /\ Len(sent) <= MaxMessages
        /\ ran \subseteq DOMAIN sent
    BY <2>1 DEF SentInv
  <2>3. ASSUME NEW i \in DOMAIN sent
        PROVE  sent[i] \in [key : Keys, tenant : Tenants, group : Groups \cup {NoGroup}, origin : 1..i,
                            defers : 0..MaxDeferCount, until : Nat]
    <3>1. sent[i] \in SentMessage /\ sent[i].origin \in 1..i
      BY <2>1 DEF SentInv
    <3> QED
      BY <3>1 DEF SentMessage
  <2>4. DOMAIN queue \subseteq DOMAIN sent /\ \A i \in DOMAIN queue : queue[i] \in [visibleAt : Nat, receives : Nat]
    BY <2>1 DEF QueueInv
  <2>5. claims \in [ClaimKeys -> [state : {"none", "running", "done", "unknown"}, owner : Owners \cup {NoOwner},
                                  expiration : Nat]]
    BY <2>1 DEF TypeInv, Claim
  <2>6. ASSUME NEW v \in Invocations
        PROVE  /\ calls[v].is \in {"idle", "running", "over"}
               /\ DOMAIN record[v] = DOMAIN calls[v].batch /\ Len(calls[v].batch) <= sub.batchSize
               /\ calls[v].is = "running" => calls[v].start <= now /\ now <= calls[v].start + sub.timeout * Second
    BY <2>1 DEF TypeInv, CallInv, Call
  <2>7. ASSUME NEW v \in Invocations, NEW i \in DOMAIN record[v]
        PROVE  /\ calls[v].batch[i] \in DOMAIN sent
               /\ record[v][i].pc \in Places /\ record[v][i].slot \in 0..sub.max
               /\ record[v][i].claim => sub.idempotent
    <3>1. i \in DOMAIN calls[v].batch /\ record[v][i] \in Record /\ calls[v].batch[i] \in DOMAIN sent
      BY <2>1 DEF TypeInv, CallInv
    <3>2. Flags(record[v][i])
      BY <1>1, <3>1 DEF RuntimeInv, RecordInv
    <3>3. sub.max \in Nat
      BY <2>1, RuntimeConstants
    <3>4. record[v][i].slot \in 0..sub.max
      <4>1. record[v][i].slot = 0 \/ record[v][i].slot \in 1..sub.max
        BY <3>2 DEF Flags, Sound, Slots
      <4> QED
        BY <3>3, <4>1
    <3>5. record[v][i].pc \in Places /\ (record[v][i].claim => sub.idempotent)
      BY <3>1, <3>2 DEF Record, Flags, Sound
    <3> QED
      BY <3>1, <3>4, <3>5
  <2> QED
    BY <2>2, <2>3, <2>4, <2>5, <2>6, <2>7 DEF TypeOK
<1> QED
  BY <1>1, RuntimeInvariant, PTL

\* A lease that lasts to the end of the invocation is held up to its last second.
LEMMA LeaseHolds ==
  ASSUME TypeInv, NEW v \in Invocations, NEW i, NEW c \in ClaimKeys, Leases(v, i, c), ~Late(v)
  PROVE  Holds(<<v, i>>, c)
<1> DEFINE e == claims[c].expiration
           end == calls[v].start + sub.timeout * Second
<1>1. /\ end \in Nat /\ now \in Nat /\ Second \in Nat /\ e \in Nat /\ EpochSeconds \in Nat
      /\ EpochSeconds * Second <= now
  <2>1. sub.timeout * Second \in Nat /\ calls[v].start \in Nat /\ e \in Nat
    BY NumbersOf
  <2> QED
    BY <2>1, RuntimeConstants DEF TypeInv
<1>2. e * Second + Second > end /\ ~(now + Second > end)
  BY DEF Leases, Late
<1> HIDE DEF e, end
<1>3. SUFFICES ASSUME e <= EpochSeconds
               PROVE  FALSE
  BY DEF Holds, Leases, IsFree, e
<1>4. e * Second <= EpochSeconds * Second
  BY <1>1, <1>3, TimesMonotone
<1>5. e * Second \in Nat /\ EpochSeconds * Second \in Nat
  BY <1>1
<1> QED
  BY <1>1, <1>2, <1>4, <1>5

\* A record whose handler runs in time.
LEMMA RunningRecord ==
  ASSUME RuntimeInv, NEW o \in Running
  PROVE  /\ o[1] \in Invocations /\ o[2] \in DOMAIN calls[o[1]].batch /\ o = <<o[1], o[2]>>
         /\ record[o[1]][o[2]].pc = "handler" /\ RecordInv(o[1], o[2]) /\ GroupInv(o[1], o[2])
         /\ o \in RunningInTime => ~Late(o[1])
<1>1. o \in Owners /\ At(o[1], o[2], "handler")
  BY DEF Running
<1>2. o[1] \in Invocations /\ o = <<o[1], o[2]>>
  BY <1>1 DEF Owners
<1>3. o[2] \in DOMAIN calls[o[1]].batch /\ record[o[1]][o[2]].pc = "handler"
  BY <1>1, <1>2 DEF At, RuntimeInv, TypeInv, CallInv
<1>4. RecordInv(o[1], o[2]) /\ GroupInv(o[1], o[2])
  BY <1>2, <1>3 DEF RuntimeInv
<1>5. o \in RunningInTime => ~Late(o[1])
  <2>1. TypeInv
    BY DEF RuntimeInv
  <2>2. sub.timeout * Second \in Nat /\ calls[o[1]].start \in Nat /\ now \in Nat /\ Second \in Nat
    BY <1>2, <2>1, NumbersOf
  <2> QED
    BY <2>2 DEF RunningInTime, RunningWith, Late
<1> QED
  BY <1>2, <1>3, <1>4, <1>5

\* takeClaim: while the handler of an idempotent subscription runs, up to a second before its invocation is stopped, it
\* holds its message's key, for any number of invocations, any clock and any failures.
THEOREM KeyHeld ==
  Spec => []RunningHoldsKey
<1>1. ASSUME RuntimeInv PROVE RunningHoldsKey
  <2>1. SUFFICES ASSUME sub.idempotent, NEW o \in RunningInTime
                 PROVE  Holds(o, ClaimOf(o[1], o[2]))
    BY DEF RunningHoldsKey
  <2>2. o \in Running
    BY DEF RunningInTime, RunningWith
  <2>3. /\ o[1] \in Invocations /\ o[2] \in DOMAIN calls[o[1]].batch /\ o = <<o[1], o[2]>> /\ ~Late(o[1])
        /\ record[o[1]][o[2]].pc = "handler" /\ RecordInv(o[1], o[2])
    BY <1>1, <2>2, RunningRecord
  <2>4. HasKey(record[o[1]][o[2]])
    BY <2>1, <2>3 DEF RecordInv, Flags, Sound, HasKey, KeyPlaces
  <2>5. Leases(o[1], o[2], ClaimOf(o[1], o[2]))
    BY <2>3, <2>4 DEF RecordInv
  <2>6. TypeInv /\ ClaimOf(o[1], o[2]) \in ClaimKeys
    BY <1>1, <2>3, MessageType DEF RuntimeInv
  <2> QED
    BY <2>3, <2>5, <2>6, LeaseHolds
<1> QED
  BY <1>1, RuntimeInvariant, PTL

\* takeSlot: across all invocations at most `max` handlers run one concurrency key at once, those that are about to be
\* stopped left aside, whatever `max` is: each of them holds a slot of its own.
THEOREM SlotsBounded ==
  Spec => []SlotsBound
<1>1. ASSUME RuntimeInv PROVE SlotsBound
  <2>1. SUFFICES ASSUME sub.max > 0, NEW t \in Tenants
                 PROVE  Cardinality({o \in RunningInTime : MessageOf(o[1], o[2]).tenant = t}) <= sub.max
    BY DEF SlotsBound, AtOnce
  <2> DEFINE S == {o \in RunningInTime : MessageOf(o[1], o[2]).tenant = t}
             slot == [o \in S |-> record[o[1]][o[2]].slot]
  <2>2. ASSUME NEW o \in S
        PROVE  slot[o] \in Slots /\ claims[SlotKey(t, slot[o])].owner = o
    <3>1. o \in Running /\ o \in RunningInTime /\ MessageOf(o[1], o[2]).tenant = t
      BY DEF RunningInTime, RunningWith
    <3>2. /\ o[1] \in Invocations /\ o[2] \in DOMAIN calls[o[1]].batch /\ o = <<o[1], o[2]>> /\ ~Late(o[1])
          /\ record[o[1]][o[2]].pc = "handler" /\ RecordInv(o[1], o[2])
      BY <1>1, <3>1, RunningRecord
    <3>3. record[o[1]][o[2]].slot # 0 /\ record[o[1]][o[2]].slot \in Slots
      BY <2>1, <3>2 DEF RecordInv, Flags, Sound
    <3>4. Leases(o[1], o[2], SlotKey(t, record[o[1]][o[2]].slot))
      BY <3>1, <3>2, <3>3 DEF RecordInv
    <3> QED
      BY <3>2, <3>3, <3>4 DEF Leases
  <2>3. sub.max \in Nat
    BY <1>1, RuntimeConstants DEF RuntimeInv, TypeInv
  <2>4. IsFiniteSet(Slots) /\ Cardinality(Slots) = sub.max
    BY <2>3, FS_Interval DEF Slots
  <2>5. slot \in Injection(S, Slots)
    <3>1. slot \in [S -> Slots]
      BY <2>2
    <3>2. \A o, p \in S : slot[o] = slot[p] => o = p
      BY <2>2
    <3> HIDE DEF slot, S
    <3> QED
      BY <3>1, <3>2 DEF Injection, IsInjective
  <2> HIDE DEF slot, S
  <2>6. Cardinality(S) <= Cardinality(Slots)
    BY <2>4, <2>5, FS_Injection DEF ExistsInjection
  <2> QED
    BY <2>4, <2>6 DEF S
<1> QED
  BY <1>1, RuntimeInvariant, PTL

\* processRecord, sqsEntryPoint: a message whose work isn't settled is in the queue, itself or as a copy, whatever failed
\* and wherever an invocation died.
THEOREM NothingIsLost ==
  Spec => []NothingLost
<1>1. RuntimeInv => NothingLost
  BY DEF RuntimeInv
<1> QED
  BY <1>1, RuntimeInvariant, PTL

\* processAllRecords: a message of a FIFO group runs only once the work of the earlier ones is settled, for any
\* parallelism and any number of groups and invocations.
THEOREM OrderWithinGroups ==
  Spec => []GroupsInOrder
<1>1. ASSUME RuntimeInv PROVE GroupsInOrder
  <2>1. SUFFICES ASSUME NEW o \in Running, NEW j \in DOMAIN queue, SameGroup(calls[o[1]].batch[o[2]], j),
                        j < calls[o[1]].batch[o[2]]
                 PROVE  Settled(j)
    BY DEF GroupsInOrder
  <2>v. PICK v \in Invocations : v = o[1]
    BY <1>1, RunningRecord
  <2>i. PICK i \in DOMAIN calls[v].batch : i = o[2]
    BY <1>1, <2>v, RunningRecord
  <2>2. v = o[1] /\ i = o[2]
    BY <2>v, <2>i
  <2>3. record[v][i].pc = "handler" /\ GroupInv(v, i) /\ TypeInv /\ SentInv /\ CallInv(v)
    BY <1>1, <2>2, RunningRecord DEF RuntimeInv, TypeInv
  <2>4. PICK m \in DOMAIN calls[v].batch : calls[v].batch[m] = j
    BY <2>1, <2>2, <2>3 DEF GroupInv
  <2>5. sub.fifo
    <3>1. sent[calls[v].batch[i]].group # NoGroup /\ calls[v].batch[i] \in DOMAIN sent
      BY <2>1, <2>2, <2>3 DEF SameGroup, CallInv
    <3> QED
      BY <2>3, <3>1 DEF SentInv
  <2>6. m < i
    <3>1. m \in Nat /\ i \in Nat /\ calls[v].batch[m] \in Nat /\ calls[v].batch[i] \in Nat
      BY <2>3, OwnerType, MessageType, OriginType
    <3>2. i < m => calls[v].batch[i] < calls[v].batch[m]
      BY <2>3 DEF CallInv
    <3> QED
      BY <2>1, <2>2, <2>4, <3>1, <3>2
  <2> QED
    BY <2>1, <2>2, <2>3, <2>4, <2>5, <2>6 DEF GroupInv
<1> QED
  BY <1>1, RuntimeInvariant, PTL

\* deleteEachRecord: as long as no request fails, a record of a batch of several that isn't handed back is gone from the
\* queue once it's over, so that an invocation that dies on a later record doesn't have it run again.
THEOREM HandledAreDeleted ==
  Spec => []HandledIsDeleted
<1>1. ASSUME RuntimeInv PROVE HandledIsDeleted
  <2>1. SUFFICES ASSUME faults = 0, NEW v \in Invocations, NEW i \in Over(v), ~sub.batchAck, Len(calls[v].batch) > 1,
                        ~record[v][i].handedBack
                 PROVE  ~IsCurrent(v, i)
    BY DEF HandledIsDeleted
  <2>2. i \in DOMAIN calls[v].batch /\ record[v][i].pc = "over"
    BY <1>1 DEF Over, RuntimeInv, TypeInv, CallInv
  <2>3. DeleteEach(v) /\ RecordInv(v, i)
    BY <1>1, <2>1, <2>2 DEF DeleteEach, RuntimeInv
  <2> QED
    BY <2>1, <2>2, <2>3 DEF RecordInv
<1> QED
  BY <1>1, RuntimeInvariant, PTL

\* processRecord: as long as no request fails, every way out of a record gives back its key (or keeps it) and its slot.
THEOREM ClaimsAllComeBack ==
  Spec => []ClaimsComeBack
<1>1. ASSUME RuntimeInv PROVE ClaimsComeBack
  <2>1. SUFFICES ASSUME faults = 0, NEW v \in Invocations, NEW i \in Over(v), NEW c \in DOMAIN claims, Holds(<<v, i>>, c)
                 PROVE  FALSE
    BY DEF ClaimsComeBack
  <2>2. i \in DOMAIN calls[v].batch /\ record[v][i].pc = "over" /\ TypeInv
    BY <1>1 DEF Over, RuntimeInv, TypeInv, CallInv
  <2>3. c \in ClaimKeys /\ OwnerInv(c) /\ RecordInv(v, i) /\ i \in 1..sub.batchSize
    BY <1>1, <2>2, OwnerType DEF RuntimeInv, TypeInv
  <2>4. OwnedBy(v, i, c, "running")
    BY <2>1, <2>3 DEF OwnerInv, Holds
  <2>5. calls[v].is = "running"
    BY <2>2 DEF TypeInv, CallInv
  <2> QED
    BY <2>1, <2>2, <2>3, <2>4, <2>5 DEF OwnedBy, RecordInv, Flags, Sound, HasKey, KeyPlaces
<1> QED
  BY <1>1, RuntimeInvariant, PTL

\* A step of a record leaves alone what is kept.
LEMMA RecordLeavesKept ==
  ASSUME RuntimeInv, NEW v \in Invocations, NEW i, RecordGoes(v, i), NEW c \in ClaimKeys,
         claims[c].state \in {"done", "unknown"}, ~IsFree(c)
  PROVE  claims'[c] = claims[c]
<1> DEFINE r == record[v][i]
<1>1. /\ TypeInv /\ SentInv /\ i \in DOMAIN calls[v].batch /\ ClaimsMove(v, i) /\ RecordInv(v, i) /\ OwnerInv(c)
      /\ calls[v].is = "running" /\ Flags(r)
  BY DEF RecordGoes, RecordMoves, RuntimeInv, RecordInv, TypeInv
<1>k. PICK k \in ClaimKeys : k = ClaimOf(v, i)
  BY <1>1, MessageType
<1>o. PICK o \in Owners : o = <<v, i>> /\ i \in 1..sub.batchSize
  BY <1>1, OwnerType
<1>2. claims[c].owner = o => r.pc \in {"ack", "consume", "free", "over"}
  <2>1. claims[c].owner = o => OwnedBy(v, i, c, claims[c].state)
    BY <1>1, <1>o DEF OwnerInv
  <2> QED
    BY <1>1, <2>1 DEF OwnedBy
<1>3. CASE LeavesClaims(v, i)
  BY <1>3 DEF LeavesClaims
<1>4. CASE TakesKey(v, i)
  <2>1. IsFree(k) /\ Take(k, o)
    BY <1>4, <1>k, <1>o DEF TakesKey
  <2> QED
    BY <1>1, <2>1, TakeDoes
<1>5. CASE \E s \in Slots : TakesSlot(v, i, s)
  <2>1. PICK d \in ClaimKeys : IsFree(d) /\ Take(d, o)
    BY <1>1, <1>5, <1>o, MessageType DEF TakesSlot
  <2> QED
    BY <1>1, <2>1, TakeDoes
<1>6. CASE SettlesKey(v, i)
  <2>1. HasKey(r) /\ (Release(k, o) \/ Keep(k, o, "done") \/ Keep(k, o, "unknown"))
    BY <1>6, <1>k, <1>o DEF SettlesKey
  <2>2. claims[c].owner # o
    BY <1>2, <2>1 DEF HasKey, KeyPlaces
  <2> QED
    BY <1>1, <2>1, <2>2, ReleaseDoes, KeepDoes
<1>7. CASE ReleasesSlot(v, i)
  <2>1. r.pc = "free" /\ Release(SlotKey(MessageOf(v, i).tenant, r.slot), o)
    BY <1>7, <1>o DEF ReleasesSlot
  <2>2. r.slot \in Slots /\ r.slot # 0
    BY <1>1, <2>1 DEF Flags, Sound
  <2>3. PICK d \in ClaimKeys : d = SlotKey(MessageOf(v, i).tenant, r.slot)
    BY <1>1, <2>2, MessageType
  <2>4. c # d
    <3>1. PICK key \in Keys : c = IdempotencyKey(key)
      BY <1>1 DEF OwnerInv, KeptOf
    <3> QED
      BY <2>2, <2>3, <3>1 DEF IdempotencyKey, SlotKey
  <2> QED
    BY <1>1, <2>1, <2>3, <2>4, ReleaseDoes
<1> QED
  BY <1>1, <1>3, <1>4, <1>5, <1>6, <1>7 DEF ClaimsMove

\* keepClaim, releaseClaim: a key kept as done or unknown stays that way for its ttl, also when an execution whose lease
\* passed while it ran settles its claim late.
THEOREM KeptKeysStay ==
  Spec => KeptForTtl
<1> DEFINE A == \A c \in DOMAIN claims : claims[c].state \in {"done", "unknown"} /\ ~IsFree(c) => claims'[c] = claims[c]
<1>1. ASSUME RuntimeInv, [Next]_vars PROVE [A]_vars
  <2>1. DOMAIN claims = ClaimKeys
    BY <1>1 DEF RuntimeInv, TypeInv
  <2>2. ASSUME NEW v \in Invocations, NEW i \in DOMAIN record[v], RecordStep(v, i)
        PROVE  A
    BY <1>1, <2>1, <2>2, RecordStepGoes, RecordLeavesKept
  <2>3. ASSUME NEW v \in Invocations, NEW b, Invoke(v, b)
        PROVE  A
    BY <2>3 DEF Invoke
  <2>4. ASSUME NEW v \in Invocations, Return(v) \/ Die(v)
        PROVE  A
    BY <2>4 DEF Return, Die
  <2>5. CASE Tick
    BY <2>5 DEF Tick
  <2> HIDE DEF A
  <2> QED
    BY <1>1, <2>2, <2>3, <2>4, <2>5 DEF Next
<1>2. RuntimeInv /\ [Next]_vars => [A]_vars
  BY <1>1
<1> QED
  BY <1>2, RuntimeInvariant, PTL DEF Spec, KeptForTtl
=============================================================================
