-------------------------- MODULE TransmitterProofs --------------------------
(***************************************************************************)
(* Safety of the transmitters for the radios, SMOCIP and NMS, for every    *)
(* queue size, retry limit, timeout, range of transaction ids, number of   *)
(* radios and number and size of packets.                                  *)
(***************************************************************************)
EXTENDS MCTransmitters, FiniteSetTheorems, SequenceTheorems, TLAPS

-----------------------------------------------------------------------------
(* The queue that the three have in common *)

TransactionsOf(types) ==
  [pkt : 0..MaxPackets, type : types, tid : 0..(TidMod - 1), total : Nat,
   seq_index : Nat, retry_count : 0..MaxRetries, active : BOOLEAN, waiting : BOOLEAN]

QueuesOf(types) ==
  [slot : [Slots -> TransactionsOf(types)], head : Slots, tail : Slots, count : 0..QueueSize]

Queued(q, k) == q.slot[QueuedSlot(q, k)]

\* The tail is behind the newest transaction, and the head alone is active.
WellFormed(q) ==
  /\ q.tail = QueuedSlot(q, q.count)
  /\ \A i \in Slots : q.slot[i].active <=> (q.count > 0 /\ i = q.head)

LEMMA NumberFacts ==
  /\ QueueSize \in Nat \ {0} /\ TidMod \in Nat \ {0} /\ MaxRetries \in Nat
  /\ AckTimeout \in Nat \ {0} /\ MaxPackets \in Nat
  BY TxQueueAssumption

\* The slots from the head on, each once, and round again to the head.
LEMMA SlotFacts ==
  ASSUME NEW types, NEW q \in QueuesOf(types), NEW k \in 0..QueueSize
  PROVE  /\ QueuedSlot(q, k) \in Slots
         /\ QueuedSlot(q, 0) = q.head
         /\ k < QueueSize => NextSlot(QueuedSlot(q, k)) = QueuedSlot(q, k + 1)
         /\ 0 < k /\ k < QueueSize => QueuedSlot(q, k) # q.head
         /\ \A m \in 0..QueueSize : m < k => (QueuedSlot(q, m) = QueuedSlot(q, k) <=> m = 0 /\ k = QueueSize)
<1>1. q.head \in Slots
  BY DEF QueuesOf
<1>2. QED
  BY <1>1, TxQueueAssumption DEF QueuedSlot, NextSlot, Slots

LEMMA HeadIsQueued ==
  ASSUME NEW types, NEW q \in QueuesOf(types)
  PROVE  Queued(q, 0) = HeadOf(q)
  BY SlotFacts, NumberFacts DEF Queued, HeadOf

\* An update of one field, or of two or three of them, keeps the type.
LEMMA UpdateFacts ==
  ASSUME NEW types, NEW q \in QueuesOf(types), NEW i \in Slots, NEW j \in Slots,
         NEW t \in TransactionsOf(types), NEW c \in 0..QueueSize
  PROVE  /\ [q EXCEPT !.slot[i] = t] \in QueuesOf(types)
         /\ [q EXCEPT !.head = j] \in QueuesOf(types)
         /\ [q EXCEPT !.tail = j] \in QueuesOf(types)
         /\ [q EXCEPT !.count = c] \in QueuesOf(types)
         /\ [q EXCEPT !.slot[i] = t, !.tail = j, !.count = c] \in QueuesOf(types)
         /\ [q EXCEPT !.slot[i] = t, !.head = j, !.count = c] \in QueuesOf(types)
<1>1. ASSUME NEW r \in QueuesOf(types)
      PROVE  /\ [r EXCEPT !.slot[i] = t] \in QueuesOf(types)
             /\ [r EXCEPT !.head = j] \in QueuesOf(types)
             /\ [r EXCEPT !.tail = j] \in QueuesOf(types)
             /\ [r EXCEPT !.count = c] \in QueuesOf(types)
  BY DEF QueuesOf
<1>2. /\ [[[q EXCEPT !.slot[i] = t] EXCEPT !.tail = j] EXCEPT !.count = c] \in QueuesOf(types)
      /\ [[[q EXCEPT !.slot[i] = t] EXCEPT !.head = j] EXCEPT !.count = c] \in QueuesOf(types)
  BY <1>1, Zenon
<1>3. QED
  BY <1>1, <1>2, Zenon

\* What Push does to a queue that is not full: the transaction becomes the
\* newest one, and nothing else changes.
LEMMA PushFacts ==
  ASSUME NEW types, NEW q \in QueuesOf(types), WellFormed(q), q.count < QueueSize,
         NEW t \in TransactionsOf(types), t.active = FALSE
  PROVE  /\ Push(q, t) \in QueuesOf(types) /\ WellFormed(Push(q, t))
         /\ Push(q, t).count = q.count + 1
         /\ \A k \in 0..(q.count - 1) : Queued(Push(q, t), k) = Queued(q, k)
<1> DEFINE new == Push(q, t)
           u == [t EXCEPT !.active = (q.count = 0)]
<1>1. /\ q.slot \in [Slots -> TransactionsOf(types)] /\ q.head \in Slots /\ q.tail \in Slots
      /\ q.count \in Nat /\ q.count < QueueSize /\ QueueSize \in Nat \ {0}
      /\ q = [slot |-> q.slot, head |-> q.head, tail |-> q.tail, count |-> q.count]
  BY TxQueueAssumption DEF QueuesOf
<1>2. u \in TransactionsOf(types) /\ u.active = (q.count = 0)
  <2>1. ASSUME NEW active \in BOOLEAN
        PROVE  /\ [t EXCEPT !.active = active] \in TransactionsOf(types)
               /\ [t EXCEPT !.active = active].active = active
    BY DEF TransactionsOf
  <2>2. (q.count = 0) \in BOOLEAN
    OBVIOUS
  <2>3. QED
    BY <2>1, <2>2, Zenon
<1>3. new = [q EXCEPT !.slot[q.tail] = u, !.tail = NextSlot(q.tail), !.count = q.count + 1]
  BY Zenon DEF Push
<1> HIDE DEF u, new
<1>4. NextSlot(q.tail) \in Slots /\ NextSlot(q.tail) = QueuedSlot(q, q.count + 1)
  BY <1>1, SlotFacts DEF WellFormed
<1>5. new.slot = [q.slot EXCEPT ![q.tail] = u] /\ new.head = q.head
      /\ new.tail = NextSlot(q.tail) /\ new.count = q.count + 1
  BY <1>1, <1>3
<1>6. new \in QueuesOf(types)
  <2>1. q.count + 1 \in 0..QueueSize
    BY <1>1
  <2>2. QED
    BY <1>1, <1>2, <1>3, <1>4, <2>1, UpdateFacts
<1>7. \A k \in 0..QueueSize : QueuedSlot(new, k) = QueuedSlot(q, k)
  BY <1>5 DEF QueuedSlot
<1>8. \A k \in 0..(q.count - 1) : Queued(new, k) = Queued(q, k)
  <2>1. ASSUME NEW k \in 0..(q.count - 1)
        PROVE  QueuedSlot(q, k) # q.tail /\ QueuedSlot(q, k) \in Slots
    BY <1>1, SlotFacts DEF WellFormed
  <2>2. QED
    BY <1>1, <1>5, <1>7, <2>1 DEF Queued
<1>9. q.tail = q.head <=> q.count = 0
  BY <1>1, SlotFacts DEF WellFormed
<1>10. ASSUME NEW i \in Slots
       PROVE  new.slot[i].active <=> i = q.head
  <2>1. CASE i = q.tail
    BY <1>1, <1>2, <1>5, <1>9, <2>1
  <2>2. CASE i # q.tail
    <3>1. new.slot[i] = q.slot[i]
      BY <1>1, <1>5, <2>2
    <3>2. q.slot[i].active <=> (q.count > 0 /\ i = q.head)
      BY Zenon DEF WellFormed
    <3>3. q.count > 0 \/ q.count = 0
      BY <1>1
    <3>4. QED
      BY <1>9, <2>2, <3>1, <3>2, <3>3, Zenon
  <2>3. QED
    BY <2>1, <2>2
<1>11. WellFormed(new)
  <2>1. new.count > 0
    BY <1>1, <1>5
  <2>2. new.tail = QueuedSlot(new, new.count)
    BY <1>1, <1>4, <1>5, <1>7
  <2>3. QED
    BY <1>5, <1>10, <2>1, <2>2, Zenon DEF WellFormed
<1>12. QED
  BY <1>5, <1>6, <1>8, <1>11 DEF new

\* The oldest transaction after a Push: as before, or the one queued.
LEMMA PushedHead ==
  ASSUME NEW types, NEW q \in QueuesOf(types), WellFormed(q), q.count < QueueSize,
         NEW t \in TransactionsOf(types)
  PROVE  HeadOf(Push(q, t)) = IF q.count > 0 THEN HeadOf(q) ELSE [t EXCEPT !.active = (q.count = 0)]
<1> DEFINE u == [t EXCEPT !.active = (q.count = 0)]
<1>1. /\ q.slot \in [Slots -> TransactionsOf(types)] /\ q.head \in Slots /\ q.tail \in Slots
      /\ q.count \in Nat /\ q.count < QueueSize /\ QueueSize \in Nat \ {0}
  BY NumberFacts DEF QueuesOf
<1>2. Push(q, t) = [q EXCEPT !.slot[q.tail] = u, !.tail = NextSlot(q.tail), !.count = q.count + 1]
  BY Zenon DEF Push
<1> HIDE DEF u
<1>3. Push(q, t).slot = [q.slot EXCEPT ![q.tail] = u] /\ Push(q, t).head = q.head
  BY <1>1, <1>2
<1>4. q.tail = q.head <=> q.count = 0
  BY <1>1, SlotFacts DEF WellFormed
<1>5. HeadOf(Push(q, t)) = IF q.count > 0 THEN HeadOf(q) ELSE u
  BY <1>1, <1>3, <1>4 DEF HeadOf
<1>6. QED
  BY <1>5 DEF u

\* The newest transaction after a Push is the one queued.
LEMMA PushedTail ==
  ASSUME NEW types, NEW q \in QueuesOf(types), WellFormed(q), q.count < QueueSize,
         NEW t \in TransactionsOf(types)
  PROVE  /\ Queued(Push(q, t), q.count).pkt = t.pkt
         /\ Queued(Push(q, t), q.count).tid = t.tid
<1> DEFINE u == [t EXCEPT !.active = (q.count = 0)]
           new == Push(q, t)
<1>1. /\ q.slot \in [Slots -> TransactionsOf(types)] /\ q.tail \in Slots
      /\ q.count \in Nat /\ q.count < QueueSize /\ QueueSize \in Nat \ {0}
  BY NumberFacts DEF QueuesOf
<1>2. new = [q EXCEPT !.slot[q.tail] = u, !.tail = NextSlot(q.tail), !.count = q.count + 1]
  BY Zenon DEF Push
<1> HIDE DEF u, new
<1>3. new.slot = [q.slot EXCEPT ![q.tail] = u] /\ new.head = q.head
  BY <1>1, <1>2
<1>4. QueuedSlot(new, q.count) = q.tail
  BY <1>3 DEF QueuedSlot, WellFormed
<1>5. Queued(new, q.count) = u
  BY <1>1, <1>3, <1>4 DEF Queued
<1>6. u.pkt = t.pkt /\ u.tid = t.tid
  BY DEF u, TransactionsOf
<1>7. QED
  BY <1>5, <1>6 DEF new

\* What SetHead does: only the oldest transaction changes.
LEMMA SetHeadFacts ==
  ASSUME NEW types, NEW q \in QueuesOf(types), WellFormed(q), q.count > 0,
         NEW t \in TransactionsOf(types), t.active = TRUE
  PROVE  /\ SetHead(q, t) \in QueuesOf(types) /\ WellFormed(SetHead(q, t))
         /\ SetHead(q, t).count = q.count
         /\ HeadOf(SetHead(q, t)) = t
         /\ \A k \in 1..(q.count - 1) : Queued(SetHead(q, t), k) = Queued(q, k)
<1> DEFINE new == SetHead(q, t)
<1>1. /\ q.slot \in [Slots -> TransactionsOf(types)] /\ q.head \in Slots /\ q.tail \in Slots
      /\ q.count \in Nat /\ q.count <= QueueSize /\ QueueSize \in Nat \ {0}
      /\ q = [slot |-> q.slot, head |-> q.head, tail |-> q.tail, count |-> q.count]
  BY TxQueueAssumption DEF QueuesOf
<1>2. /\ new = [slot |-> [q.slot EXCEPT ![q.head] = t], head |-> q.head,
                tail |-> q.tail, count |-> q.count]
  BY <1>1 DEF SetHead
<1>3. /\ new.slot = [q.slot EXCEPT ![q.head] = t] /\ new.head = q.head
      /\ new.tail = q.tail /\ new.count = q.count
  BY <1>2
<1> HIDE DEF new
<1>4. new \in QueuesOf(types)
  BY <1>1, <1>2 DEF QueuesOf
<1>5. \A k \in 0..QueueSize : QueuedSlot(new, k) = QueuedSlot(q, k)
  BY <1>3 DEF QueuedSlot
<1>6. HeadOf(new) = t
  BY <1>1, <1>3 DEF HeadOf
<1>8. ASSUME NEW k \in 1..(q.count - 1)
      PROVE  Queued(new, k) = Queued(q, k)
  <2>1. QueuedSlot(q, k) \in Slots /\ QueuedSlot(q, k) # q.head
    BY <1>1, SlotFacts
  <2>2. QED
    BY <1>1, <1>3, <1>5, <2>1 DEF Queued
<1>9. WellFormed(new)
  <2>1. ASSUME NEW i \in Slots
        PROVE  new.slot[i].active <=> (new.count > 0 /\ i = new.head)
    <3>1. CASE i = q.head
      BY <1>1, <1>3, <3>1
    <3>2. CASE i # q.head
      <4>1. new.slot[i] = q.slot[i]
        BY <1>1, <1>3, <3>2
      <4>2. QED
        BY <1>3, <3>2, <4>1, Zenon DEF WellFormed
    <3>3. QED
      BY <3>1, <3>2
  <2>2. new.tail = QueuedSlot(new, new.count)
    BY <1>1, <1>3, <1>5 DEF WellFormed
  <2>3. QED
    BY <2>1, <2>2 DEF WellFormed
<1>10. QED
  BY <1>3, <1>4, <1>6, <1>8, <1>9 DEF new

\* What a start and a retry make of a transaction.
LEMMA StartedFacts ==
  ASSUME NEW types, NEW t \in TransactionsOf(types)
  PROVE  /\ Started(t) \in TransactionsOf(types)
         /\ Started(t).active = TRUE /\ Started(t).waiting = FALSE
         /\ Started(t).pkt = t.pkt /\ Started(t).tid = t.tid /\ Started(t).total = t.total
         /\ Started(t).seq_index = 0 /\ Started(t).retry_count = 0
<1>1. 0 \in 0..MaxRetries
  BY TxQueueAssumption
<1>2. QED
  BY <1>1 DEF Started, TransactionsOf

LEMMA RepeatedFacts ==
  ASSUME NEW types, NEW t \in TransactionsOf(types), t.retry_count < MaxRetries
  PROVE  /\ Repeated(t) \in TransactionsOf(types)
         /\ Repeated(t).active = t.active /\ Repeated(t).waiting = FALSE
         /\ Repeated(t).pkt = t.pkt /\ Repeated(t).tid = t.tid /\ Repeated(t).total = t.total
         /\ Repeated(t).seq_index = 0 /\ Repeated(t).retry_count = t.retry_count + 1
<1>1. t.retry_count + 1 \in 0..MaxRetries
  BY TxQueueAssumption DEF TransactionsOf
<1>2. QED
  BY <1>1 DEF Repeated, TransactionsOf

\* What Pop does: the oldest transaction is gone, and the one behind it, if
\* there is one, is started.
LEMMA PopFacts ==
  ASSUME NEW types, NEW q \in QueuesOf(types), WellFormed(q), q.count > 0
  PROVE  /\ Pop(q) \in QueuesOf(types) /\ WellFormed(Pop(q))
         /\ Pop(q).count = q.count - 1
         /\ q.count > 1 => /\ HeadOf(Pop(q)) = Started(Queued(q, 1))
                           /\ Queued(Pop(q), 0) = Started(Queued(q, 1))
         /\ \A k \in 1..(q.count - 2) : Queued(Pop(q), k) = Queued(q, k + 1)
<1> DEFINE idle == [q.slot[q.head] EXCEPT !.active = FALSE]
           left == [q EXCEPT !.slot[q.head] = idle, !.head = NextSlot(q.head),
                             !.count = q.count - 1]
<1>1. /\ q.slot \in [Slots -> TransactionsOf(types)] /\ q.head \in Slots /\ q.tail \in Slots
      /\ q.count \in Nat /\ q.count <= QueueSize /\ QueueSize \in Nat \ {0}
      /\ q = [slot |-> q.slot, head |-> q.head, tail |-> q.tail, count |-> q.count]
      /\ q.count >= 1
  BY TxQueueAssumption DEF QueuesOf
<1>2. idle \in TransactionsOf(types) /\ idle.active = FALSE
  BY <1>1 DEF TransactionsOf
<1> HIDE DEF idle
<1>3. Pop(q) = IF left.count > 0 THEN SetHead(left, Started(HeadOf(left))) ELSE left
  BY Zenon DEF Pop, idle
<1>4. /\ left.slot = [q.slot EXCEPT ![q.head] = idle] /\ left.head = NextSlot(q.head)
      /\ left.tail = q.tail /\ left.count = q.count - 1
  BY <1>1
<1>5. NextSlot(q.head) \in Slots /\ NextSlot(q.head) = QueuedSlot(q, 1)
  BY <1>1, SlotFacts
<1>6. left \in QueuesOf(types)
  <2>1. q.count - 1 \in 0..QueueSize
    BY <1>1
  <2>2. QED
    BY <1>1, <1>2, <1>5, <2>1, UpdateFacts
<1> HIDE DEF left
<1>7. \A k \in 0..(QueueSize - 1) : QueuedSlot(left, k) = QueuedSlot(q, k + 1)
  <2>1. CASE q.head + 1 >= QueueSize
    BY <1>1, <1>4, <2>1 DEF QueuedSlot, NextSlot, Slots
  <2>2. CASE ~(q.head + 1 >= QueueSize)
    BY <1>1, <1>4, <2>2 DEF QueuedSlot, NextSlot, Slots
  <2>3. QED
    BY <2>1, <2>2
<1>8. left.tail = QueuedSlot(left, left.count)
  BY <1>1, <1>4, <1>7 DEF WellFormed
<1>9. \A i \in Slots : left.slot[i].active = FALSE
  <2>1. ASSUME NEW i \in Slots
        PROVE  left.slot[i].active = FALSE
    <3>1. CASE i = q.head
      BY <1>1, <1>2, <1>4, <3>1
    <3>2. CASE i # q.head
      <4>1. left.slot[i] = q.slot[i]
        BY <1>1, <1>4, <3>2
      <4>2. ~q.slot[i].active
        BY <3>2, Zenon DEF WellFormed
      <4>3. left.slot[i].active \in BOOLEAN
        BY <1>6 DEF QueuesOf, TransactionsOf
      <4>4. QED
        BY <4>1, <4>2, <4>3
    <3>3. QED
      BY <3>1, <3>2
  <2>2. QED
    BY <2>1
<1>10. \A k \in 0..(q.count - 2) : Queued(left, k) = Queued(q, k + 1)
  <2>1. ASSUME NEW k \in 0..(q.count - 2)
        PROVE  Queued(left, k) = Queued(q, k + 1)
    <3>1. QueuedSlot(q, k + 1) \in Slots /\ QueuedSlot(q, k + 1) # q.head
      BY <1>1, SlotFacts
    <3>2. QED
      BY <1>1, <1>4, <1>7, <3>1 DEF Queued
  <2>2. QED
    BY <2>1
<1>11. CASE q.count = 1
  <2>1. Pop(q) = left
    BY <1>3, <1>4, <1>11
  <2>2. WellFormed(left)
    <3>1. ~(left.count > 0)
      BY <1>4, <1>11
    <3>2. QED
      BY <1>8, <1>9, <3>1, Zenon DEF WellFormed
  <2>3. QED
    BY <1>4, <1>6, <1>11, <2>1, <2>2
<1>12. CASE q.count # 1
  <2> DEFINE t == Started(HeadOf(left))
             new == SetHead(left, t)
  <2>1. q.count > 1 /\ left.count > 0 /\ left.count <= QueueSize
    BY <1>1, <1>4, <1>12
  <2>2. Pop(q) = new
    BY <1>3, <2>1
  <2>3. HeadOf(left) = Queued(q, 1) /\ HeadOf(left) \in TransactionsOf(types)
    <3>1. HeadOf(left) = Queued(left, 0)
      BY <1>1, <1>6, SlotFacts DEF HeadOf, Queued
    <3>2. left.slot[left.head] \in TransactionsOf(types)
      BY <1>6 DEF QueuesOf
    <3>3. QED
      BY <1>10, <2>1, <1>1, <3>1, <3>2 DEF HeadOf
  <2>4. t \in TransactionsOf(types) /\ t.active = TRUE
    BY <2>3, StartedFacts
  <2> HIDE DEF t
  <2>5. /\ left.slot \in [Slots -> TransactionsOf(types)] /\ left.head \in Slots
        /\ left = [slot |-> left.slot, head |-> left.head, tail |-> left.tail,
                   count |-> left.count]
    BY <1>6 DEF QueuesOf
  <2>6. new = [slot |-> [left.slot EXCEPT ![left.head] = t], head |-> left.head,
               tail |-> left.tail, count |-> left.count]
    BY <2>5 DEF SetHead
  <2>7. /\ new.slot = [left.slot EXCEPT ![left.head] = t] /\ new.head = left.head
        /\ new.tail = left.tail /\ new.count = left.count
    BY <2>6
  <2> HIDE DEF new
  <2>8. new \in QueuesOf(types)
    BY <1>6, <2>4, <2>6 DEF QueuesOf
  <2>9. \A k \in 0..QueueSize : QueuedSlot(new, k) = QueuedSlot(left, k)
    BY <2>7 DEF QueuedSlot
  <2>10. HeadOf(new) = t /\ Queued(new, 0) = t
    BY <1>6, <1>1, <2>5, <2>7, <2>9, SlotFacts DEF HeadOf, Queued
  <2>11. ASSUME NEW k \in 1..(q.count - 2)
         PROVE  Queued(new, k) = Queued(q, k + 1)
    <3>1. QueuedSlot(left, k) \in Slots /\ QueuedSlot(left, k) # left.head
      BY <1>1, <1>6, <2>1, SlotFacts
    <3>2. Queued(new, k) = Queued(left, k)
      BY <1>1, <2>5, <2>7, <2>9, <3>1 DEF Queued
    <3>3. QED
      BY <1>10, <3>2
  <2>12. WellFormed(new)
    <3>1. ASSUME NEW i \in Slots
          PROVE  new.slot[i].active <=> (new.count > 0 /\ i = new.head)
      <4>1. CASE i = left.head
        BY <2>1, <2>4, <2>5, <2>7, <4>1
      <4>2. CASE i # left.head
        BY <1>9, <2>5, <2>7, <4>2
      <4>3. QED
        BY <4>1, <4>2
    <3>2. new.tail = QueuedSlot(new, new.count)
      BY <1>4, <1>8, <2>1, <2>7, <2>9, <1>1
    <3>3. QED
      BY <3>1, <3>2 DEF WellFormed
  <2>13. t = Started(Queued(q, 1))
    BY <2>3 DEF t
  <2>14. QED
    BY <1>4, <2>2, <2>7, <2>8, <2>10, <2>11, <2>12, <2>13
<1>13. QED
  BY <1>11, <1>12

-----------------------------------------------------------------------------
(* Messages for NMS *)

NextTid(tid) == IF tid + 1 < TidMod THEN tid + 1 ELSE 0
Wrap(n) == IF n < TidMod THEN n ELSE n - TidMod

\* The messages gone, and the transaction id of the oldest that is not.
NmsGone == nAccepted - nQueue.count
NmsTid == IF nQueue.count > 0 THEN HeadOf(nQueue).tid ELSE nTid

NmsTypes ==
  /\ nQueue \in QueuesOf({"nms"})
  /\ nTid \in 0..(TidMod - 1)
  /\ nFlag \in BOOLEAN /\ nLatch \in N!Acks
  /\ nElapsed \in 0..AckTimeout /\ nMidTask \in BOOLEAN
  /\ nAcks \subseteq N!Acks
  /\ nAccepted \in 0..MaxPackets /\ nRefused \in 0..MaxPackets
  /\ nHeard \subseteq Packets /\ nAttempts \in Nat

\* The queue holds the messages that are not gone, in order.
NmsOrder ==
  /\ WellFormed(nQueue)
  /\ NmsGone \in Nat
  /\ \A k \in 0..(nQueue.count - 1) : Queued(nQueue, k).pkt = NmsGone + 1 + k

\* Each message gone left in one way.
NmsLeft ==
  /\ nConfirmed \cup nDropped \cup nSent = 1..NmsGone
  /\ Cardinality(nConfirmed) + Cardinality(nDropped) + Cardinality(nSent) = NmsGone
  /\ nSent = (1..NmsGone) \ AckRequired

\* Transaction ids follow each other, the next new one after the newest.
NmsTids ==
  /\ \A k \in 0..(nQueue.count - 2) : Queued(nQueue, k + 1).tid = NextTid(Queued(nQueue, k).tid)
  /\ nQueue.count > 0 => nTid = NextTid(Queued(nQueue, nQueue.count - 1).tid)

\* An ACK is of a message that has been sent.  A young one is as many
\* transaction ids behind the oldest message as its message is, and an OK is
\* of a message that the gateway has heard.
TrueAck(a) ==
  /\ a.msg <= NmsGone + 1
  /\ a.status = OK => a.msg \in nHeard
  /\ NmsGone + 1 - a.msg < TidMod => NmsTid = Wrap(a.tid + (NmsGone + 1 - a.msg))

NmsAcks ==
  /\ \A a \in nAcks : TrueAck(a)
  /\ nFlag => /\ ~nMidTask /\ TrueAck(nLatch)
              /\ nQueue.count > 0 /\ HeadOf(nQueue).waiting /\ ~nLatch.has_sequence
                   => HeadOf(nQueue).pkt - nLatch.msg < TidMod

\* The head waits only for an ACK that it wants, and its retries count its
\* transmissions.
NmsHead ==
  /\ nQueue.count = 0 => nAttempts = 0
  /\ nQueue.count > 0 =>
       LET t == HeadOf(nQueue)
       IN /\ t.waiting => t.pkt \in AckRequired
          /\ nAttempts = t.retry_count + (IF t.waiting THEN 1 ELSE 0)

NmsInv ==
  /\ NmsTypes /\ NmsOrder /\ NmsLeft /\ NmsTids /\ NmsAcks /\ NmsHead
  /\ N!ConfirmedWasHeard

\* The queue of NMS.c is the common one.
LEMMA NmsQueueOps ==
  /\ N!Slots = Slots /\ N!Packets = Packets
  /\ \A q : N!IsFull(q) = IsFull(q) /\ N!HeadOf(q) = HeadOf(q) /\ N!Pop(q) = Pop(q)
  /\ \A q, t : N!Push(q, t) = Push(q, t) /\ N!SetHead(q, t) = SetHead(q, t)
  /\ \A q, k : N!QueuedPkt(q, k) = Queued(q, k).pkt
  /\ \A t : N!Repeated(t) = Repeated(t)
  /\ \A pkt, type, tid, total :
       N!Transaction(pkt, type, tid, total) = Transaction(pkt, type, tid, total)
  /\ \A none : N!EmptyQueue(none) = EmptyQueue(none)
  /\ \A set : N!Cardinality(set) = Cardinality(set)
<1>1. N!Slots = Slots /\ N!Packets = Packets
  BY DEF N!Slots, Slots, N!Packets, Packets
<1>2. \A q : N!IsFull(q) = IsFull(q) /\ N!HeadOf(q) = HeadOf(q)
  BY DEF N!IsFull, IsFull, N!HeadOf, HeadOf
<1>3. \A q, t : N!SetHead(q, t) = SetHead(q, t)
  BY DEF N!SetHead, SetHead
<1>4. \A q, t : N!Push(q, t) = Push(q, t)
  BY DEF N!Push, Push, N!NextSlot, NextSlot
<1>5. \A q : N!Pop(q) = Pop(q)
  BY DEF N!Pop, Pop, N!NextSlot, NextSlot, N!SetHead, SetHead, N!Started, Started,
         N!HeadOf, HeadOf
<1>6. \A q, k : N!QueuedPkt(q, k) = Queued(q, k).pkt
  BY DEF N!QueuedPkt, Queued, N!QueuedSlot, QueuedSlot
<1>7. \A t : N!Repeated(t) = Repeated(t)
  BY DEF N!Repeated, Repeated
<1>8. \A pkt, type, tid, total :
        N!Transaction(pkt, type, tid, total) = Transaction(pkt, type, tid, total)
  BY DEF N!Transaction, Transaction
<1>9. \A none : N!EmptyQueue(none) = EmptyQueue(none)
  BY <1>1 DEF N!EmptyQueue, EmptyQueue
<1>10. \A set : N!Cardinality(set) = Cardinality(set)
  BY DEF N!Cardinality, Cardinality
<1>11. QED
  BY <1>1, <1>2, <1>3, <1>4, <1>5, <1>6, <1>7, <1>8, <1>9, <1>10

\* The invariant says what the run checks.
LEMMA NmsInvSays ==
  ASSUME NmsInv
  PROVE  N!TypeOK /\ N!QueueInOrder /\ N!ConfirmedWasHeard
<1>1. nConfirmed \subseteq Packets /\ nDropped \subseteq Packets /\ nSent \subseteq Packets
  <2>1. nQueue.count \in Nat /\ nAccepted \in Nat /\ nAccepted <= MaxPackets
    BY NumberFacts DEF NmsInv, NmsTypes, QueuesOf
  <2>2. NmsGone \in Nat /\ NmsGone <= MaxPackets
    BY <2>1, NumberFacts DEF NmsInv, NmsOrder, NmsGone
  <2>3. 1..NmsGone \subseteq Packets
    BY <2>2, NumberFacts DEF Packets
  <2>4. QED
    BY <2>3 DEF NmsInv, NmsLeft
<1>2. N!TypeOK
  BY <1>1, NmsQueueOps DEF NmsInv, NmsTypes, QueuesOf, TransactionsOf, N!TypeOK
<1>3. N!QueueInOrder
  <2>1. N!Slots = Slots /\ \A k : N!QueuedPkt(nQueue, k) = Queued(nQueue, k).pkt
    BY NmsQueueOps
  <2>2. QED
    <3>1. \A i \in N!Slots :
            nQueue.slot[i].active <=> (nQueue.count > 0 /\ i = nQueue.head)
      BY <2>1, Zenon DEF NmsInv, NmsOrder, WellFormed
    <3>2. \A k \in 0..(nQueue.count - 1) :
            N!QueuedPkt(nQueue, k) = nAccepted - nQueue.count + 1 + k
      BY <2>1, Zenon DEF NmsInv, NmsOrder, NmsGone
    <3>3. /\ nConfirmed \cup nDropped \cup nSent = 1..(nAccepted - nQueue.count)
          /\ Cardinality(nConfirmed) + Cardinality(nDropped) + Cardinality(nSent)
               = nAccepted - nQueue.count
          /\ nSent = (1..(nAccepted - nQueue.count)) \ AckRequired
      BY DEF NmsInv, NmsLeft, NmsGone
    <3>4. QED
      BY <3>1, <3>2, <3>3, NmsQueueOps DEF N!QueueInOrder
<1>4. QED
  BY <1>2, <1>3 DEF NmsInv

\* A young ACK stays as far behind as its message does.
LEMMA TrueAckKept ==
  ASSUME NEW a \in N!Acks, TrueAck(a), nHeard \subseteq nHeard',
         NmsGone \in Nat, NmsTid \in 0..(TidMod - 1),
         \/ NmsGone' = NmsGone /\ NmsTid' = NmsTid
         \/ NmsGone' = NmsGone + 1 /\ NmsTid' = NextTid(NmsTid)
  PROVE  TrueAck(a)'
<1>1. a.msg \in Nat /\ a.tid \in 0..(TidMod - 1) /\ TidMod \in Nat \ {0}
  BY TxQueueAssumption DEF N!Acks
<1>2. a.msg <= NmsGone' + 1
  BY <1>1 DEF TrueAck
<1>3. a.status = OK => a.msg \in nHeard'
  BY DEF TrueAck
<1>4. NmsGone' + 1 - a.msg < TidMod => NmsTid' = Wrap(a.tid + (NmsGone' + 1 - a.msg))
  BY <1>1 DEF TrueAck, Wrap, NextTid
<1>5. QED
  BY <1>2, <1>3, <1>4 DEF TrueAck

\* The oldest message, and what is known of it.
LEMMA NmsHeadFacts ==
  ASSUME NmsInv
  PROVE  /\ nQueue \in QueuesOf({"nms"}) /\ WellFormed(nQueue)
         /\ nQueue.count \in 0..QueueSize /\ NmsGone \in Nat
         /\ NmsTid \in 0..(TidMod - 1)
         /\ nQueue.count > 0 =>
              /\ HeadOf(nQueue) \in TransactionsOf({"nms"})
              /\ HeadOf(nQueue).active = TRUE
              /\ HeadOf(nQueue).pkt = NmsGone + 1 /\ HeadOf(nQueue).pkt \in Packets
              /\ HeadOf(nQueue).tid = NmsTid
              /\ HeadOf(nQueue) = Queued(nQueue, 0)
<1>1. /\ nQueue \in QueuesOf({"nms"}) /\ WellFormed(nQueue) /\ NmsGone \in Nat
      /\ nQueue.slot \in [Slots -> TransactionsOf({"nms"})] /\ nQueue.head \in Slots
      /\ nQueue.count \in 0..QueueSize /\ QueueSize \in Nat
  BY TxQueueAssumption DEF NmsInv, NmsTypes, NmsOrder, QueuesOf
<1>2. CASE nQueue.count > 0
  <2>1. HeadOf(nQueue) \in TransactionsOf({"nms"}) /\ HeadOf(nQueue) = Queued(nQueue, 0)
    BY <1>1, SlotFacts DEF HeadOf, Queued
  <2>2. HeadOf(nQueue).active = TRUE
    <3>1. nQueue.slot[nQueue.head].active
      BY <1>1, <1>2, Zenon DEF WellFormed
    <3>2. QED
      BY <2>1, <3>1 DEF HeadOf, TransactionsOf
  <2>3. HeadOf(nQueue).pkt = NmsGone + 1
    BY <1>1, <1>2, <2>1 DEF NmsInv, NmsOrder
  <2>4. HeadOf(nQueue).pkt \in Packets
    BY <1>1, <2>1, <2>3 DEF TransactionsOf, Packets
  <2>5. HeadOf(nQueue).tid \in 0..(TidMod - 1) /\ NmsTid = HeadOf(nQueue).tid
    BY <1>2, <2>1 DEF TransactionsOf, NmsTid
  <2>6. QED
    BY <1>1, <2>1, <2>2, <2>3, <2>4, <2>5
<1>3. CASE ~(nQueue.count > 0)
  BY <1>1, <1>3 DEF NmsTid, NmsInv, NmsTypes
<1>4. QED
  BY <1>2, <1>3

\* The oldest message leaves.
LEMMA NmsPop ==
  ASSUME NmsInv, nQueue.count > 0, nQueue' = Pop(nQueue), nAccepted' = nAccepted, nTid' = nTid
  PROVE  /\ nQueue' \in QueuesOf({"nms"}) /\ NmsOrder' /\ NmsTids'
         /\ NmsGone' = NmsGone + 1 /\ NmsTid' = NextTid(NmsTid)
         /\ nQueue'.count = nQueue.count - 1
         /\ nQueue'.count > 0 =>
              HeadOf(nQueue').waiting = FALSE /\ HeadOf(nQueue').retry_count = 0
<1>1. /\ nQueue \in QueuesOf({"nms"}) /\ WellFormed(nQueue)
      /\ nQueue.count \in 0..QueueSize /\ NmsGone \in Nat /\ nAccepted \in Nat
      /\ QueueSize \in Nat
  <2>1. nAccepted \in Nat /\ QueueSize \in Nat
    BY NumberFacts DEF NmsInv, NmsTypes
  <2>2. QED
    BY <2>1, NmsHeadFacts
<1>2. /\ nQueue' \in QueuesOf({"nms"}) /\ WellFormed(nQueue')
      /\ nQueue'.count = nQueue.count - 1
      /\ nQueue.count > 1 => /\ HeadOf(nQueue') = Started(Queued(nQueue, 1))
                             /\ Queued(nQueue', 0) = Started(Queued(nQueue, 1))
      /\ \A k \in 1..(nQueue.count - 2) : Queued(nQueue', k) = Queued(nQueue, k + 1)
  BY <1>1, PopFacts
<1>3. \A k \in 0..(nQueue.count - 1) : Queued(nQueue, k) \in TransactionsOf({"nms"})
  BY <1>1, SlotFacts DEF Queued, QueuesOf
<1>4. nQueue.count > 1 =>
        /\ HeadOf(nQueue').waiting = FALSE /\ HeadOf(nQueue').retry_count = 0
        /\ HeadOf(nQueue').tid = Queued(nQueue, 1).tid
        /\ Queued(nQueue', 0).pkt = Queued(nQueue, 1).pkt
        /\ Queued(nQueue', 0).tid = Queued(nQueue, 1).tid
  <2>1. nQueue.count > 1 => Queued(nQueue, 1) \in TransactionsOf({"nms"})
    BY <1>1, <1>3
  <2>2. QED
    BY <1>2, <2>1, StartedFacts
<1>5. \A k \in 0..(nQueue.count - 2) : /\ Queued(nQueue', k).pkt = Queued(nQueue, k + 1).pkt
                                       /\ Queued(nQueue', k).tid = Queued(nQueue, k + 1).tid
  BY <1>1, <1>2, <1>4
<1>6. NmsGone' = NmsGone + 1 /\ NmsGone' \in Nat
  BY <1>1, <1>2 DEF NmsGone
<1>7. NmsOrder'
  <2>1. \A k \in 0..(nQueue'.count - 1) : Queued(nQueue', k).pkt = NmsGone' + 1 + k
    BY <1>1, <1>2, <1>5, <1>6 DEF NmsInv, NmsOrder
  <2>2. QED
    BY <1>2, <1>6, <2>1 DEF NmsOrder
<1>8. NmsTids'
  BY <1>1, <1>2, <1>5 DEF NmsInv, NmsTids
<1>9. NmsTid' = NextTid(NmsTid)
  <2>1. NmsTid = Queued(nQueue, 0).tid
    BY NmsHeadFacts
  <2>2. CASE nQueue.count = 1
    BY <1>1, <1>2, <2>1, <2>2 DEF NmsTid, NmsInv, NmsTids
  <2>3. CASE nQueue.count > 1
    BY <1>1, <1>2, <1>4, <2>1, <2>3 DEF NmsTid, NmsInv, NmsTids
  <2>4. QED
    BY <1>1, <2>2, <2>3
<1>10. QED
  BY <1>1, <1>2, <1>4, <1>6, <1>7, <1>8, <1>9

\* The oldest message changes, but not its number and its transaction id.
LEMMA NmsSetHead ==
  ASSUME NmsInv, nQueue.count > 0, nAccepted' = nAccepted, nTid' = nTid,
         NEW head \in TransactionsOf({"nms"}), nQueue' = SetHead(nQueue, head), head.active = TRUE,
         head.pkt = HeadOf(nQueue).pkt, head.tid = HeadOf(nQueue).tid
  PROVE  /\ nQueue' \in QueuesOf({"nms"}) /\ NmsOrder' /\ NmsTids'
         /\ NmsGone' = NmsGone /\ NmsTid' = NmsTid
         /\ nQueue'.count = nQueue.count /\ HeadOf(nQueue') = head
<1>1. /\ nQueue \in QueuesOf({"nms"}) /\ WellFormed(nQueue)
      /\ nQueue.count \in 0..QueueSize /\ NmsGone \in Nat /\ nAccepted \in Nat
      /\ QueueSize \in Nat
  <2>1. nAccepted \in Nat /\ QueueSize \in Nat
    BY NumberFacts DEF NmsInv, NmsTypes
  <2>2. QED
    BY <2>1, NmsHeadFacts
<1>2. /\ nQueue' \in QueuesOf({"nms"}) /\ WellFormed(nQueue')
      /\ nQueue'.count = nQueue.count
      /\ HeadOf(nQueue') = head /\ Queued(nQueue', 0) = head
      /\ \A k \in 1..(nQueue.count - 1) : Queued(nQueue', k) = Queued(nQueue, k)
  <2>1. /\ SetHead(nQueue, head) \in QueuesOf({"nms"}) /\ WellFormed(SetHead(nQueue, head))
        /\ SetHead(nQueue, head).count = nQueue.count
        /\ HeadOf(SetHead(nQueue, head)) = head
        /\ \A k \in 1..(nQueue.count - 1) : Queued(SetHead(nQueue, head), k) = Queued(nQueue, k)
    BY <1>1, SetHeadFacts
  <2>2. Queued(nQueue', 0) = head
    BY <2>1, HeadIsQueued
  <2>3. QED
    BY <2>1, <2>2
<1>3. \A k \in 0..(nQueue.count - 1) : /\ Queued(nQueue', k).pkt = Queued(nQueue, k).pkt
                                       /\ Queued(nQueue', k).tid = Queued(nQueue, k).tid
  <2>1. HeadOf(nQueue) = Queued(nQueue, 0)
    BY NmsHeadFacts
  <2>2. QED
    BY <1>1, <1>2, <2>1
<1>4. NmsGone' = NmsGone
  BY <1>2 DEF NmsGone
<1>5. NmsOrder'
  BY <1>1, <1>2, <1>3, <1>4 DEF NmsInv, NmsOrder
<1>6. NmsTids'
  BY <1>1, <1>2, <1>3 DEF NmsInv, NmsTids
<1>7. NmsTid' = NmsTid
  BY <1>2 DEF NmsTid
<1>8. QED
  BY <1>2, <1>4, <1>5, <1>6, <1>7

\* A message leaves in one way, without an ACK if it wants none.
LEMMA NmsLeaves ==
  ASSUME NmsInv, NmsGone' = NmsGone + 1,
         \/ /\ nConfirmed' = nConfirmed \cup {NmsGone + 1} /\ UNCHANGED <<nDropped, nSent>>
            /\ NmsGone + 1 \in AckRequired
         \/ /\ nDropped' = nDropped \cup {NmsGone + 1} /\ UNCHANGED <<nConfirmed, nSent>>
            /\ NmsGone + 1 \in AckRequired
         \/ /\ nSent' = nSent \cup {NmsGone + 1} /\ UNCHANGED <<nConfirmed, nDropped>>
            /\ NmsGone + 1 \notin AckRequired
  PROVE  NmsLeft'
<1>1. /\ NmsGone \in Nat
      /\ nConfirmed \cup nDropped \cup nSent = 1..NmsGone
      /\ Cardinality(nConfirmed) + Cardinality(nDropped) + Cardinality(nSent) = NmsGone
      /\ nSent = (1..NmsGone) \ AckRequired
  BY DEF NmsInv, NmsOrder, NmsLeft
<1>2. 1..(NmsGone + 1) = (1..NmsGone) \cup {NmsGone + 1} /\ NmsGone + 1 \notin 1..NmsGone
  BY <1>1
<1>3. IsFiniteSet(1..NmsGone)
  BY <1>1, FS_Interval
<1>4. IsFiniteSet(nConfirmed) /\ IsFiniteSet(nDropped) /\ IsFiniteSet(nSent)
  <2>1. nConfirmed \subseteq 1..NmsGone /\ nDropped \subseteq 1..NmsGone /\ nSent \subseteq 1..NmsGone
    BY <1>1
  <2>2. QED
    BY <1>3, <2>1, FS_Subset
<1>5. /\ Cardinality(nConfirmed) \in Nat /\ Cardinality(nDropped) \in Nat
      /\ Cardinality(nSent) \in Nat
  BY <1>4, FS_CardinalityType
<1>6. /\ Cardinality(nConfirmed \cup {NmsGone + 1}) = Cardinality(nConfirmed) + 1
      /\ Cardinality(nDropped \cup {NmsGone + 1}) = Cardinality(nDropped) + 1
      /\ Cardinality(nSent \cup {NmsGone + 1}) = Cardinality(nSent) + 1
  <2>1. NmsGone + 1 \notin nConfirmed /\ NmsGone + 1 \notin nDropped /\ NmsGone + 1 \notin nSent
    BY <1>1, <1>2
  <2>2. QED
    BY <1>4, <2>1, FS_AddElement
<1>7. nConfirmed' \cup nDropped' \cup nSent' = 1..NmsGone'
  BY <1>1, <1>2
<1>8. Cardinality(nConfirmed') + Cardinality(nDropped') + Cardinality(nSent') = NmsGone'
  <2>1. CASE nConfirmed' = nConfirmed \cup {NmsGone + 1} /\ nDropped' = nDropped /\ nSent' = nSent
    BY <1>1, <1>5, <1>6, <2>1
  <2>2. CASE nDropped' = nDropped \cup {NmsGone + 1} /\ nConfirmed' = nConfirmed /\ nSent' = nSent
    BY <1>1, <1>5, <1>6, <2>2
  <2>3. CASE nSent' = nSent \cup {NmsGone + 1} /\ nConfirmed' = nConfirmed /\ nDropped' = nDropped
    BY <1>1, <1>5, <1>6, <2>3
  <2>4. QED
    BY <2>1, <2>2, <2>3
<1>9. nSent' = (1..NmsGone') \ AckRequired
  BY <1>1, <1>2
<1>10. QED
  BY <1>7, <1>8, <1>9 DEF NmsLeft

\* What stays when the messages gone and the ACKs do.
LEMMA NmsStay ==
  ASSUME NmsInv
  PROVE  /\ (NmsGone' = NmsGone /\ UNCHANGED <<nConfirmed, nDropped, nSent>>) => NmsLeft'
         /\ UNCHANGED nQueue /\ UNCHANGED <<nTid, nAccepted>>
              => NmsOrder' /\ NmsTids' /\ NmsGone' = NmsGone /\ NmsTid' = NmsTid
         /\ UNCHANGED <<nQueue, nAttempts>> => NmsHead'
<1>1. (NmsGone' = NmsGone /\ UNCHANGED <<nConfirmed, nDropped, nSent>>) => NmsLeft'
  BY DEF NmsInv, NmsLeft
<1>2. UNCHANGED nQueue /\ UNCHANGED <<nTid, nAccepted>>
        => NmsOrder' /\ NmsTids' /\ NmsGone' = NmsGone /\ NmsTid' = NmsTid
  BY DEF NmsInv, NmsOrder, NmsTids, NmsGone, NmsTid
<1>3. UNCHANGED <<nQueue, nAttempts>> => NmsHead'
  BY DEF NmsInv, NmsHead
<1>4. QED
  BY <1>1, <1>2, <1>3

LEMMA NmsInit == N!Init => NmsInv
<1> SUFFICES ASSUME N!Init PROVE NmsInv
  OBVIOUS
<1>1. /\ nQueue = EmptyQueue(Transaction(0, "nms", 0, 0)) /\ nTid = 0 /\ nFlag = FALSE
      /\ nLatch = N!NoAck /\ nElapsed = 0 /\ nMidTask = FALSE /\ nAcks = {} /\ nHeard = {}
      /\ nAccepted = 0 /\ nRefused = 0
      /\ nConfirmed = {} /\ nDropped = {} /\ nSent = {} /\ nAttempts = 0
  BY NmsQueueOps DEF N!Init, N!NoMessage
<1>2. /\ nQueue.slot = [i \in Slots |-> Transaction(0, "nms", 0, 0)]
      /\ nQueue.head = 0 /\ nQueue.tail = 0 /\ nQueue.count = 0
      /\ nQueue = [slot |-> [i \in Slots |-> Transaction(0, "nms", 0, 0)], head |-> 0,
                   tail |-> 0, count |-> 0]
  BY <1>1 DEF EmptyQueue
<1>3. Transaction(0, "nms", 0, 0) \in TransactionsOf({"nms"})
  BY NumberFacts DEF Transaction, TransactionsOf
<1>4. nQueue \in QueuesOf({"nms"})
  <2>1. 0 \in Slots /\ 0 \in 0..QueueSize
    BY NumberFacts DEF Slots
  <2>2. QED
    BY <1>2, <1>3, <2>1 DEF QueuesOf
<1>5. NmsTypes
  <2>1. nLatch \in N!Acks
    BY <1>1, NumberFacts DEF N!NoAck, N!Acks, N!OK
  <2>2. nTid \in 0..(TidMod - 1) /\ nElapsed \in 0..AckTimeout
    BY <1>1, NumberFacts
  <2>3. nAccepted \in 0..MaxPackets /\ nRefused \in 0..MaxPackets /\ nAttempts \in Nat
    BY <1>1, NumberFacts
  <2>4. /\ nFlag \in BOOLEAN /\ nMidTask \in BOOLEAN /\ nAcks \subseteq N!Acks
        /\ nHeard \subseteq Packets
    BY <1>1, Zenon
  <2>5. QED
    BY <1>4, <2>1, <2>2, <2>3, <2>4 DEF NmsTypes
<1>6. NmsGone = 0
  BY <1>1, <1>2 DEF NmsGone
<1>7. NmsOrder
  <2>1. WellFormed(nQueue)
    <3>1. \A i \in Slots : nQueue.slot[i].active = FALSE
      BY <1>2 DEF Transaction
    <3>2. nQueue.tail = QueuedSlot(nQueue, nQueue.count)
      BY <1>2, NumberFacts DEF QueuedSlot
    <3>3. ~(nQueue.count > 0)
      BY <1>2
    <3>4. QED
      BY <3>1, <3>2, <3>3, Zenon DEF WellFormed
  <2>2. QED
    BY <1>2, <1>6, <2>1 DEF NmsOrder
<1>8. NmsLeft
  BY <1>1, <1>6, FS_EmptySet DEF NmsLeft
<1>9. NmsTids /\ NmsAcks /\ NmsHead /\ N!ConfirmedWasHeard
  BY <1>1, <1>2 DEF NmsTids, NmsAcks, NmsHead, N!ConfirmedWasHeard
<1>10. QED
  BY <1>5, <1>7, <1>8, <1>9 DEF NmsInv

\* A message is queued, or refused by a full queue.
LEMMA NmsSendKeeps ==
  ASSUME NmsInv, N!Send
  PROVE  NmsInv'
<1>1. /\ ~nMidTask /\ nAccepted + nRefused < MaxPackets
      /\ UNCHANGED <<nFlag, nLatch, nElapsed, nMidTask, nAcks, nHeard, nConfirmed, nDropped,
                     nSent, nAttempts>>
  BY DEF N!Send, N!doneVars
<1>2. /\ nQueue \in QueuesOf({"nms"}) /\ WellFormed(nQueue) /\ nQueue.count \in 0..QueueSize
      /\ NmsGone \in Nat /\ nAccepted \in Nat /\ nRefused \in Nat /\ MaxPackets \in Nat
      /\ QueueSize \in Nat \ {0} /\ nTid \in 0..(TidMod - 1) /\ TidMod \in Nat \ {0}
  <2>1. nAccepted \in Nat /\ nRefused \in Nat /\ nTid \in 0..(TidMod - 1)
    BY NumberFacts DEF NmsInv, NmsTypes
  <2>2. QED
    BY <2>1, NmsHeadFacts, NumberFacts
<1>3. CASE N!Full
  <2>1. UNCHANGED <<nQueue, nTid, nAccepted>> /\ nRefused' = nRefused + 1
    BY <1>3 DEF N!Send
  <2>2. NmsTypes'
    BY <1>1, <1>2, <2>1 DEF NmsInv, NmsTypes
  <2>3. NmsOrder' /\ NmsTids' /\ NmsGone' = NmsGone /\ NmsTid' = NmsTid /\ NmsHead'
    BY <1>1, <2>1, NmsStay
  <2>4. NmsLeft'
    BY <1>1, <2>3, NmsStay
  <2>5. NmsAcks' /\ N!ConfirmedWasHeard'
    BY <1>1, <2>1, <2>3 DEF NmsInv, NmsAcks, TrueAck, N!ConfirmedWasHeard
  <2>6. QED
    BY <2>2, <2>3, <2>4, <2>5 DEF NmsInv
<1>4. CASE ~N!Full
  <2> DEFINE message == Transaction(nAccepted + 1, "nms", nTid, Fragments[nAccepted + 1])
  <2>1. /\ nAccepted' = nAccepted + 1 /\ nQueue' = Push(nQueue, message)
        /\ nTid' = (nTid + 1) % TidMod /\ nRefused' = nRefused
    BY <1>4, NmsQueueOps DEF N!Send
  <2>2. nQueue.count < QueueSize
    <3>1. ~(nQueue.count >= QueueSize)
      BY <1>4, NmsQueueOps, Zenon DEF N!Full, IsFull
    <3>2. QED
      BY <1>2, <3>1
  <2>3. /\ message \in TransactionsOf({"nms"}) /\ message.active = FALSE /\ message.waiting = FALSE
        /\ message.pkt = nAccepted + 1 /\ message.tid = nTid /\ message.retry_count = 0
    <3>1. nAccepted + 1 \in Packets /\ nAccepted + 1 \in 0..MaxPackets
      BY <1>1, <1>2 DEF Packets
    <3>2. Fragments[nAccepted + 1] \in Nat
      BY <3>1, TxQueueAssumption
    <3>3. QED
      BY <1>2, <2>1, <3>1, <3>2, NumberFacts DEF Transaction, TransactionsOf
  <2>4. nTid' = NextTid(nTid)
    <3>1. CASE nTid + 1 < TidMod
      BY <1>2, <2>1, <3>1 DEF NextTid
    <3>2. CASE nTid + 1 = TidMod
      BY <1>2, <2>1, <3>2 DEF NextTid
    <3>3. QED
      BY <1>2, <3>1, <3>2
  <2> HIDE DEF message
  <2>5. /\ nQueue' \in QueuesOf({"nms"}) /\ WellFormed(nQueue')
        /\ nQueue'.count = nQueue.count + 1
        /\ \A k \in 0..(nQueue.count - 1) : Queued(nQueue', k) = Queued(nQueue, k)
        /\ Queued(nQueue', nQueue.count).pkt = message.pkt /\ Queued(nQueue', nQueue.count).tid = message.tid
        /\ nQueue.count > 0 => HeadOf(nQueue') = HeadOf(nQueue)
        /\ nQueue.count = 0 => /\ HeadOf(nQueue').waiting = FALSE
                               /\ HeadOf(nQueue').retry_count = 0
                               /\ HeadOf(nQueue').tid = nTid
    <3>1. /\ Push(nQueue, message) \in QueuesOf({"nms"}) /\ WellFormed(Push(nQueue, message))
          /\ Push(nQueue, message).count = nQueue.count + 1
      BY <1>2, <2>2, <2>3, PushFacts
    <3>2. \A k \in 0..(nQueue.count - 1) : Queued(Push(nQueue, message), k) = Queued(nQueue, k)
      <4>1. /\ nQueue \in QueuesOf({"nms"}) /\ WellFormed(nQueue) /\ nQueue.count < QueueSize
            /\ message \in TransactionsOf({"nms"}) /\ message.active = FALSE
        BY <1>2, <2>2, <2>3
      <4>2. QED
        BY ONLY <4>1, PushFacts, Zenon
    <3>3. /\ Queued(Push(nQueue, message), nQueue.count).pkt = message.pkt
          /\ Queued(Push(nQueue, message), nQueue.count).tid = message.tid
      BY <1>2, <2>2, <2>3, PushedTail
    <3>4. /\ nQueue.count > 0 => HeadOf(Push(nQueue, message)) = HeadOf(nQueue)
          /\ nQueue.count = 0 => /\ HeadOf(Push(nQueue, message)).waiting = message.waiting
                                 /\ HeadOf(Push(nQueue, message)).retry_count = message.retry_count
                                 /\ HeadOf(Push(nQueue, message)).tid = message.tid
      <4>1. /\ nQueue.count > 0 => HeadOf(Push(nQueue, message)) = HeadOf(nQueue)
            /\ ~(nQueue.count > 0) => HeadOf(Push(nQueue, message))
                                        = [message EXCEPT !.active = (nQueue.count = 0)]
        BY <1>2, <2>2, <2>3, PushedHead
      <4>2. \A active : /\ [message EXCEPT !.active = active].waiting = message.waiting
                        /\ [message EXCEPT !.active = active].retry_count = message.retry_count
                        /\ [message EXCEPT !.active = active].tid = message.tid
        BY <2>3 DEF TransactionsOf
      <4>3. nQueue.count = 0 => ~(nQueue.count > 0)
        OBVIOUS
      <4>4. QED
        BY <4>1, <4>2, <4>3, Zenon
    <3>5. QED
      BY <2>1, <2>3, <3>1, <3>2, <3>3, <3>4
  <2>6. NmsGone' = NmsGone
    BY <1>2, <2>1, <2>5 DEF NmsGone
  <2>7. /\ Queued(nQueue', nQueue.count).pkt = nAccepted + 1
        /\ Queued(nQueue', nQueue.count).tid = nTid
    BY <2>3, <2>5
  <2>8. nQueue.count = 0 => /\ HeadOf(nQueue').waiting = FALSE /\ HeadOf(nQueue').retry_count = 0
                            /\ HeadOf(nQueue').tid = nTid
    BY <2>5
  <2>9. nQueue.count > 0 => HeadOf(nQueue') = HeadOf(nQueue)
    BY <1>2, <2>5
  <2>10. NmsTypes'
    <3>1. nTid' \in 0..(TidMod - 1)
      BY <1>2, <2>4 DEF NextTid
    <3>2. nAccepted' \in 0..MaxPackets /\ nRefused' \in 0..MaxPackets
      BY <1>1, <1>2, <2>1
    <3>3. QED
      BY <1>1, <2>5, <3>1, <3>2 DEF NmsInv, NmsTypes
  <2>11. NmsOrder'
    <3>1. \A k \in 0..(nQueue'.count - 1) : Queued(nQueue', k).pkt = NmsGone' + 1 + k
      <4>1. \A k \in 0..(nQueue.count - 1) : Queued(nQueue', k).pkt = NmsGone' + 1 + k
        BY <2>5, <2>6 DEF NmsInv, NmsOrder
      <4>2. Queued(nQueue', nQueue.count).pkt = NmsGone' + 1 + nQueue.count
        BY <1>2, <2>1, <2>6, <2>7 DEF NmsGone
      <4>3. nQueue'.count - 1 = nQueue.count /\ nQueue.count \in Nat
        BY <1>2, <2>5
      <4>4. \A k \in 0..nQueue.count : k \in 0..(nQueue.count - 1) \/ k = nQueue.count
        BY <1>2
      <4>5. QED
        BY <4>1, <4>2, <4>3, <4>4
    <3>2. QED
      BY <1>2, <2>5, <2>6, <3>1 DEF NmsOrder
  <2>12. NmsLeft'
    BY <1>1, <2>6, NmsStay
  <2>13. NmsTids'
    <3>1. \A k \in 0..(nQueue'.count - 2) :
            Queued(nQueue', k + 1).tid = NextTid(Queued(nQueue', k).tid)
      <4>1. ASSUME NEW k \in 0..(nQueue.count - 1)
            PROVE  Queued(nQueue', k + 1).tid = NextTid(Queued(nQueue', k).tid)
        <5>1. CASE k = nQueue.count - 1
          <6>1. nQueue.count > 0 /\ k + 1 = nQueue.count /\ Queued(nQueue', k) = Queued(nQueue, k)
            BY <1>2, <2>5, <5>1
          <6>2. nTid = NextTid(Queued(nQueue, k).tid)
            BY <5>1, <6>1 DEF NmsInv, NmsTids
          <6>3. QED
            BY <2>7, <6>1, <6>2
        <5>2. CASE k # nQueue.count - 1
          <6>1. k \in 0..(nQueue.count - 2) /\ k + 1 \in 0..(nQueue.count - 1)
            BY <1>2, <5>2
          <6>2. Queued(nQueue', k + 1) = Queued(nQueue, k + 1) /\ Queued(nQueue', k) = Queued(nQueue, k)
            BY <2>5, <6>1
          <6>3. QED
            BY <6>1, <6>2 DEF NmsInv, NmsTids
        <5>3. QED
          BY <5>1, <5>2
      <4>2. nQueue'.count - 2 = nQueue.count - 1
        BY <1>2, <2>5
      <4>3. QED
        BY <4>1, <4>2
    <3>2. nTid' = NextTid(Queued(nQueue', nQueue'.count - 1).tid)
      <4>1. nQueue'.count - 1 = nQueue.count
        BY <1>2, <2>5
      <4>2. QED
        BY <2>4, <2>7, <4>1
    <3>3. QED
      BY <3>1, <3>2 DEF NmsTids
  <2>14. NmsTid' = NmsTid
    BY <1>2, <2>5, <2>8, <2>9 DEF NmsTid
  <2>15. NmsHead'
    BY <1>1, <1>2, <2>5, <2>8, <2>9 DEF NmsInv, NmsHead
  <2>16. NmsAcks'
    <3>1. \A a : TrueAck(a)' = TrueAck(a)
      BY <1>1, <2>6, <2>14 DEF TrueAck
    <3>2. nFlag => /\ ~nMidTask /\ TrueAck(nLatch)
                   /\ nQueue'.count > 0 /\ HeadOf(nQueue').waiting /\ ~nLatch.has_sequence
                        => HeadOf(nQueue').pkt - nLatch.msg < TidMod
      <4>1. CASE nQueue.count = 0
        BY <2>8, <4>1 DEF NmsInv, NmsAcks
      <4>2. CASE nQueue.count > 0
        BY <2>9, <4>2 DEF NmsInv, NmsAcks
      <4>3. QED
        BY <1>2, <4>1, <4>2
    <3>3. QED
      BY <1>1, <2>6, <2>14, <3>2 DEF NmsInv, NmsAcks, TrueAck
  <2>17. QED
    BY <1>1, <2>10, <2>11, <2>12, <2>13, <2>15, <2>16 DEF NmsInv, N!ConfirmedWasHeard
<1>5. QED
  BY <1>3, <1>4

\* A step that leaves the queue and the history alone.
LEMMA NmsQuietKeeps ==
  ASSUME NmsInv,
         UNCHANGED <<nQueue, nTid, nHeard, nAccepted, nRefused, nConfirmed, nDropped, nSent,
                     nAttempts>>,
         NmsTypes', NmsAcks'
  PROVE  NmsInv'
<1>1. NmsOrder' /\ NmsTids' /\ NmsGone' = NmsGone /\ NmsHead'
  BY NmsStay
<1>2. NmsLeft'
  BY <1>1, NmsStay
<1>3. N!ConfirmedWasHeard'
  BY DEF NmsInv, N!ConfirmedWasHeard
<1>4. QED
  BY <1>1, <1>2, <1>3 DEF NmsInv

LEMMA NmsHandleAckKeeps ==
  ASSUME NmsInv, NEW a \in nAcks, N!HandleAck(a)
  PROVE  NmsInv'
<1>1. /\ UNCHANGED <<nQueue, nTid, nElapsed, nMidTask, nHeard, nAccepted, nRefused,
                     nConfirmed, nDropped, nSent, nAttempts>>
      /\ nFlag' = TRUE /\ nLatch' = a /\ ~nMidTask
      /\ nAcks' = nAcks \/ nAcks' = nAcks \ {a}
      /\ nQueue.count > 0 /\ ~a.has_sequence => HeadOf(nQueue).pkt - a.msg < TidMod
  BY NmsQueueOps DEF N!HandleAck, N!doneVars
<1>2. a \in N!Acks /\ nAcks' \subseteq nAcks
  BY <1>1 DEF NmsInv, NmsTypes
<1>3. NmsTypes'
  BY <1>1, <1>2 DEF NmsInv, NmsTypes
<1>4. NmsGone' = NmsGone /\ NmsTid' = NmsTid
  BY <1>1, NmsStay
<1>5. NmsAcks'
  BY <1>1, <1>2, <1>4 DEF NmsInv, NmsAcks, TrueAck
<1>6. QED
  BY <1>1, <1>3, <1>5, NmsQuietKeeps

LEMMA NmsLoseAckKeeps ==
  ASSUME NmsInv, NEW a \in nAcks, N!LoseAck(a)
  PROVE  NmsInv'
<1>1. /\ UNCHANGED <<nQueue, nTid, nFlag, nLatch, nElapsed, nMidTask, nHeard, nAccepted,
                     nRefused, nConfirmed, nDropped, nSent, nAttempts>>
      /\ nAcks' \subseteq nAcks
  BY DEF N!LoseAck, N!doneVars
<1>2. NmsTypes'
  BY <1>1 DEF NmsInv, NmsTypes
<1>3. NmsGone' = NmsGone /\ NmsTid' = NmsTid
  BY <1>1, NmsStay
<1>4. NmsAcks'
  BY <1>1, <1>3 DEF NmsInv, NmsAcks, TrueAck
<1>5. QED
  BY <1>1, <1>2, <1>4, NmsQuietKeeps

LEMMA NmsTickKeeps ==
  ASSUME NmsInv, N!Tick \/ UNCHANGED nVars
  PROVE  NmsInv'
<1>1. /\ UNCHANGED <<nQueue, nTid, nFlag, nLatch, nMidTask, nAcks, nHeard, nAccepted,
                     nRefused, nConfirmed, nDropped, nSent, nAttempts>>
      /\ nElapsed' \in 0..AckTimeout
  BY NumberFacts DEF N!Tick, N!doneVars, nVars, NmsInv, NmsTypes
<1>2. NmsTypes'
  BY <1>1 DEF NmsInv, NmsTypes
<1>3. NmsGone' = NmsGone /\ NmsTid' = NmsTid
  BY <1>1, NmsStay
<1>4. NmsAcks'
  BY <1>1, <1>3 DEF NmsInv, NmsAcks, TrueAck
<1>5. QED
  BY <1>1, <1>2, <1>4, NmsQuietKeeps

\* An answer in the latch is one to the message that waits: the gateway has
\* heard it.
LEMMA NmsAnswerIsTrue ==
  ASSUME NmsInv, N!Confirms
  PROVE  /\ nQueue.count > 0 /\ HeadOf(nQueue).waiting = TRUE
         /\ HeadOf(nQueue).pkt \in nHeard
<1>1. /\ nFlag /\ nQueue.count > 0 /\ HeadOf(nQueue).waiting /\ nLatch.status = N!OK
      /\ HeadOf(nQueue).tid = nLatch.tid
      /\ nLatch.has_sequence => HeadOf(nQueue).pkt = nLatch.msg
  BY NmsQueueOps DEF N!Confirms, N!IsAnswer
<1>2. /\ TrueAck(nLatch)
      /\ ~nLatch.has_sequence => HeadOf(nQueue).pkt - nLatch.msg < TidMod
  BY <1>1 DEF NmsInv, NmsAcks
<1>3. /\ HeadOf(nQueue) \in TransactionsOf({"nms"}) /\ HeadOf(nQueue).pkt = NmsGone + 1
      /\ HeadOf(nQueue).tid = NmsTid /\ NmsGone \in Nat
  BY <1>1, NmsHeadFacts
<1>4. /\ nLatch.msg \in Nat /\ nLatch.tid \in Nat /\ nLatch.tid < TidMod /\ TidMod \in Nat
      /\ nLatch.has_sequence \in BOOLEAN
  BY NumberFacts DEF NmsInv, NmsTypes, N!Acks
<1>5. HeadOf(nQueue).pkt = nLatch.msg
  <2>1. CASE nLatch.has_sequence
    BY <1>1, <2>1
  <2>2. CASE ~nLatch.has_sequence
    <3>1. /\ NmsGone + 1 - nLatch.msg < TidMod /\ nLatch.msg <= NmsGone + 1
          /\ NmsTid = Wrap(nLatch.tid + (NmsGone + 1 - nLatch.msg))
      <4>1. HeadOf(nQueue).pkt - nLatch.msg < TidMod
        BY <1>2, <2>2, Zenon
      <4>2. NmsGone + 1 - nLatch.msg < TidMod
        <5> DEFINE p == HeadOf(nQueue).pkt
        <5>1. p = NmsGone + 1
          BY <1>3
        <5>2. p - nLatch.msg < TidMod
          BY <4>1
        <5> HIDE DEF p
        <5>3. QED
          BY <1>3, <1>4, <5>1, <5>2
      <4>3. QED
        BY <1>2, <4>2, Zenon DEF TrueAck
    <3>2. NmsTid = nLatch.tid
      BY <1>1, <1>3
    <3>3. NmsGone + 1 = nLatch.msg
      BY <1>3, <1>4, <3>1, <3>2 DEF Wrap
    <3>4. QED
      BY <1>3, <3>3
  <2>3. QED
    BY <2>1, <2>2
<1>6. nLatch.msg \in nHeard
  BY <1>1, <1>2 DEF TrueAck, N!OK, OK
<1>7. HeadOf(nQueue).waiting = TRUE
  BY <1>1, <1>3 DEF TransactionsOf
<1>8. QED
  BY <1>1, <1>5, <1>6, <1>7

\* The four outcomes of nms_ack_process: no more than one of the answer in
\* the latch and the timeout has an effect.
LEMMA NmsAckOutcomes ==
  ASSUME NmsInv, N!AckProcess
  PROVE  LET t == HeadOf(nQueue)
         IN \/ N!Confirms /\ nQueue' = Pop(nQueue)
            \/ ~N!Confirms /\ nQueue' = nQueue
            \/ /\ ~N!Confirms /\ nQueue.count > 0 /\ t.waiting = TRUE
               /\ \/ t.retry_count < MaxRetries /\ nQueue' = SetHead(nQueue, Repeated(t))
                  \/ ~(t.retry_count < MaxRetries) /\ nQueue' = Pop(nQueue)
<1> DEFINE t == HeadOf(nQueue)
           left == N!AfterAck(nQueue)
<1>1. nQueue' = N!AfterTimeout(left)
  BY DEF N!AckProcess
<1>2. /\ nQueue \in QueuesOf({"nms"}) /\ WellFormed(nQueue) /\ nQueue.count \in 0..QueueSize
      /\ nQueue.count > 0 => t \in TransactionsOf({"nms"}) /\ t.active = TRUE
  BY NmsHeadFacts
<1>3. \A q : N!RetryOrFinish(q) =
               IF HeadOf(q).retry_count < MaxRetries THEN SetHead(q, Repeated(HeadOf(q))) ELSE Pop(q)
  BY NmsQueueOps DEF N!RetryOrFinish, N!Retried
<1>4. \A q : N!AfterTimeout(q) =
               IF q.count > 0 /\ HeadOf(q).waiting /\ nElapsed >= AckTimeout
               THEN N!RetryOrFinish(q) ELSE q
  BY NmsQueueOps DEF N!AfterTimeout, N!TimedOut
<1>5. N!IsAnswer(nQueue) => nQueue.count > 0 /\ t.waiting = TRUE
  <2>1. N!IsAnswer(nQueue) => nQueue.count > 0 /\ t.waiting
    BY NmsQueueOps, Zenon DEF N!IsAnswer
  <2>2. nQueue.count > 0 => t.waiting \in BOOLEAN
    BY <1>2 DEF TransactionsOf
  <2>3. QED
    BY <2>1, <2>2
<1>6. nQueue.count > 0 /\ Pop(nQueue).count > 0 => HeadOf(Pop(nQueue)).waiting = FALSE
  <2>1. ASSUME nQueue.count > 0, Pop(nQueue).count > 0
        PROVE  HeadOf(Pop(nQueue)).waiting = FALSE
    <3>1. Pop(nQueue).count = nQueue.count - 1
      BY <1>2, <2>1, PopFacts
    <3>2. nQueue.count > 1 /\ QueueSize \in Nat
      BY <1>2, <2>1, <3>1, NumberFacts
    <3>3. HeadOf(Pop(nQueue)) = Started(Queued(nQueue, 1))
      BY <1>2, <2>1, <3>2, PopFacts
    <3>4. Queued(nQueue, 1) \in TransactionsOf({"nms"})
      BY <1>2, <3>2, SlotFacts DEF Queued, QueuesOf
    <3>5. QED
      BY <3>3, <3>4, StartedFacts
  <2>2. QED
    BY <2>1
<1>7. nQueue.count > 0 /\ t.retry_count < MaxRetries =>
        HeadOf(SetHead(nQueue, Repeated(t))).waiting = FALSE
  <2>1. ASSUME nQueue.count > 0, t.retry_count < MaxRetries
        PROVE  HeadOf(SetHead(nQueue, Repeated(t))).waiting = FALSE
    <3>1. /\ Repeated(t) \in TransactionsOf({"nms"}) /\ Repeated(t).waiting = FALSE
          /\ Repeated(t).active = TRUE
      BY <1>2, <2>1, RepeatedFacts
    <3> HIDE DEF t
    <3>2. HeadOf(SetHead(nQueue, Repeated(t))) = Repeated(t)
      BY <1>2, <2>1, <3>1, SetHeadFacts
    <3>3. QED
      BY <3>1, <3>2
  <2>2. QED
    BY <2>1
<1>8. CASE N!Confirms
  <2>1. left = Pop(nQueue)
    BY <1>8, NmsQueueOps DEF N!AfterAck, N!Confirms
  <2>2. nQueue.count > 0
    BY <1>5, <1>8 DEF N!Confirms
  <2>3. ~(Pop(nQueue).count > 0 /\ HeadOf(Pop(nQueue)).waiting)
    BY <1>6, <2>2
  <2> HIDE DEF left
  <2>4. nQueue' = Pop(nQueue)
    BY <1>1, <1>4, <2>1, <2>3, Zenon
  <2>5. QED
    BY <1>8, <2>4
<1>9. CASE ~N!Confirms /\ nFlag /\ N!IsAnswer(nQueue)
  <2>1. left = N!RetryOrFinish(nQueue)
    BY <1>9 DEF N!AfterAck, N!Confirms
  <2>2. nQueue.count > 0 /\ t.waiting = TRUE
    BY <1>5, <1>9
  <2> HIDE DEF left, t
  <2>3. CASE t.retry_count < MaxRetries
    <3>1. left = SetHead(nQueue, Repeated(t))
      BY <1>3, <2>1, <2>3, Zenon DEF t
    <3>2. ~HeadOf(left).waiting
      BY <1>7, <2>2, <2>3, <3>1
    <3>3. nQueue' = SetHead(nQueue, Repeated(t))
      BY <1>1, <1>4, <3>1, <3>2, Zenon
    <3>4. QED
      BY <1>9, <2>2, <2>3, <3>3, Zenon DEF t
  <2>4. CASE ~(t.retry_count < MaxRetries)
    <3>1. left = Pop(nQueue)
      BY <1>3, <2>1, <2>4, Zenon DEF t
    <3>2. ~(left.count > 0 /\ HeadOf(left).waiting)
      BY <1>6, <2>2, <3>1
    <3>3. nQueue' = Pop(nQueue)
      BY <1>1, <1>4, <3>1, <3>2, Zenon
    <3>4. QED
      BY <1>9, <2>2, <2>4, <3>3, Zenon DEF t
  <2>5. QED
    BY <2>3, <2>4
<1>10. CASE ~(nFlag /\ N!IsAnswer(nQueue))
  <2>1. left = nQueue /\ ~N!Confirms
    BY <1>10 DEF N!AfterAck, N!Confirms
  <2>2. nQueue.count > 0 => t.waiting \in BOOLEAN
    BY <1>2 DEF TransactionsOf
  <2> HIDE DEF left, t
  <2>3. CASE nQueue.count > 0 /\ t.waiting /\ nElapsed >= AckTimeout
    <3>1. nQueue' = N!RetryOrFinish(nQueue)
      BY <1>1, <1>4, <2>1, <2>3, Zenon DEF t
    <3>2. t.waiting = TRUE
      BY <2>2, <2>3
    <3>3. QED
      BY <1>3, <2>1, <2>3, <3>1, <3>2, Zenon DEF t
  <2>4. CASE ~(nQueue.count > 0 /\ t.waiting /\ nElapsed >= AckTimeout)
    <3>1. nQueue' = nQueue
      BY <1>1, <1>4, <2>1, <2>4, Zenon DEF t
    <3>2. QED
      BY <2>1, <3>1, Zenon
  <2>5. QED
    BY <2>3, <2>4
<1>11. QED
  BY <1>8, <1>9, <1>10, Zenon DEF N!Confirms

\* Every outcome of nms_ack_process keeps the invariant; a message is dropped
\* after its last retry.
LEMMA NmsAckProcessKeeps ==
  ASSUME NmsInv, N!AckProcess
  PROVE  NmsInv' /\ (nDropped' # nDropped => nAttempts = MaxRetries + 1)
<1> DEFINE t == HeadOf(nQueue)
<1>1. /\ UNCHANGED <<nTid, nLatch, nElapsed, nAcks, nHeard, nAccepted, nRefused, nSent>>
      /\ nMidTask' = TRUE /\ nFlag' = FALSE
      /\ nConfirmed' = (IF N!Confirms THEN nConfirmed \cup {t.pkt} ELSE nConfirmed)
      /\ nDropped' = (IF ~N!Confirms /\ nQueue'.count < nQueue.count
                      THEN nDropped \cup {t.pkt} ELSE nDropped)
      /\ nAttempts' = (IF nQueue'.count < nQueue.count THEN 0 ELSE nAttempts)
  BY NmsQueueOps DEF N!AckProcess
<1>2. /\ nQueue.count \in 0..QueueSize /\ nQueue.count \in Nat
      /\ NmsGone \in Nat /\ NmsTid \in 0..(TidMod - 1)
      /\ nQueue.count > 0 => /\ t \in TransactionsOf({"nms"}) /\ t.active = TRUE
                             /\ t.pkt = NmsGone + 1
  <2>1. nQueue.count \in 0..QueueSize
    BY NmsHeadFacts
  <2>2. nQueue.count \in Nat
    BY <2>1, NumberFacts
  <2>3. QED
    BY <2>2, NmsHeadFacts
<1>3. ASSUME nQueue' \in QueuesOf({"nms"})
      PROVE  NmsTypes'
  <2>1. nAttempts' \in Nat
    BY <1>1 DEF NmsInv, NmsTypes
  <2>2. QED
    BY <1>1, <1>3, <2>1 DEF NmsInv, NmsTypes
<1>4. ASSUME \/ NmsGone' = NmsGone /\ NmsTid' = NmsTid
             \/ NmsGone' = NmsGone + 1 /\ NmsTid' = NextTid(NmsTid)
      PROVE  NmsAcks'
  <2>1. \A a \in nAcks : a \in N!Acks /\ TrueAck(a)
    BY DEF NmsInv, NmsTypes, NmsAcks
  <2>2. nHeard \subseteq nHeard' /\ nAcks' = nAcks /\ ~nFlag'
    BY <1>1
  <2>3. \A a \in nAcks : TrueAck(a)'
    BY <1>2, <1>4, <2>1, <2>2, TrueAckKept
  <2>4. QED
    BY <2>2, <2>3 DEF NmsAcks
<1>5. CASE /\ nQueue.count > 0 /\ t.waiting = TRUE /\ nQueue' = Pop(nQueue)
           /\ N!Confirms \/ ~(t.retry_count < MaxRetries)
  <2>1. /\ nQueue' \in QueuesOf({"nms"}) /\ NmsOrder' /\ NmsTids'
        /\ NmsGone' = NmsGone + 1 /\ NmsTid' = NextTid(NmsTid)
        /\ nQueue'.count = nQueue.count - 1
        /\ nQueue'.count > 0 =>
             HeadOf(nQueue').waiting = FALSE /\ HeadOf(nQueue').retry_count = 0
    BY <1>1, <1>5, NmsPop
  <2>2. NmsTypes' /\ NmsAcks'
    BY <1>3, <1>4, <2>1
  <2>3. nQueue'.count < nQueue.count
    BY <1>2, <2>1
  <2>4. /\ nAttempts' = 0
        /\ N!Confirms => nConfirmed' = nConfirmed \cup {NmsGone + 1} /\ nDropped' = nDropped
        /\ ~N!Confirms => nDropped' = nDropped \cup {NmsGone + 1} /\ nConfirmed' = nConfirmed
    BY <1>1, <1>2, <1>5, <2>3
  <2>5. NmsGone + 1 \in AckRequired
    BY <1>2, <1>5 DEF NmsInv, NmsHead
  <2>6. NmsLeft'
    BY <1>1, <2>1, <2>4, <2>5, NmsLeaves
  <2>7. NmsHead'
    BY <2>1, <2>4 DEF NmsHead
  <2>8. N!ConfirmedWasHeard'
    <3>1. N!Confirms => NmsGone + 1 \in nHeard
      BY <1>2, <1>5, NmsAnswerIsTrue
    <3>2. QED
      BY <1>1, <2>4, <3>1 DEF NmsInv, N!ConfirmedWasHeard
  <2>9. nDropped' # nDropped => nAttempts = MaxRetries + 1
    <3>1. SUFFICES ASSUME ~N!Confirms PROVE nAttempts = MaxRetries + 1
      BY <2>4
    <3>2. t.retry_count = MaxRetries
      BY <1>2, <1>5, <3>1, NumberFacts DEF TransactionsOf
    <3>3. nAttempts = t.retry_count + 1
      BY <1>5 DEF NmsInv, NmsHead
    <3>4. QED
      BY <3>2, <3>3
  <2>10. QED
    BY <2>1, <2>2, <2>6, <2>7, <2>8, <2>9 DEF NmsInv
<1>6. CASE /\ ~N!Confirms /\ nQueue.count > 0 /\ t.waiting = TRUE
           /\ t.retry_count < MaxRetries /\ nQueue' = SetHead(nQueue, Repeated(t))
  <2>1. /\ Repeated(t) \in TransactionsOf({"nms"}) /\ Repeated(t).active = TRUE
        /\ Repeated(t).pkt = t.pkt /\ Repeated(t).tid = t.tid
        /\ Repeated(t).waiting = FALSE /\ Repeated(t).retry_count = t.retry_count + 1
    BY <1>2, <1>6, RepeatedFacts
  <2>2. /\ nQueue' \in QueuesOf({"nms"}) /\ NmsOrder' /\ NmsTids'
        /\ NmsGone' = NmsGone /\ NmsTid' = NmsTid
        /\ nQueue'.count = nQueue.count /\ HeadOf(nQueue') = Repeated(t)
    BY <1>1, <1>6, <2>1, NmsSetHead
  <2>3. NmsTypes' /\ NmsAcks'
    BY <1>3, <1>4, <2>2
  <2>4. UNCHANGED <<nConfirmed, nDropped, nAttempts>>
    BY <1>1, <1>2, <1>6, <2>2
  <2>5. NmsLeft'
    BY <1>1, <2>2, <2>4, NmsStay
  <2>6. NmsHead'
    <3>1. nAttempts = t.retry_count + 1
      BY <1>6 DEF NmsInv, NmsHead
    <3>2. QED
      BY <1>2, <1>6, <2>1, <2>2, <2>4, <3>1 DEF NmsHead
  <2>7. QED
    BY <1>1, <2>2, <2>3, <2>4, <2>5, <2>6 DEF NmsInv, N!ConfirmedWasHeard
<1>7. CASE ~N!Confirms /\ nQueue' = nQueue
  <2>1. UNCHANGED <<nConfirmed, nDropped, nAttempts>>
    BY <1>1, <1>2, <1>7
  <2>2. NmsGone' = NmsGone /\ NmsTid' = NmsTid
    BY <1>1, <1>7, NmsStay
  <2>3. NmsTypes' /\ NmsAcks'
    BY <1>3, <1>4, <1>7, <2>2 DEF NmsInv, NmsTypes
  <2>4. QED
    BY <1>1, <1>7, <2>1, <2>3, NmsQuietKeeps
<1>8. QED
  BY <1>5, <1>6, <1>7, NmsAckOutcomes, NmsAnswerIsTrue

\* A fragment that a bus accepts: the next one is due, or the message waits
\* for its ACK or leaves.
LEMMA NmsTxProcessKeeps ==
  ASSUME NmsInv, NEW took \in BOOLEAN, N!TxProcess(took)
  PROVE  NmsInv' /\ nDropped' = nDropped
<1> DEFINE t == HeadOf(nQueue)
           final == t.seq_index + 1 >= t.total
<1>1. /\ nMidTask /\ nMidTask' = FALSE
      /\ UNCHANGED <<nTid, nFlag, nLatch, nAccepted, nRefused, nConfirmed, nDropped>>
  BY DEF N!TxProcess
<1>2. /\ nQueue.count \in 0..QueueSize /\ nQueue.count \in Nat
      /\ NmsGone \in Nat /\ NmsTid \in 0..(TidMod - 1)
      /\ nQueue.count > 0 => /\ t \in TransactionsOf({"nms"}) /\ t.active = TRUE
                             /\ t.pkt = NmsGone + 1 /\ t.pkt \in Packets /\ t.tid = NmsTid
  <2>1. nQueue.count \in 0..QueueSize
    BY NmsHeadFacts
  <2>2. nQueue.count \in Nat
    BY <2>1, NumberFacts
  <2>3. QED
    BY <2>2, NmsHeadFacts
<1>3. nFlag = FALSE /\ nFlag' = FALSE
  BY <1>1 DEF NmsInv, NmsTypes, NmsAcks
<1>4. CASE ~(N!Sending /\ took)
  <2>1. UNCHANGED <<nQueue, nElapsed, nSent, nAttempts, nAcks, nHeard>>
    BY <1>4 DEF N!TxProcess
  <2>2. NmsTypes'
    BY <1>1, <2>1 DEF NmsInv, NmsTypes
  <2>3. NmsGone' = NmsGone /\ NmsTid' = NmsTid
    BY <1>1, <2>1, NmsStay
  <2>4. NmsAcks'
    BY <1>1, <1>3, <2>1, <2>3 DEF NmsInv, NmsAcks, TrueAck
  <2>5. QED
    BY <1>1, <2>1, <2>2, <2>4, NmsQuietKeeps
<1>5. CASE N!Sending /\ took
  <2>1. nQueue.count > 0 /\ t.waiting = FALSE
    <3>1. nQueue.count > 0 /\ ~t.waiting
      BY <1>5, NmsQueueOps, Zenon DEF N!Sending
    <3>2. QED
      BY <1>2, <3>1 DEF TransactionsOf
  <2>2. /\ nQueue' = N!AfterFragment(nQueue)
        /\ nElapsed' = (IF final THEN 0 ELSE nElapsed)
        /\ nSent' = (IF nQueue'.count < nQueue.count THEN nSent \cup {t.pkt} ELSE nSent)
        /\ nAttempts' = (IF nQueue'.count < nQueue.count THEN 0
                         ELSE IF final THEN nAttempts + 1 ELSE nAttempts)
        /\ IF final THEN N!GatewayAnswers(t) ELSE UNCHANGED <<nAcks, nHeard>>
    BY <1>5, NmsQueueOps DEF N!TxProcess, N!SendFragment
  <2>3. /\ ~final => nQueue' = SetHead(nQueue, [t EXCEPT !.seq_index = @ + 1])
        /\ final /\ t.pkt \in AckRequired =>
             nQueue' = SetHead(nQueue, [t EXCEPT !.seq_index = 0, !.waiting = TRUE])
        /\ final /\ t.pkt \notin AckRequired => nQueue' = Pop(nQueue)
    <3>1. t.seq_index \in Nat /\ t.total \in Nat
      BY <1>2, <2>1 DEF TransactionsOf
    <3>2. ~final <=> t.seq_index + 1 < t.total
      BY <3>1
    <3>3. QED
      BY <2>2, <3>2, NmsQueueOps DEF N!AfterFragment, N!WantsAck
  <2>4. /\ nAcks \subseteq nAcks' /\ nHeard \subseteq nHeard'
        /\ nHeard' \subseteq nHeard \cup {t.pkt}
        /\ \A a \in nAcks' : \/ a \in nAcks
                             \/ /\ a \in N!Acks /\ a.msg = t.pkt /\ a.tid = t.tid
                                /\ a.status = OK => t.pkt \in nHeard'
                                /\ t.pkt \in AckRequired
    <3>1. t.pkt \in 0..MaxPackets /\ t.tid \in 0..(TidMod - 1)
      BY <1>2, <2>1 DEF TransactionsOf
    <3>2. CASE UNCHANGED <<nAcks, nHeard>>
      BY <3>2
    <3>3. CASE N!GatewayAnswers(t) /\ ~(UNCHANGED <<nAcks, nHeard>>)
      <4>1. /\ t.pkt \in AckRequired
            /\ \E a \in [msg : {t.pkt}, tid : {t.tid}, status : {N!OK, N!NOK},
                         has_sequence : BOOLEAN] :
                 /\ nAcks' = nAcks \cup {a}
                 /\ nHeard' = IF a.status = N!OK THEN nHeard \cup {t.pkt} ELSE nHeard
        BY <3>3 DEF N!GatewayAnswers, N!WantsAck
      <4>2. PICK a \in [msg : {t.pkt}, tid : {t.tid}, status : {N!OK, N!NOK},
                        has_sequence : BOOLEAN] :
               /\ nAcks' = nAcks \cup {a}
               /\ nHeard' = IF a.status = N!OK THEN nHeard \cup {t.pkt} ELSE nHeard
        BY <4>1
      <4>3. a \in N!Acks /\ a.msg = t.pkt /\ a.tid = t.tid
        BY <3>1 DEF N!Acks
      <4>4. a.status = OK => t.pkt \in nHeard'
        BY <4>2 DEF OK, N!OK
      <4>5. nHeard \subseteq nHeard' /\ nHeard' \subseteq nHeard \cup {t.pkt}
        BY <4>2
      <4>6. QED
        BY <4>1, <4>2, <4>3, <4>4, <4>5
    <3>4. QED
      BY <2>2, <3>2, <3>3
  <2>5. ASSUME nQueue' \in QueuesOf({"nms"})
        PROVE  NmsTypes'
    <3>1. nElapsed' \in 0..AckTimeout /\ nAttempts' \in Nat
      BY <2>2, NumberFacts DEF NmsInv, NmsTypes
    <3>2. nAcks' \subseteq N!Acks /\ nHeard' \subseteq Packets
      BY <1>2, <2>1, <2>4 DEF NmsInv, NmsTypes
    <3>3. QED
      BY <1>1, <2>5, <3>1, <3>2 DEF NmsInv, NmsTypes
  <2>6. \A a \in nAcks : a \in N!Acks /\ TrueAck(a)
    BY DEF NmsInv, NmsTypes, NmsAcks
  <2>7. CASE ~(final /\ t.pkt \notin AckRequired)
    <3> DEFINE new == IF final THEN [t EXCEPT !.seq_index = 0, !.waiting = TRUE]
                               ELSE [t EXCEPT !.seq_index = @ + 1]
    <3>1. nQueue' = SetHead(nQueue, new)
      BY <2>3, <2>7
    <3>2. /\ new \in TransactionsOf({"nms"}) /\ new.active = TRUE
          /\ new.pkt = t.pkt /\ new.tid = t.tid /\ new.retry_count = t.retry_count
          /\ (final => new.waiting = TRUE) /\ (~final => new.waiting = FALSE)
      <4>1. t.retry_count \in 0..MaxRetries /\ t.waiting \in BOOLEAN
            /\ t.seq_index \in Nat
        BY <1>2, <2>1 DEF TransactionsOf
      <4>2. CASE final
        BY <1>2, <2>1, <4>1, <4>2 DEF TransactionsOf
      <4>3. CASE ~final
        BY <1>2, <2>1, <4>1, <4>3 DEF TransactionsOf
      <4>4. QED
        BY <4>2, <4>3
    <3> HIDE DEF new
    <3>3. /\ nQueue' \in QueuesOf({"nms"}) /\ NmsOrder' /\ NmsTids'
          /\ NmsGone' = NmsGone /\ NmsTid' = NmsTid
          /\ nQueue'.count = nQueue.count /\ HeadOf(nQueue') = new
      BY <1>1, <2>1, <3>1, <3>2, NmsSetHead
    <3>4. /\ nSent' = nSent
          /\ nAttempts' = (IF final THEN nAttempts + 1 ELSE nAttempts)
      BY <1>2, <2>2, <3>3
    <3>5. NmsTypes'
      BY <2>5, <3>3
    <3>6. NmsAcks'
      <4>1. \A a \in nAcks : TrueAck(a)'
        BY <1>2, <2>4, <2>6, <3>3, TrueAckKept
      <4>2. ASSUME NEW a \in nAcks', a \notin nAcks
            PROVE  TrueAck(a)'
        <5>1. /\ a \in N!Acks /\ a.msg = NmsGone' + 1 /\ a.tid = NmsTid'
              /\ a.status = OK => a.msg \in nHeard'
          BY <1>2, <2>1, <2>4, <3>3, <4>2
        <5>2. NmsTid' = Wrap(a.tid + (NmsGone' + 1 - a.msg))
          BY <1>2, <3>3, <5>1, NumberFacts DEF Wrap
        <5>3. a.msg <= NmsGone' + 1
          BY <1>2, <3>3, <5>1
        <5>4. QED
          BY <5>1, <5>2, <5>3 DEF TrueAck
      <4>3. QED
        BY <1>3, <4>1, <4>2 DEF NmsAcks
    <3>7. NmsLeft'
      BY <1>1, <3>3, <3>4, NmsStay
    <3>8. NmsHead'
      <4>1. nAttempts = t.retry_count
        BY <1>2, <2>1 DEF NmsInv, NmsHead, TransactionsOf
      <4>2. final => t.pkt \in AckRequired
        BY <2>7
      <4>3. CASE final
        <5>1. new.waiting = TRUE
          BY <3>2, <4>3
        <5>2. QED
          BY <2>1, <3>2, <3>3, <3>4, <4>1, <4>2, <4>3, <5>1 DEF NmsHead
      <4>4. CASE ~final
        <5>1. new.waiting = FALSE
          BY <3>2, <4>4
        <5>2. nAttempts' = t.retry_count + 0
          BY <1>2, <2>1, <3>4, <4>1, <4>4 DEF TransactionsOf
        <5>3. QED
          BY <2>1, <3>2, <3>3, <5>1, <5>2 DEF NmsHead
      <4>5. QED
        BY <4>3, <4>4
    <3>9. QED
      BY <1>1, <2>4, <3>3, <3>5, <3>6, <3>7, <3>8 DEF NmsInv, N!ConfirmedWasHeard
  <2>8. CASE final /\ t.pkt \notin AckRequired
    <3>1. nQueue' = Pop(nQueue)
      BY <2>3, <2>8
    <3>2. /\ nQueue' \in QueuesOf({"nms"}) /\ NmsOrder' /\ NmsTids'
          /\ NmsGone' = NmsGone + 1 /\ NmsTid' = NextTid(NmsTid)
          /\ nQueue'.count = nQueue.count - 1
          /\ nQueue'.count > 0 =>
               HeadOf(nQueue').waiting = FALSE /\ HeadOf(nQueue').retry_count = 0
      BY <1>1, <2>1, <3>1, NmsPop
    <3>3. nSent' = nSent \cup {NmsGone + 1} /\ nAttempts' = 0
      <4>1. nQueue'.count < nQueue.count
        BY <1>2, <3>2
      <4>2. QED
        BY <1>2, <2>1, <2>2, <4>1
    <3>4. NmsTypes'
      BY <2>5, <3>2
    <3>5. NmsAcks'
      <4>1. \A a \in nAcks : TrueAck(a)'
        BY <1>2, <2>4, <2>6, <3>2, TrueAckKept
      <4>2. nAcks' \subseteq nAcks
        BY <2>4, <2>8
      <4>3. QED
        BY <1>3, <4>1, <4>2 DEF NmsAcks
    <3>6. NmsGone + 1 \notin AckRequired
      BY <1>2, <2>1, <2>8
    <3>7. NmsLeft'
      BY <1>1, <3>2, <3>3, <3>6, NmsLeaves
    <3>8. NmsHead'
      BY <3>2, <3>3 DEF NmsHead
    <3>9. QED
      BY <1>1, <2>4, <3>2, <3>4, <3>5, <3>7, <3>8 DEF NmsInv, N!ConfirmedWasHeard
  <2>9. QED
    BY <2>7, <2>8
<1>6. QED
  BY <1>4, <1>5

\* What NmsInv says of a step's end state bounds the transmissions.
LEMMA NmsAttemptsBounded ==
  ASSUME NmsInv'
  PROVE  nAttempts' <= MaxRetries + 1
<1>1. CASE nQueue'.count > 0
  <2>1. HeadOf(nQueue').retry_count \in 0..MaxRetries
    BY DEF NmsInv, NmsTypes, QueuesOf, TransactionsOf, HeadOf
  <2>2. nAttempts' = HeadOf(nQueue').retry_count + (IF HeadOf(nQueue').waiting THEN 1 ELSE 0)
    BY <1>1 DEF NmsInv, NmsHead
  <2>3. QED
    BY <2>1, <2>2, NumberFacts
<1>2. CASE ~(nQueue'.count > 0)
  <2>1. nQueue'.count = 0
    BY <1>2, NumberFacts DEF NmsInv, NmsTypes, QueuesOf
  <2>2. nAttempts' = 0
    BY <2>1 DEF NmsInv, NmsHead
  <2>3. QED
    BY <2>2, NumberFacts
<1>3. QED
  BY <1>1, <1>2

LEMMA NmsNextKeeps ==
  ASSUME NmsInv, N!Next \/ UNCHANGED nVars
  PROVE  NmsInv' /\ N!CountsRetries
<1>1. NmsInv' /\ (nDropped' # nDropped => nAttempts = MaxRetries + 1)
  <2>1. CASE N!Send
    BY <2>1, NmsSendKeeps DEF N!Send, N!doneVars
  <2>2. ASSUME NEW a \in nAcks, N!HandleAck(a) \/ N!LoseAck(a)
        PROVE  NmsInv' /\ nDropped' = nDropped
    BY <2>2, NmsHandleAckKeeps, NmsLoseAckKeeps DEF N!HandleAck, N!LoseAck, N!doneVars
  <2>3. CASE N!AckProcess
    BY <2>3, NmsAckProcessKeeps
  <2>4. CASE \E took \in BOOLEAN : N!TxProcess(took)
    BY <2>4, NmsTxProcessKeeps
  <2>5. CASE N!Tick \/ UNCHANGED nVars
    BY <2>5, NmsTickKeeps DEF N!Tick, N!doneVars, nVars
  <2>6. QED
    BY <2>1, <2>2, <2>3, <2>4, <2>5 DEF N!Next
<1>2. nAttempts' <= MaxRetries + 1
  BY <1>1, NmsAttemptsBounded
<1>3. QED
  BY <1>1, <1>2 DEF N!CountsRetries

-----------------------------------------------------------------------------
(* Packet numbers in the queue, for SMOCIP and the radios *)

LEMMA PushedPackets ==
  ASSUME NEW types, NEW q \in QueuesOf(types), WellFormed(q), q.count < QueueSize,
         NEW t \in TransactionsOf(types), t.active = FALSE
  PROVE  /\ \A k \in 0..(q.count - 1) : Queued(Push(q, t), k).pkt = Queued(q, k).pkt
         /\ Queued(Push(q, t), q.count).pkt = t.pkt
  BY PushFacts, PushedTail

\* A transaction that is queued starts the queue, or waits behind its head.
LEMMA PushedState ==
  ASSUME NEW types, NEW q \in QueuesOf(types), WellFormed(q), q.count < QueueSize,
         NEW t \in TransactionsOf(types)
  PROVE  /\ q.count > 0 => HeadOf(Push(q, t)) = HeadOf(q)
         /\ q.count = 0 => /\ HeadOf(Push(q, t)).waiting = t.waiting
                           /\ HeadOf(Push(q, t)).retry_count = t.retry_count
                           /\ HeadOf(Push(q, t)).seq_index = t.seq_index
<1>1. /\ q.count > 0 => HeadOf(Push(q, t)) = HeadOf(q)
      /\ ~(q.count > 0) => HeadOf(Push(q, t)) = [t EXCEPT !.active = (q.count = 0)]
  BY PushedHead
<1>2. \A active : /\ [t EXCEPT !.active = active].waiting = t.waiting
                  /\ [t EXCEPT !.active = active].retry_count = t.retry_count
                  /\ [t EXCEPT !.active = active].seq_index = t.seq_index
  BY DEF TransactionsOf
<1>3. q.count = 0 => ~(q.count > 0)
  OBVIOUS
<1>4. QED
  BY <1>1, <1>2, <1>3, Zenon

LEMMA PoppedPackets ==
  ASSUME NEW types, NEW q \in QueuesOf(types), WellFormed(q), q.count > 0
  PROVE  /\ \A k \in 0..(q.count - 2) : Queued(Pop(q), k).pkt = Queued(q, k + 1).pkt
         /\ q.count > 1 => /\ HeadOf(Pop(q)).waiting = FALSE
                           /\ HeadOf(Pop(q)).retry_count = 0
                           /\ HeadOf(Pop(q)).seq_index = 0
<1>1. q.count \in Nat /\ \A k \in 0..(q.count - 1) : Queued(q, k) \in TransactionsOf(types)
  BY SlotFacts, NumberFacts DEF Queued, QueuesOf
<1>2. /\ q.count > 1 => /\ HeadOf(Pop(q)) = Started(Queued(q, 1))
                        /\ Queued(Pop(q), 0) = Started(Queued(q, 1))
      /\ \A k \in 1..(q.count - 2) : Queued(Pop(q), k) = Queued(q, k + 1)
  BY PopFacts
<1>3. q.count > 1 => Queued(q, 1) \in TransactionsOf(types)
  BY <1>1
<1>4. q.count > 1 => /\ HeadOf(Pop(q)).waiting = FALSE
                     /\ HeadOf(Pop(q)).retry_count = 0
                     /\ HeadOf(Pop(q)).seq_index = 0
                     /\ Queued(Pop(q), 0).pkt = Queued(q, 1).pkt
  <2>1. ASSUME q.count > 1
        PROVE  LET u == Started(Queued(q, 1))
               IN u.waiting = FALSE /\ u.retry_count = 0 /\ u.seq_index = 0
                  /\ u.pkt = Queued(q, 1).pkt
    BY <1>3, <2>1, StartedFacts
  <2>2. QED
    BY <1>2, <2>1
<1>5. QED
  BY <1>1, <1>2, <1>4

LEMMA ReplacedPackets ==
  ASSUME NEW types, NEW q \in QueuesOf(types), WellFormed(q), q.count > 0,
         NEW t \in TransactionsOf(types), t.active = TRUE, t.pkt = HeadOf(q).pkt
  PROVE  \A k \in 0..(q.count - 1) : Queued(SetHead(q, t), k).pkt = Queued(q, k).pkt
<1>1. q.count \in Nat
  BY NumberFacts DEF QueuesOf
<1>2. /\ SetHead(q, t) \in QueuesOf(types) /\ HeadOf(SetHead(q, t)) = t
      /\ \A k \in 1..(q.count - 1) : Queued(SetHead(q, t), k) = Queued(q, k)
  BY SetHeadFacts
<1>3. Queued(SetHead(q, t), 0) = t /\ Queued(q, 0) = HeadOf(q)
  BY <1>2, HeadIsQueued
<1>4. QED
  BY <1>1, <1>2, <1>3

\* The head of a queue that is not empty.
LEMMA HeadFacts ==
  ASSUME NEW types, NEW q \in QueuesOf(types), WellFormed(q), q.count > 0
  PROVE  /\ HeadOf(q) \in TransactionsOf(types) /\ HeadOf(q).active = TRUE
         /\ HeadOf(q) = Queued(q, 0) /\ q.count \in Nat
<1>1. q.slot \in [Slots -> TransactionsOf(types)] /\ q.head \in Slots /\ q.count \in Nat
  BY NumberFacts DEF QueuesOf
<1>2. q.slot[q.head].active
  BY <1>1, Zenon DEF WellFormed
<1>3. QED
  BY <1>1, <1>2, HeadIsQueued DEF HeadOf, TransactionsOf

LEMMA EmptyQueueFacts ==
  ASSUME NEW types, NEW none \in TransactionsOf(types), none.active = FALSE
  PROVE  /\ EmptyQueue(none) \in QueuesOf(types) /\ WellFormed(EmptyQueue(none))
         /\ EmptyQueue(none).count = 0
<1> DEFINE q == EmptyQueue(none)
<1>1. /\ q = [slot |-> [i \in Slots |-> none], head |-> 0, tail |-> 0, count |-> 0]
      /\ 0 \in Slots /\ 0 \in 0..QueueSize
  BY NumberFacts DEF EmptyQueue, Slots
<1>2. /\ q.slot = [i \in Slots |-> none] /\ q.head = 0 /\ q.tail = 0 /\ q.count = 0
      /\ ~(q.count > 0)
  BY <1>1
<1>3. q.tail = QueuedSlot(q, q.count)
  BY <1>2, NumberFacts DEF QueuedSlot
<1>4. \A i \in Slots : q.slot[i].active = FALSE
  BY <1>2
<1> HIDE DEF q
<1>5. WellFormed(q)
  BY <1>2, <1>3, <1>4, Zenon DEF WellFormed
<1>6. QED
  BY <1>1, <1>2, <1>5 DEF QueuesOf, q

\* A fragment is on the buses: the next one is due, or after the last one
\* the ACK, unless the timer reads 0.  A fragment that was refused is due
\* again.
Fragmented(t, zero) ==
  IF t.seq_index + 1 >= t.total THEN [t EXCEPT !.seq_index = 0, !.waiting = ~zero]
                                ELSE [t EXCEPT !.seq_index = @ + 1]

LEMMA FragmentedLast ==
  ASSUME NEW types, NEW t \in TransactionsOf(types), NEW zero \in BOOLEAN,
         t.seq_index + 1 >= t.total
  PROVE  /\ Fragmented(t, zero) \in TransactionsOf(types)
         /\ Fragmented(t, zero).active = t.active /\ Fragmented(t, zero).pkt = t.pkt
         /\ Fragmented(t, zero).retry_count = t.retry_count
         /\ Fragmented(t, zero).seq_index = 0
         /\ Fragmented(t, zero).waiting = ~zero
<1>1. ASSUME NEW w \in BOOLEAN
      PROVE  LET u == [t EXCEPT !.seq_index = 0, !.waiting = w]
             IN /\ u \in TransactionsOf(types) /\ u.active = t.active /\ u.pkt = t.pkt
                /\ u.retry_count = t.retry_count /\ u.seq_index = 0 /\ u.waiting = w
  BY DEF TransactionsOf
<1>2. Fragmented(t, zero) = [t EXCEPT !.seq_index = 0, !.waiting = ~zero]
  BY DEF Fragmented
<1>3. (~zero) \in BOOLEAN
  OBVIOUS
<1>4. QED
  BY <1>1, <1>2, <1>3, Zenon

LEMMA FragmentedMore ==
  ASSUME NEW types, NEW t \in TransactionsOf(types), NEW zero \in BOOLEAN,
         ~(t.seq_index + 1 >= t.total)
  PROVE  /\ Fragmented(t, zero) \in TransactionsOf(types)
         /\ Fragmented(t, zero).active = t.active /\ Fragmented(t, zero).pkt = t.pkt
         /\ Fragmented(t, zero).retry_count = t.retry_count
         /\ Fragmented(t, zero).seq_index = t.seq_index + 1
         /\ Fragmented(t, zero).waiting = t.waiting
<1>1. Fragmented(t, zero) = [t EXCEPT !.seq_index = @ + 1]
  BY DEF Fragmented
<1>2. QED
  BY <1>1 DEF TransactionsOf

-----------------------------------------------------------------------------
(* Packets for SMOCIP *)

SmocipGone == sAccepted - sQueue.count

SmocipTypes ==
  /\ sQueue \in QueuesOf({"smocip"})
  /\ sTid \in 0..(TidMod - 1)
  /\ sElapsed \in 0..AckTimeout /\ sMidTask \in BOOLEAN
  /\ sAcks \subseteq [pkt : Packets, status : {S!OK, S!NOK}]
  /\ sAccepted \in 0..MaxPackets /\ sRefused \in 0..MaxPackets
  /\ sAttempts \in Nat
  /\ sLastSent \in [pkt : 0..MaxPackets, index : Nat, last : BOOLEAN]
  /\ sWraps \in 0..MaxWraps

\* The queue holds the packets that are not closed, in order.
SmocipOrder ==
  /\ WellFormed(sQueue)
  /\ SmocipGone \in Nat
  /\ \A k \in 0..(sQueue.count - 1) : Queued(sQueue, k).pkt = SmocipGone + 1 + k
  /\ sClosed = 1..SmocipGone

\* What has been sent of the packet at the head, and how often.
SmocipHead ==
  /\ sQueue.count = 0 => sAttempts = 0
  /\ sQueue.count > 0 =>
       LET t == HeadOf(sQueue)
       IN /\ t.seq_index > 0 =>
               sLastSent = [pkt |-> t.pkt, index |-> t.seq_index - 1, last |-> FALSE]
          /\ t.waiting => t.seq_index = 0
          /\ sAttempts <= t.retry_count + (IF t.waiting THEN 1 ELSE 0) + sWraps

SmocipInv == SmocipTypes /\ SmocipOrder /\ SmocipHead

\* The queue of SMOCIP.c is the common one.
LEMMA SmocipQueueOps ==
  /\ S!Slots = Slots /\ S!Packets = Packets
  /\ \A q : S!IsFull(q) = IsFull(q) /\ S!HeadOf(q) = HeadOf(q) /\ S!Pop(q) = Pop(q)
  /\ \A q, t : S!Push(q, t) = Push(q, t) /\ S!SetHead(q, t) = SetHead(q, t)
  /\ \A q, k : S!QueuedPkt(q, k) = Queued(q, k).pkt
  /\ \A t : S!Repeated(t) = Repeated(t)
  /\ \A pkt, type, tid, total :
       S!Transaction(pkt, type, tid, total) = Transaction(pkt, type, tid, total)
  /\ \A none : S!EmptyQueue(none) = EmptyQueue(none)
<1>1. S!Slots = Slots /\ S!Packets = Packets
  BY DEF S!Slots, Slots, S!Packets, Packets
<1>2. \A q : S!IsFull(q) = IsFull(q) /\ S!HeadOf(q) = HeadOf(q)
  BY DEF S!IsFull, IsFull, S!HeadOf, HeadOf
<1>3. \A q, t : S!SetHead(q, t) = SetHead(q, t)
  BY DEF S!SetHead, SetHead
<1>4. \A q, t : S!Push(q, t) = Push(q, t)
  BY DEF S!Push, Push, S!NextSlot, NextSlot
<1>5. \A q : S!Pop(q) = Pop(q)
  BY DEF S!Pop, Pop, S!NextSlot, NextSlot, S!SetHead, SetHead, S!Started, Started,
         S!HeadOf, HeadOf
<1>6. \A q, k : S!QueuedPkt(q, k) = Queued(q, k).pkt
  BY DEF S!QueuedPkt, Queued, S!QueuedSlot, QueuedSlot
<1>7. \A t : S!Repeated(t) = Repeated(t)
  BY DEF S!Repeated, Repeated
<1>8. \A pkt, type, tid, total :
        S!Transaction(pkt, type, tid, total) = Transaction(pkt, type, tid, total)
  BY DEF S!Transaction, Transaction
<1>9. \A none : S!EmptyQueue(none) = EmptyQueue(none)
  BY <1>1 DEF S!EmptyQueue, EmptyQueue
<1>10. QED
  BY <1>1, <1>2, <1>3, <1>4, <1>5, <1>6, <1>7, <1>8, <1>9

\* What the invariant says of the queue, and of its head.
LEMMA SmocipFacts ==
  ASSUME SmocipInv
  PROVE  /\ sQueue \in QueuesOf({"smocip"}) /\ WellFormed(sQueue) /\ SmocipGone \in Nat
         /\ sQueue.count \in Nat /\ sQueue.count <= QueueSize /\ QueueSize \in Nat
         /\ sAccepted \in Nat /\ sAccepted <= MaxPackets /\ MaxPackets \in Nat
<1>1. sQueue.count \in 0..QueueSize /\ sAccepted \in 0..MaxPackets
  BY DEF SmocipInv, SmocipTypes, QueuesOf
<1>2. /\ sQueue.count \in Nat /\ sQueue.count <= QueueSize /\ QueueSize \in Nat
      /\ sAccepted \in Nat /\ sAccepted <= MaxPackets /\ MaxPackets \in Nat
  BY <1>1, NumberFacts
<1>3. QED
  BY <1>2 DEF SmocipInv, SmocipTypes, SmocipOrder

LEMMA SmocipHeadFacts ==
  ASSUME SmocipInv, sQueue.count > 0
  PROVE  /\ HeadOf(sQueue) \in TransactionsOf({"smocip"})
         /\ HeadOf(sQueue).active = TRUE
         /\ HeadOf(sQueue).pkt = SmocipGone + 1 /\ HeadOf(sQueue).pkt \in Packets
<1>1. /\ HeadOf(sQueue) \in TransactionsOf({"smocip"}) /\ HeadOf(sQueue).active = TRUE
      /\ HeadOf(sQueue) = Queued(sQueue, 0)
  BY SmocipFacts, HeadFacts
<1>2. HeadOf(sQueue).pkt = SmocipGone + 1
  BY <1>1, SmocipFacts DEF SmocipInv, SmocipOrder
<1>3. HeadOf(sQueue).pkt \in 0..MaxPackets
  BY <1>1 DEF TransactionsOf
<1>4. HeadOf(sQueue).pkt \in Packets
  BY <1>2, <1>3, SmocipFacts DEF Packets
<1>5. QED
  BY <1>1, <1>2, <1>4

\* The invariant says what the run checks.
LEMMA SmocipInvSays ==
  ASSUME SmocipInv
  PROVE  S!TypeOK /\ S!QueueInOrder /\ S!RepeatsAreCounted
<1>1. sClosed \subseteq Packets
  <2>1. SmocipGone <= MaxPackets
    BY SmocipFacts DEF SmocipGone
  <2>2. QED
    BY <2>1, SmocipFacts, NumberFacts DEF SmocipInv, SmocipOrder, Packets
<1>2. S!TypeOK
  BY <1>1, SmocipQueueOps DEF SmocipInv, SmocipTypes, QueuesOf, TransactionsOf, S!TypeOK
<1>3. S!QueueInOrder
  <2>1. \A i \in S!Slots : sQueue.slot[i].active <=> (sQueue.count > 0 /\ i = sQueue.head)
    BY SmocipQueueOps, Zenon DEF SmocipInv, SmocipOrder, WellFormed
  <2>2. \A k \in 0..(sQueue.count - 1) :
          S!QueuedPkt(sQueue, k) = sAccepted - sQueue.count + 1 + k
    BY SmocipQueueOps, Zenon DEF SmocipInv, SmocipOrder, SmocipGone
  <2>3. sClosed = 1..(sAccepted - sQueue.count)
    BY DEF SmocipInv, SmocipOrder, SmocipGone
  <2>4. QED
    BY <2>1, <2>2, <2>3 DEF S!QueueInOrder
<1>4. S!RepeatsAreCounted
  <2>1. sWraps \in Nat
    BY RadioTxAssumption DEF SmocipInv, SmocipTypes
  <2>2. CASE sQueue.count > 0
    <3>1. HeadOf(sQueue).retry_count \in 0..MaxRetries
      BY <2>2, SmocipHeadFacts DEF TransactionsOf
    <3>2. sAttempts <= HeadOf(sQueue).retry_count + (IF HeadOf(sQueue).waiting THEN 1 ELSE 0) + sWraps
      BY <2>2 DEF SmocipInv, SmocipHead
    <3>3. sAttempts \in Nat
      BY DEF SmocipInv, SmocipTypes
    <3>4. QED
      BY <2>1, <3>1, <3>2, <3>3, NumberFacts DEF S!RepeatsAreCounted
  <2>3. CASE ~(sQueue.count > 0)
    <3>1. sAttempts = 0
      BY <2>3, SmocipFacts DEF SmocipInv, SmocipHead
    <3>2. QED
      BY <2>1, <3>1, NumberFacts DEF S!RepeatsAreCounted
  <2>4. QED
    BY <2>2, <2>3
<1>5. QED
  BY <1>2, <1>3, <1>4
LEMMA SmocipInit == S!Init => SmocipInv
<1> SUFFICES ASSUME S!Init PROVE SmocipInv
  OBVIOUS
<1> DEFINE none == Transaction(0, "smocip", 0, 0)
<1>1. /\ sQueue = EmptyQueue(none) /\ sTid = 0 /\ sElapsed = 0 /\ sMidTask = FALSE
      /\ sAcks = {} /\ sAccepted = 0 /\ sRefused = 0 /\ sClosed = {} /\ sAttempts = 0
      /\ sLastSent = [pkt |-> 0, index |-> 0, last |-> TRUE] /\ sWraps = 0
  BY SmocipQueueOps DEF S!Init, S!NoPacket
<1>2. none \in TransactionsOf({"smocip"}) /\ none.active = FALSE
  BY NumberFacts DEF Transaction, TransactionsOf
<1>3. sQueue \in QueuesOf({"smocip"}) /\ WellFormed(sQueue) /\ sQueue.count = 0
  BY <1>1, <1>2, EmptyQueueFacts
<1>4. SmocipTypes
  <2>1. /\ sTid \in 0..(TidMod - 1) /\ sElapsed \in 0..AckTimeout
        /\ sAccepted \in 0..MaxPackets /\ sRefused \in 0..MaxPackets /\ sAttempts \in Nat
        /\ sWraps \in 0..MaxWraps
    BY <1>1, NumberFacts, RadioTxAssumption
  <2>2. sLastSent \in [pkt : 0..MaxPackets, index : Nat, last : BOOLEAN]
    BY <1>1, NumberFacts
  <2>3. sMidTask \in BOOLEAN /\ sAcks \subseteq [pkt : Packets, status : {S!OK, S!NOK}]
    BY <1>1, Zenon
  <2>4. QED
    BY <1>3, <2>1, <2>2, <2>3 DEF SmocipTypes
<1>5. SmocipGone = 0
  BY <1>1, <1>3 DEF SmocipGone
<1>6. SmocipOrder /\ SmocipHead
  BY <1>1, <1>3, <1>5 DEF SmocipOrder, SmocipHead
<1>7. QED
  BY <1>4, <1>6 DEF SmocipInv

\* A packet is queued, or refused by a full queue.
LEMMA SmocipSendKeeps ==
  ASSUME SmocipInv, S!Send
  PROVE  SmocipInv'
<1>1. /\ sAccepted + sRefused < MaxPackets
      /\ UNCHANGED <<sElapsed, sMidTask, sAcks, sClosed, sAttempts, sLastSent, sWraps>>
  BY DEF S!Send
<1>2. /\ sAccepted \in Nat /\ sRefused \in Nat /\ MaxPackets \in Nat
      /\ sTid \in 0..(TidMod - 1) /\ TidMod \in Nat \ {0}
  BY NumberFacts DEF SmocipInv, SmocipTypes
<1>3. CASE S!Full
  <2>1. UNCHANGED <<sQueue, sTid, sAccepted>> /\ sRefused' = sRefused + 1
    BY <1>3 DEF S!Send
  <2>2. SmocipTypes'
    BY <1>1, <1>2, <2>1 DEF SmocipInv, SmocipTypes
  <2>3. SmocipOrder' /\ SmocipHead'
    BY <1>1, <2>1 DEF SmocipInv, SmocipOrder, SmocipHead, SmocipGone
  <2>4. QED
    BY <2>2, <2>3 DEF SmocipInv
<1>4. CASE ~S!Full
  <2> DEFINE packet == Transaction(sAccepted + 1, "smocip", sTid, Fragments[sAccepted + 1])
  <2>1. /\ sAccepted' = sAccepted + 1 /\ sQueue' = Push(sQueue, packet)
        /\ sTid' = (sTid + 1) % TidMod /\ sRefused' = sRefused
    BY <1>4, SmocipQueueOps DEF S!Send
  <2>2. sQueue.count < QueueSize
    <3>1. ~(sQueue.count >= QueueSize)
      BY <1>4, SmocipQueueOps, Zenon DEF S!Full, IsFull
    <3>2. QED
      BY <3>1, SmocipFacts
  <2>3. /\ packet \in TransactionsOf({"smocip"}) /\ packet.active = FALSE
        /\ packet.waiting = FALSE /\ packet.pkt = sAccepted + 1 /\ packet.retry_count = 0
        /\ packet.seq_index = 0
    <3>1. sAccepted + 1 \in Packets /\ sAccepted + 1 \in 0..MaxPackets
      BY <1>1, <1>2 DEF Packets
    <3>2. Fragments[sAccepted + 1] \in Nat
      BY <3>1, TxQueueAssumption
    <3>3. QED
      BY <1>2, <3>1, <3>2, NumberFacts DEF Transaction, TransactionsOf
  <2>4. sTid' \in 0..(TidMod - 1)
    BY <1>2, <2>1
  <2> HIDE DEF packet
  <2>5. /\ sQueue' \in QueuesOf({"smocip"}) /\ WellFormed(sQueue')
        /\ sQueue'.count = sQueue.count + 1
    BY <2>1, <2>2, <2>3, SmocipFacts, PushFacts
  <2>6. /\ \A k \in 0..(sQueue.count - 1) : Queued(sQueue', k).pkt = Queued(sQueue, k).pkt
        /\ Queued(sQueue', sQueue.count).pkt = sAccepted + 1
    BY <2>1, <2>2, <2>3, SmocipFacts, PushedPackets
  <2>7. /\ sQueue.count > 0 => HeadOf(sQueue') = HeadOf(sQueue)
        /\ sQueue.count = 0 => /\ HeadOf(sQueue').waiting = FALSE
                               /\ HeadOf(sQueue').retry_count = 0
                               /\ HeadOf(sQueue').seq_index = 0
    BY <2>1, <2>2, <2>3, SmocipFacts, PushedState
  <2>8. SmocipGone' = SmocipGone
    BY <2>1, <2>5, SmocipFacts DEF SmocipGone
  <2>9. SmocipTypes'
    <3>1. sAccepted' \in 0..MaxPackets /\ sRefused' \in 0..MaxPackets
      BY <1>1, <1>2, <2>1
    <3>2. QED
      BY <1>1, <2>4, <2>5, <3>1 DEF SmocipInv, SmocipTypes
  <2>10. SmocipOrder'
    <3>1. \A k \in 0..(sQueue'.count - 1) : Queued(sQueue', k).pkt = SmocipGone' + 1 + k
      <4>1. \A k \in 0..(sQueue.count - 1) : Queued(sQueue', k).pkt = SmocipGone' + 1 + k
        BY <2>6, <2>8 DEF SmocipInv, SmocipOrder
      <4>2. Queued(sQueue', sQueue.count).pkt = SmocipGone' + 1 + sQueue.count
        BY <2>6, <2>8, SmocipFacts DEF SmocipGone
      <4>3. \A k \in 0..(sQueue'.count - 1) : k \in 0..(sQueue.count - 1) \/ k = sQueue.count
        BY <2>5, SmocipFacts
      <4>4. QED
        BY <4>1, <4>2, <4>3
    <3>2. QED
      BY <1>1, <2>5, <2>8, <3>1 DEF SmocipInv, SmocipOrder
  <2>11. SmocipHead'
    <3>1. sWraps \in Nat /\ sAttempts \in Nat
      BY RadioTxAssumption DEF SmocipInv, SmocipTypes
    <3>2. CASE sQueue.count > 0
      <4>1. HeadOf(sQueue') = HeadOf(sQueue) /\ ~(sQueue'.count = 0)
        BY <2>5, <2>7, <3>2, SmocipFacts
      <4>2. QED
        BY <1>1, <3>2, <4>1 DEF SmocipInv, SmocipHead
    <3>3. CASE sQueue.count = 0
      <4>1. sAttempts' = 0 /\ ~(sQueue'.count = 0) /\ sWraps' = sWraps
        BY <1>1, <2>5, <3>3 DEF SmocipInv, SmocipHead
      <4>2. QED
        BY <2>7, <3>1, <3>3, <4>1 DEF SmocipHead
    <3>4. QED
      BY <3>2, <3>3, SmocipFacts
  <2>12. QED
    BY <2>9, <2>10, <2>11 DEF SmocipInv
<1>5. QED
  BY <1>3, <1>4

\* The packet at the head leaves.
LEMMA SmocipLeaveKeeps ==
  ASSUME SmocipInv, sQueue.count > 0, S!Leave,
         UNCHANGED <<sTid, sElapsed, sAccepted, sRefused, sLastSent, sWraps>>,
         sMidTask' \in BOOLEAN, sAcks' \subseteq sAcks
  PROVE  SmocipInv'
<1>1. /\ sQueue' = Pop(sQueue) /\ sClosed' = sClosed \cup {SmocipGone + 1} /\ sAttempts' = 0
  BY SmocipQueueOps, SmocipHeadFacts DEF S!Leave
<1>2. /\ sQueue' \in QueuesOf({"smocip"}) /\ WellFormed(sQueue')
      /\ sQueue'.count = sQueue.count - 1
  BY <1>1, SmocipFacts, PopFacts
<1>3. /\ \A k \in 0..(sQueue.count - 2) : Queued(sQueue', k).pkt = Queued(sQueue, k + 1).pkt
      /\ sQueue.count > 1 => /\ HeadOf(sQueue').waiting = FALSE
                             /\ HeadOf(sQueue').retry_count = 0
                             /\ HeadOf(sQueue').seq_index = 0
  BY <1>1, SmocipFacts, PoppedPackets
<1>4. SmocipGone' = SmocipGone + 1
  BY <1>2, SmocipFacts DEF SmocipGone
<1>5. SmocipTypes'
  BY <1>1, <1>2 DEF SmocipInv, SmocipTypes
<1>6. SmocipOrder'
  <2>1. \A k \in 0..(sQueue'.count - 1) : Queued(sQueue', k).pkt = SmocipGone' + 1 + k
    BY <1>2, <1>3, <1>4, SmocipFacts DEF SmocipInv, SmocipOrder
  <2>2. sClosed' = 1..SmocipGone'
    BY <1>1, <1>4, SmocipFacts DEF SmocipInv, SmocipOrder
  <2>3. SmocipGone' \in Nat
    BY <1>4, SmocipFacts
  <2>4. QED
    BY <1>2, <2>1, <2>2, <2>3 DEF SmocipOrder
<1>7. SmocipHead'
  <2>1. sWraps' \in Nat
    BY RadioTxAssumption DEF SmocipInv, SmocipTypes
  <2>2. CASE sQueue.count > 1
    BY <1>1, <1>3, <2>1, <2>2 DEF SmocipHead
  <2>3. CASE sQueue.count = 1
    BY <1>1, <1>2, <2>3 DEF SmocipHead
  <2>4. QED
    BY <2>2, <2>3, SmocipFacts
<1>8. QED
  BY <1>5, <1>6, <1>7 DEF SmocipInv

\* The packet at the head changes, but not its number.
LEMMA SmocipSetHead ==
  ASSUME SmocipInv, sQueue.count > 0, NEW t \in TransactionsOf({"smocip"}), t.active = TRUE,
         t.pkt = HeadOf(sQueue).pkt, sQueue' = SetHead(sQueue, t),
         UNCHANGED <<sAccepted, sClosed>>
  PROVE  /\ sQueue' \in QueuesOf({"smocip"}) /\ SmocipOrder'
         /\ sQueue'.count = sQueue.count /\ HeadOf(sQueue') = t
<1>1. /\ sQueue' \in QueuesOf({"smocip"}) /\ WellFormed(sQueue')
      /\ sQueue'.count = sQueue.count /\ HeadOf(sQueue') = t
  BY SmocipFacts, SetHeadFacts
<1>2. \A k \in 0..(sQueue.count - 1) : Queued(sQueue', k).pkt = Queued(sQueue, k).pkt
  BY SmocipFacts, ReplacedPackets
<1>3. SmocipGone' = SmocipGone
  BY <1>1 DEF SmocipGone
<1>4. SmocipOrder'
  BY <1>1, <1>2, <1>3, SmocipFacts DEF SmocipInv, SmocipOrder
<1>5. QED
  BY <1>1, <1>4

LEMMA SmocipAckProcessKeeps ==
  ASSUME SmocipInv, S!AckProcess
  PROVE  SmocipInv' /\ sLastSent' = sLastSent
<1>1. /\ UNCHANGED <<sTid, sElapsed, sAcks, sAccepted, sRefused, sLastSent, sWraps>>
      /\ sMidTask' = TRUE
  BY DEF S!AckProcess
<1>2. S!TimedOut => sQueue.count > 0 /\ HeadOf(sQueue).waiting
  BY SmocipQueueOps DEF S!TimedOut, S!Waiting
<1>3. CASE S!TimedOut /\ HeadOf(sQueue).retry_count < MaxRetries
  <2> DEFINE t == HeadOf(sQueue)
  <2>1. sQueue.count > 0 /\ t.waiting /\ t \in TransactionsOf({"smocip"}) /\ t.active = TRUE
    BY <1>2, <1>3, SmocipHeadFacts
  <2>2. UNCHANGED <<sClosed, sAttempts>> /\ sQueue' = SetHead(sQueue, Repeated(t))
    <3>1. S!HeadOf(sQueue) = t /\ S!SetHead(sQueue, S!Repeated(t)) = SetHead(sQueue, Repeated(t))
      BY SmocipQueueOps
    <3>2. ~(t.retry_count >= MaxRetries)
      BY <1>3, <2>1, NumberFacts DEF TransactionsOf
    <3>3. QED
      BY <1>3, <3>1, <3>2, Zenon DEF S!AckProcess, S!Retried
  <2>3. /\ Repeated(t) \in TransactionsOf({"smocip"}) /\ Repeated(t).active = TRUE
        /\ Repeated(t).pkt = t.pkt /\ Repeated(t).waiting = FALSE
        /\ Repeated(t).seq_index = 0 /\ Repeated(t).retry_count = t.retry_count + 1
    BY <1>3, <2>1, RepeatedFacts
  <2>4. /\ sQueue' \in QueuesOf({"smocip"}) /\ SmocipOrder'
        /\ sQueue'.count = sQueue.count /\ HeadOf(sQueue') = Repeated(t)
    BY <1>1, <2>1, <2>2, <2>3, SmocipSetHead
  <2>5. SmocipTypes'
    BY <1>1, <2>2, <2>4 DEF SmocipInv, SmocipTypes
  <2>6. SmocipHead'
    <3>1. sAttempts <= t.retry_count + 1 + sWraps
      BY <2>1 DEF SmocipInv, SmocipHead
    <3>2. sAttempts \in Nat /\ sWraps \in Nat /\ t.retry_count \in Nat
      BY <2>1, NumberFacts, RadioTxAssumption DEF SmocipInv, SmocipTypes, TransactionsOf
    <3>3. sAttempts' <= Repeated(t).retry_count + 0 + sWraps'
      BY <1>1, <2>2, <2>3, <3>1, <3>2
    <3>4. QED
      BY <2>1, <2>3, <2>4, <3>3 DEF SmocipHead
  <2>7. QED
    BY <1>1, <2>4, <2>5, <2>6 DEF SmocipInv
<1>4. CASE S!TimedOut /\ S!Leave
  BY <1>1, <1>2, <1>4, SmocipLeaveKeeps
<1>5. CASE UNCHANGED <<sQueue, sClosed, sAttempts>>
  BY <1>1, <1>5 DEF SmocipInv, SmocipTypes, SmocipOrder, SmocipHead, SmocipGone
<1>6. QED
  BY <1>3, <1>4, <1>5, SmocipQueueOps DEF S!AckProcess

LEMMA SmocipAckReceivedKeeps ==
  ASSUME SmocipInv, NEW a \in sAcks, S!AckReceived(a)
  PROVE  SmocipInv' /\ sLastSent' = sLastSent
<1>1. /\ UNCHANGED <<sTid, sElapsed, sMidTask, sAccepted, sRefused, sLastSent, sWraps>>
      /\ sAcks' \subseteq sAcks /\ sMidTask \in BOOLEAN
  BY DEF S!AckReceived, SmocipInv, SmocipTypes
<1>2. CASE S!IsAnswer(a)
  <2>1. sQueue.count > 0 /\ S!Leave
    BY <1>2 DEF S!IsAnswer, S!AckReceived
  <2>2. QED
    BY <1>1, <2>1, SmocipLeaveKeeps
<1>3. CASE ~S!IsAnswer(a)
  <2>1. UNCHANGED <<sQueue, sClosed, sAttempts>>
    BY <1>3 DEF S!AckReceived
  <2>2. QED
    BY <1>1, <2>1 DEF SmocipInv, SmocipTypes, SmocipOrder, SmocipHead, SmocipGone
<1>4. QED
  BY <1>2, <1>3

LEMMA SmocipQuietKeeps ==
  ASSUME SmocipInv, (\E a \in sAcks : S!LoseAck(a)) \/ S!Tick \/ UNCHANGED sVars
  PROVE  SmocipInv' /\ sLastSent' = sLastSent
<1>1. /\ UNCHANGED <<sQueue, sTid, sMidTask, sAccepted, sRefused, sClosed, sAttempts,
                     sLastSent, sWraps>>
      /\ sAcks' \subseteq sAcks /\ sElapsed' \in 0..AckTimeout
  BY NumberFacts DEF S!LoseAck, S!Tick, sVars, SmocipInv, SmocipTypes
<1>2. QED
  BY <1>1 DEF SmocipInv, SmocipTypes, SmocipOrder, SmocipHead, SmocipGone

\* A fragment of the packet at the head goes out, or is refused by the buses.
LEMMA SmocipTxProcessKeeps ==
  ASSUME SmocipInv, NEW took \in BOOLEAN, NEW zero \in BOOLEAN, S!TxProcess(took, zero)
  PROVE  SmocipInv' /\ S!SendsInOrder
<1> DEFINE t == HeadOf(sQueue)
           final == t.seq_index + 1 >= t.total
<1>1. /\ UNCHANGED <<sTid, sAccepted, sRefused, sClosed>> /\ sMidTask' = FALSE
  BY DEF S!TxProcess
<1>2. CASE ~S!Sending
  <2>1. UNCHANGED <<sQueue, sElapsed, sAcks, sAttempts, sLastSent, sWraps>>
    BY <1>2 DEF S!TxProcess
  <2>2. QED
    BY <1>1, <2>1 DEF SmocipInv, SmocipTypes, SmocipOrder, SmocipHead, SmocipGone,
                      S!SendsInOrder
<1>3. CASE S!Sending
  <2>1. /\ sQueue.count > 0 /\ ~t.waiting /\ t \in TransactionsOf({"smocip"}) /\ t.active = TRUE
        /\ t.pkt \in Packets
    <3>1. sQueue.count > 0 /\ ~t.waiting
      BY <1>3, SmocipQueueOps, Zenon DEF S!Sending, S!Waiting
    <3>2. QED
      BY <3>1, SmocipHeadFacts
  <2>2. /\ sWraps \in Nat /\ sAttempts \in Nat /\ t.retry_count \in Nat
        /\ t.seq_index \in Nat /\ t.total \in Nat /\ t.waiting = FALSE
    BY <2>1, RadioTxAssumption, NumberFacts DEF SmocipInv, SmocipTypes, TransactionsOf
  <2>3. /\ zero => sWraps < MaxWraps /\ took /\ final
        /\ sWraps' = (IF zero THEN sWraps + 1 ELSE sWraps)
        /\ sQueue' = SetHead(sQueue, IF took THEN Fragmented(t, zero) ELSE t)
        /\ sElapsed' = (IF took /\ final THEN 0 ELSE sElapsed)
        /\ sAttempts' = (IF took /\ final THEN sAttempts + 1 ELSE sAttempts)
        /\ sLastSent' = (IF took THEN [pkt |-> t.pkt, index |-> t.seq_index,
                                       last |-> took /\ final]
                                 ELSE sLastSent)
        /\ \/ \E status \in {S!OK, S!NOK} : sAcks' = sAcks \cup {[pkt |-> t.pkt, status |-> status]}
           \/ UNCHANGED sAcks
    BY <1>3, SmocipQueueOps, Zenon
       DEF S!TxProcess, S!SendFragment, S!AfterFragment, S!AfterRefusal, Fragmented
  <2>4. /\ sElapsed' \in 0..AckTimeout /\ sWraps' \in 0..MaxWraps /\ sWraps' \in Nat
        /\ sAttempts' \in Nat
        /\ sAcks' \subseteq [pkt : Packets, status : {S!OK, S!NOK}]
    <3>1. sElapsed' \in 0..AckTimeout /\ sWraps' \in 0..MaxWraps /\ sWraps' \in Nat
      BY <2>2, <2>3, NumberFacts, RadioTxAssumption DEF SmocipInv, SmocipTypes
    <3>2. sAcks' \subseteq [pkt : Packets, status : {S!OK, S!NOK}]
      BY <2>1, <2>3 DEF SmocipInv, SmocipTypes
    <3>3. sAttempts' \in Nat
      BY <2>2, <2>3
    <3>4. QED
      BY <3>1, <3>2, <3>3
  <2>5. ASSUME NEW u \in TransactionsOf({"smocip"}), u.active = TRUE, u.pkt = t.pkt,
               sQueue' = SetHead(sQueue, u),
               sLastSent' \in [pkt : 0..MaxPackets, index : Nat, last : BOOLEAN]
        PROVE  /\ SmocipTypes' /\ SmocipOrder'
               /\ sQueue'.count > 0 /\ sQueue'.count # 0 /\ HeadOf(sQueue') = u
    <3>1. /\ sQueue' \in QueuesOf({"smocip"}) /\ SmocipOrder'
          /\ sQueue'.count = sQueue.count /\ HeadOf(sQueue') = u
      BY <1>1, <2>1, <2>5, SmocipSetHead
    <3>2. SmocipTypes'
      BY <1>1, <2>4, <2>5, <3>1 DEF SmocipInv, SmocipTypes
    <3>3. QED
      BY <2>1, <3>1, <3>2
  <2>6. CASE ~took
    <3>1. ~zero /\ sQueue' = SetHead(sQueue, t)
      BY <2>3, <2>6, Zenon
    <3>2. UNCHANGED <<sWraps, sAttempts, sLastSent>>
      BY <2>3, <2>6, <3>1
    <3>3. /\ SmocipTypes' /\ SmocipOrder'
          /\ sQueue'.count > 0 /\ sQueue'.count # 0 /\ HeadOf(sQueue') = t
      BY <2>1, <2>5, <3>1, <3>2 DEF SmocipInv, SmocipTypes
    <3>4. SmocipHead'
      BY <2>1, <3>2, <3>3 DEF SmocipInv, SmocipHead
    <3>5. QED
      BY <3>2, <3>3, <3>4 DEF SmocipInv, S!SendsInOrder
  <2>7. CASE took
    <3> DEFINE u == Fragmented(t, zero)
    <3>1. /\ u \in TransactionsOf({"smocip"}) /\ u.active = TRUE /\ u.pkt = t.pkt
          /\ u.retry_count = t.retry_count
          /\ final => u.seq_index = 0 /\ (~zero => u.waiting = TRUE) /\ (zero => u.waiting = FALSE)
          /\ ~final => u.seq_index = t.seq_index + 1 /\ u.waiting = FALSE
      <4>1. CASE final
        <5>1. /\ u \in TransactionsOf({"smocip"}) /\ u.active = t.active /\ u.pkt = t.pkt
              /\ u.retry_count = t.retry_count /\ u.seq_index = 0 /\ u.waiting = ~zero
          BY <2>1, <4>1, FragmentedLast
        <5> HIDE DEF u
        <5>2. (~zero => u.waiting = TRUE) /\ (zero => u.waiting = FALSE)
          BY <5>1, Zenon
        <5>3. QED
          BY <2>1, <4>1, <5>1, <5>2
      <4>2. CASE ~final
        <5>1. /\ u \in TransactionsOf({"smocip"}) /\ u.active = t.active /\ u.pkt = t.pkt
              /\ u.retry_count = t.retry_count /\ u.seq_index = t.seq_index + 1
              /\ u.waiting = t.waiting
          BY <2>1, <4>2, FragmentedMore
        <5> HIDE DEF u
        <5>2. QED
          BY <2>1, <2>2, <4>2, <5>1
      <4>3. QED
        BY <4>1, <4>2
    <3>2. /\ sQueue' = SetHead(sQueue, u)
          /\ sLastSent' = [pkt |-> t.pkt, index |-> t.seq_index, last |-> final]
      <4>1. (took /\ final) = final
        BY <2>7
      <4>2. QED
        BY <2>3, <2>7, <4>1
    <3> HIDE DEF u
    <3>3. sLastSent' \in [pkt : 0..MaxPackets, index : Nat, last : BOOLEAN]
      BY <2>1, <2>2, <3>2 DEF TransactionsOf
    <3>4. /\ SmocipTypes' /\ SmocipOrder'
          /\ sQueue'.count > 0 /\ sQueue'.count # 0 /\ HeadOf(sQueue') = u
      BY <2>5, <3>1, <3>2, <3>3
    <3>5. sAttempts <= t.retry_count + sWraps
      BY <2>1, <2>2 DEF SmocipInv, SmocipHead
    <3>6. SmocipHead'
      <4>1. CASE final
        <5>1. /\ sAttempts' = sAttempts + 1 /\ u.seq_index = 0
              /\ sWraps' = (IF zero THEN sWraps + 1 ELSE sWraps)
          BY <2>3, <2>7, <3>1, <4>1
        <5>2. CASE zero
          BY <2>2, <3>1, <3>4, <3>5, <4>1, <5>1, <5>2 DEF SmocipHead
        <5>3. CASE ~zero
          BY <2>2, <3>1, <3>4, <3>5, <4>1, <5>1, <5>3 DEF SmocipHead
        <5>4. QED
          BY <5>2, <5>3
      <4>2. CASE ~final
        <5>1. sAttempts' = sAttempts /\ sWraps' = sWraps
          BY <2>3, <4>2
        <5>2. /\ u.seq_index = t.seq_index + 1 /\ u.waiting = FALSE /\ u.pkt = t.pkt
              /\ u.retry_count = t.retry_count
          BY <3>1, <4>2
        <5>3. sLastSent' = [pkt |-> u.pkt, index |-> u.seq_index - 1, last |-> FALSE]
          <6>1. u.seq_index - 1 = t.seq_index /\ final = FALSE
            BY <2>2, <4>2, <5>2
          <6>2. QED
            BY <3>2, <5>2, <6>1
        <5>4. QED
          BY <2>2, <3>4, <3>5, <5>1, <5>2, <5>3 DEF SmocipHead
      <4>3. QED
        BY <4>1, <4>2
    <3>7. S!SendsInOrder
      <4>1. sLastSent'.index = t.seq_index /\ sLastSent'.pkt = t.pkt
        BY <3>2
      <4>2. t.seq_index > 0 => /\ sLastSent.pkt = t.pkt /\ sLastSent.index = t.seq_index - 1
                               /\ sLastSent.last = FALSE
        BY <2>1 DEF SmocipInv, SmocipHead
      <4>3. QED
        BY <2>2, <4>1, <4>2 DEF S!SendsInOrder
    <3>8. QED
      BY <3>4, <3>6, <3>7 DEF SmocipInv
  <2>8. QED
    BY <2>6, <2>7
<1>4. QED
  BY <1>2, <1>3

LEMMA SmocipNextKeeps ==
  ASSUME SmocipInv, S!Next \/ UNCHANGED sVars
  PROVE  SmocipInv' /\ S!SendsInOrder
<1>1. sLastSent' = sLastSent => S!SendsInOrder
  BY DEF S!SendsInOrder
<1>2. CASE S!Send
  BY <1>1, <1>2, SmocipSendKeeps DEF S!Send
<1>3. CASE S!AckProcess
  BY <1>1, <1>3, SmocipAckProcessKeeps
<1>4. CASE \E took, zero \in BOOLEAN : S!TxProcess(took, zero)
  BY <1>4, SmocipTxProcessKeeps
<1>5. CASE \E a \in sAcks : S!AckReceived(a)
  BY <1>1, <1>5, SmocipAckReceivedKeeps
<1>6. CASE (\E a \in sAcks : S!LoseAck(a)) \/ S!Tick \/ UNCHANGED sVars
  BY <1>1, <1>6, SmocipQuietKeeps
<1>7. QED
  BY <1>2, <1>3, <1>4, <1>5, <1>6 DEF S!Next

-----------------------------------------------------------------------------
(* Packets for the radios *)

RadioTypes ==
  /\ queue \in [Radios -> QueuesOf(PktTypes)]
  /\ radio_direct_transaction_id \in 0..(TidMod - 1)
  /\ elapsed \in [Radios -> 0..AckTimeout]
  /\ mid_task \in BOOLEAN
  /\ acks \subseteq [radio : Radios, pkt : Packets, type : PktTypes, status : {OK, REJECT}]
  /\ offered \in 0..MaxPackets
  /\ refused \subseteq Packets /\ heard \subseteq Packets
  /\ \A p \in DOMAIN sentTo : sentTo[p] \in Radios
  /\ attempts \in [Radios -> Nat]
  /\ lastSent \in [Radios -> [pkt : 0..MaxPackets, index : Nat, last : BOOLEAN]]
  /\ wraps \in 0..MaxWraps

\* The packets accepted are among those offered.
RadioHistory == DOMAIN sentTo \subseteq 1..offered /\ closed \subseteq DOMAIN sentTo

\* The queue holds the packets of its radio that are not closed, in order.
RadioOrder(r) ==
  /\ WellFormed(queue[r])
  /\ {Queued(queue[r], k).pkt : k \in 0..(queue[r].count - 1)} = PacketsOf(r) \ closed
  /\ \A j, k \in 0..(queue[r].count - 1) :
       j < k => Queued(queue[r], j).pkt < Queued(queue[r], k).pkt

\* What has been sent of the packet at the head, and how often.
RadioHead(r) ==
  /\ queue[r].count = 0 => attempts[r] = 0
  /\ queue[r].count > 0 =>
       LET t == HeadOf(queue[r])
       IN /\ t.seq_index > 0 =>
               lastSent[r] = [pkt |-> t.pkt, index |-> t.seq_index - 1, last |-> FALSE]
          /\ t.waiting => t.seq_index = 0
          /\ attempts[r] <= t.retry_count + (IF t.waiting THEN 1 ELSE 0) + wraps

RadioInv ==
  /\ RadioTypes /\ RadioHistory
  /\ \A r \in Radios : RadioOrder(r) /\ RadioHead(r)

LEMMA RadioFacts ==
  ASSUME RadioInv, NEW r \in Radios
  PROVE  /\ queue[r] \in QueuesOf(PktTypes) /\ WellFormed(queue[r])
         /\ queue[r].count \in Nat /\ queue[r].count <= QueueSize /\ QueueSize \in Nat
         /\ attempts[r] \in Nat /\ wraps \in Nat /\ offered \in Nat
         /\ offered <= MaxPackets /\ MaxPackets \in Nat
<1>1. /\ queue[r] \in QueuesOf(PktTypes) /\ attempts[r] \in Nat
      /\ wraps \in 0..MaxWraps /\ offered \in 0..MaxPackets
  BY DEF RadioInv, RadioTypes
<1>2. queue[r].count \in 0..QueueSize
  BY <1>1 DEF QueuesOf
<1>3. QED
  BY <1>1, <1>2, NumberFacts, RadioTxAssumption DEF RadioInv, RadioOrder

LEMMA RadioHeadFacts ==
  ASSUME RadioInv, NEW r \in Radios, queue[r].count > 0
  PROVE  /\ HeadOf(queue[r]) \in TransactionsOf(PktTypes)
         /\ HeadOf(queue[r]).active = TRUE
         /\ HeadOf(queue[r]).pkt \in Packets
         /\ HeadOf(queue[r]).pkt \in PacketsOf(r)
         /\ HeadOf(queue[r]).pkt \notin closed
<1>1. /\ HeadOf(queue[r]) \in TransactionsOf(PktTypes) /\ HeadOf(queue[r]).active = TRUE
      /\ HeadOf(queue[r]) = Queued(queue[r], 0)
  BY RadioFacts, HeadFacts
<1>2. 0 \in 0..(queue[r].count - 1)
  BY RadioFacts
<1>3. HeadOf(queue[r]).pkt \in PacketsOf(r) \ closed
  BY <1>1, <1>2 DEF RadioInv, RadioOrder
<1>4. HeadOf(queue[r]).pkt \in DOMAIN sentTo
  BY <1>3 DEF PacketsOf
<1>5. HeadOf(queue[r]).pkt \in Packets
  <2>1. HeadOf(queue[r]).pkt \in 1..offered
    BY <1>4 DEF RadioInv, RadioHistory
  <2>2. QED
    BY <2>1, RadioFacts DEF Packets
<1>6. QED
  BY <1>1, <1>3, <1>5

\* The invariant says what the run checks.
LEMMA RadioInvSays ==
  ASSUME RadioInv
  PROVE  TypeOK /\ QueueInOrder /\ RepeatsAreCounted
<1>1. TypeOK
  <2>1. DOMAIN sentTo \subseteq Packets
    <3>1. offered \in 0..MaxPackets /\ MaxPackets \in Nat
      BY NumberFacts DEF RadioInv, RadioTypes
    <3>2. QED
      BY <3>1 DEF RadioInv, RadioHistory, Packets
  <2>2. closed \subseteq Packets
    BY <2>1 DEF RadioInv, RadioHistory
  <2>3. ASSUME NEW r \in Radios
        PROVE  /\ queue[r].slot \in [Slots -> Transactions]
               /\ queue[r].head \in Slots /\ queue[r].tail \in Slots
               /\ queue[r].count \in 0..QueueSize
    BY RadioFacts DEF QueuesOf, TransactionsOf, Transactions
  <2>4. QED
    BY <2>1, <2>2, <2>3 DEF RadioInv, RadioTypes, TypeOK
<1>2. QueueInOrder
  <2> SUFFICES ASSUME NEW r \in Radios
               PROVE  LET q == queue[r]
                      IN /\ QueuedOf(r) = PacketsOf(r) \ closed
                         /\ \A k \in 1..(q.count - 1) : QueuedPkt(q, k - 1) < QueuedPkt(q, k)
                         /\ \A i \in Slots : q.slot[i].active <=> (q.count > 0 /\ i = q.head)
                         /\ q.count > 0 /\ HeadOf(q).waiting => HeadOf(q).seq_index = 0
    BY DEF QueueInOrder
  <2>1. \A k : QueuedPkt(queue[r], k) = Queued(queue[r], k).pkt
    BY DEF QueuedPkt, Queued
  <2>2. QueuedOf(r) = PacketsOf(r) \ closed
    BY <2>1, Zenon DEF QueuedOf, RadioInv, RadioOrder
  <2>3. \A k \in 1..(queue[r].count - 1) : QueuedPkt(queue[r], k - 1) < QueuedPkt(queue[r], k)
    <3>1. \A k \in 1..(queue[r].count - 1) :
            /\ k - 1 \in 0..(queue[r].count - 1) /\ k \in 0..(queue[r].count - 1)
            /\ k - 1 < k
      BY RadioFacts
    <3>2. QED
      BY <2>1, <3>1 DEF RadioInv, RadioOrder
  <2>4. \A i \in Slots : queue[r].slot[i].active <=> (queue[r].count > 0 /\ i = queue[r].head)
    BY RadioFacts, Zenon DEF WellFormed
  <2>5. queue[r].count > 0 /\ HeadOf(queue[r]).waiting => HeadOf(queue[r]).seq_index = 0
    BY DEF RadioInv, RadioHead
  <2>6. QED
    BY <2>2, <2>3, <2>4, <2>5, Zenon
<1>3. RepeatsAreCounted
  <2> SUFFICES ASSUME NEW r \in Radios
               PROVE  attempts[r] <= MaxRetries + 1 + wraps
    BY DEF RepeatsAreCounted
  <2>1. CASE queue[r].count > 0
    <3>1. HeadOf(queue[r]).retry_count \in 0..MaxRetries
      BY <2>1, RadioHeadFacts DEF TransactionsOf
    <3>2. attempts[r] <= HeadOf(queue[r]).retry_count
                           + (IF HeadOf(queue[r]).waiting THEN 1 ELSE 0) + wraps
      BY <2>1 DEF RadioInv, RadioHead
    <3>3. QED
      BY <3>1, <3>2, RadioFacts, NumberFacts
  <2>2. CASE ~(queue[r].count > 0)
    <3> queue[r].count = 0
      BY <2>2, RadioFacts
    <3>1. attempts[r] = 0
      BY DEF RadioInv, RadioHead
    <3>2. QED
      BY <3>1, RadioFacts, NumberFacts
  <2>3. QED
    BY <2>1, <2>2
<1>4. QED
  BY <1>1, <1>2, <1>3

\* The packet at the head leaves.
LEMMA RadioPop ==
  ASSUME RadioInv, NEW r \in Radios, queue[r].count > 0, queue'[r] = Pop(queue[r]),
         sentTo' = sentTo, HeadOf(queue[r]).pkt \in closed',
         PacketsOf(r) \cap closed' \subseteq closed \cup {HeadOf(queue[r]).pkt},
         closed \subseteq closed'
  PROVE  /\ queue'[r] \in QueuesOf(PktTypes) /\ RadioOrder(r)'
         /\ queue'[r].count = queue[r].count - 1
         /\ queue'[r].count > 0 => /\ HeadOf(queue'[r]).waiting = FALSE
                                   /\ HeadOf(queue'[r]).retry_count = 0
                                   /\ HeadOf(queue'[r]).seq_index = 0
<1> DEFINE q == queue[r]
           Pkt(k) == Queued(q, k).pkt
<1>1. /\ queue'[r] \in QueuesOf(PktTypes) /\ WellFormed(queue'[r])
      /\ queue'[r].count = q.count - 1
  BY RadioFacts, PopFacts
<1>2. /\ \A k \in 0..(q.count - 2) : Queued(queue'[r], k).pkt = Pkt(k + 1)
      /\ q.count > 1 => /\ HeadOf(queue'[r]).waiting = FALSE
                        /\ HeadOf(queue'[r]).retry_count = 0
                        /\ HeadOf(queue'[r]).seq_index = 0
  BY RadioFacts, PoppedPackets
<1>3. /\ q.count \in Nat
      /\ \A k \in 0..(q.count - 1) : Queued(q, k) \in TransactionsOf(PktTypes)
  BY RadioFacts, SlotFacts DEF Queued, QueuesOf
<1>4. \A k \in 0..(q.count - 1) : Pkt(k) \in Nat
  BY <1>3, NumberFacts DEF TransactionsOf
<1>5. Pkt(0) = HeadOf(q).pkt
  BY RadioFacts, HeadFacts
<1>6. /\ {Pkt(k) : k \in 0..(q.count - 1)} = PacketsOf(r) \ closed
      /\ \A j, k \in 0..(q.count - 1) : j < k => Pkt(j) < Pkt(k)
  BY DEF RadioInv, RadioOrder
<1> HIDE DEF Pkt
<1>7. \A k \in 1..(q.count - 1) : Pkt(k) # Pkt(0)
  <2>1. \A k \in 1..(q.count - 1) : 0 \in 0..(q.count - 1) /\ k \in 0..(q.count - 1) /\ 0 < k
    BY <1>3
  <2>2. QED
    BY <1>4, <1>6, <2>1
<1>8. PacketsOf(r)' = PacketsOf(r)
  BY DEF PacketsOf
<1>9. {Queued(queue'[r], k).pkt : k \in 0..(q.count - 2)} = {Pkt(k) : k \in 1..(q.count - 1)}
  <2>1. ASSUME NEW k \in 0..(q.count - 2)
        PROVE  \E m \in 1..(q.count - 1) : Queued(queue'[r], k).pkt = Pkt(m)
    <3>1. k + 1 \in 1..(q.count - 1)
      BY <1>3
    <3>2. QED
      BY <1>2, <3>1
  <2>2. ASSUME NEW m \in 1..(q.count - 1)
        PROVE  \E k \in 0..(q.count - 2) : Queued(queue'[r], k).pkt = Pkt(m)
    <3>1. m - 1 \in 0..(q.count - 2) /\ (m - 1) + 1 = m
      BY <1>3
    <3>2. QED
      BY <1>2, <3>1
  <2>3. QED
    BY <2>1, <2>2
<1>10. {Pkt(k) : k \in 1..(q.count - 1)} = (PacketsOf(r) \ closed) \ {Pkt(0)}
  <2>1. \A k \in 0..(q.count - 1) : k = 0 \/ k \in 1..(q.count - 1)
    BY <1>3
  <2>2. \A k \in 1..(q.count - 1) : k \in 0..(q.count - 1)
    BY <1>3
  <2>3. QED
    BY <1>6, <1>7, <2>1, <2>2
<1>11. (PacketsOf(r) \ closed) \ {Pkt(0)} = PacketsOf(r) \ closed'
  BY <1>5
<1>12. RadioOrder(r)'
  <2>1. queue'[r].count - 1 = q.count - 2
    BY <1>1, <1>3
  <2>2. {Queued(queue'[r], k).pkt : k \in 0..(queue'[r].count - 1)} = PacketsOf(r)' \ closed'
    BY <1>8, <1>9, <1>10, <1>11, <2>1
  <2>3. ASSUME NEW j \in 0..(q.count - 2), NEW k \in 0..(q.count - 2), j < k
        PROVE  Queued(queue'[r], j).pkt < Queued(queue'[r], k).pkt
    <3>1. j + 1 \in 0..(q.count - 1) /\ k + 1 \in 0..(q.count - 1) /\ j + 1 < k + 1
      BY <1>3, <2>3
    <3>2. QED
      BY <1>2, <1>6, <3>1
  <2>4. QED
    BY <1>1, <2>1, <2>2, <2>3 DEF RadioOrder
<1>13. QED
  BY <1>1, <1>2, <1>3, <1>12

\* The packet at the head changes, but not its number, or nothing changes.
LEMMA RadioSetHead ==
  ASSUME RadioInv, NEW r \in Radios,
         sentTo' = sentTo, PacketsOf(r) \cap closed' = PacketsOf(r) \cap closed,
         queue[r].count > 0, NEW t \in TransactionsOf(PktTypes), t.active = TRUE,
         t.pkt = HeadOf(queue[r]).pkt, queue'[r] = SetHead(queue[r], t)
  PROVE  /\ queue'[r] \in QueuesOf(PktTypes) /\ RadioOrder(r)'
         /\ queue'[r].count = queue[r].count /\ HeadOf(queue'[r]) = t
<1>1. /\ queue'[r] \in QueuesOf(PktTypes) /\ WellFormed(queue'[r])
      /\ queue'[r].count = queue[r].count /\ HeadOf(queue'[r]) = t
  <2>1. queue[r] \in QueuesOf(PktTypes) /\ WellFormed(queue[r])
    BY RadioFacts
  <2>2. /\ SetHead(queue[r], t) \in QueuesOf(PktTypes) /\ WellFormed(SetHead(queue[r], t))
        /\ SetHead(queue[r], t).count = queue[r].count
        /\ HeadOf(SetHead(queue[r], t)) = t
    BY <2>1, SetHeadFacts
  <2>3. QED
    BY <2>2
<1>2. \A k \in 0..(queue[r].count - 1) : Queued(queue'[r], k).pkt = Queued(queue[r], k).pkt
  <2>1. queue[r] \in QueuesOf(PktTypes) /\ WellFormed(queue[r])
    BY RadioFacts
  <2>2. \A k \in 0..(queue[r].count - 1) :
          Queued(SetHead(queue[r], t), k).pkt = Queued(queue[r], k).pkt
    BY <2>1, ReplacedPackets
  <2>3. QED
    BY <2>2
<1>3. PacketsOf(r)' = PacketsOf(r)
  BY DEF PacketsOf
<1>4. {Queued(queue'[r], k).pkt : k \in 0..(queue'[r].count - 1)} = PacketsOf(r)' \ closed'
  BY <1>1, <1>2, <1>3 DEF RadioInv, RadioOrder
<1>5. RadioOrder(r)'
  BY <1>1, <1>2, <1>4 DEF RadioInv, RadioOrder
<1>6. QED
  BY <1>1, <1>5

LEMMA RadioSame ==
  ASSUME RadioInv, NEW r \in Radios,
         sentTo' = sentTo, PacketsOf(r) \cap closed' = PacketsOf(r) \cap closed,
         queue'[r] = queue[r]
  PROVE  queue'[r] \in QueuesOf(PktTypes) /\ RadioOrder(r)'
<1>1. PacketsOf(r)' = PacketsOf(r)
  BY DEF PacketsOf
<1>2. PacketsOf(r)' \ closed' = PacketsOf(r) \ closed
  BY <1>1
<1>3. RadioOrder(r)'
  BY <1>2 DEF RadioInv, RadioOrder
<1>4. QED
  BY <1>3, RadioFacts

LEMMA RadioInit == Init => RadioInv
<1> SUFFICES ASSUME Init PROVE RadioInv
  OBVIOUS
<1>1. NoPacket \in TransactionsOf(PktTypes) /\ NoPacket.active = FALSE
  <2>1. (CHOOSE t \in PktTypes : TRUE) \in PktTypes
    BY RadioTxAssumption
  <2>2. QED
    BY <2>1, NumberFacts DEF NoPacket, TransactionsOf
<1>2. ASSUME NEW r \in Radios
      PROVE  /\ queue[r] \in QueuesOf(PktTypes) /\ WellFormed(queue[r]) /\ queue[r].count = 0
             /\ attempts[r] = 0
  <2>1. queue[r] = EmptyQueue(NoPacket) /\ attempts[r] = 0
    BY DEF Init
  <2>2. QED
    BY <1>1, <2>1, EmptyQueueFacts
<1>3. DOMAIN sentTo = {} /\ closed = {} /\ offered = 0
  BY DEF Init
<1>4. RadioTypes
  <2>1. queue \in [Radios -> QueuesOf(PktTypes)]
    BY <1>2 DEF Init
  <2>2. /\ radio_direct_transaction_id \in 0..(TidMod - 1) /\ offered \in 0..MaxPackets
        /\ wraps \in 0..MaxWraps
    BY NumberFacts, RadioTxAssumption DEF Init
  <2>3. /\ elapsed \in [Radios -> 0..AckTimeout] /\ attempts \in [Radios -> Nat]
        /\ lastSent \in [Radios -> [pkt : 0..MaxPackets, index : Nat, last : BOOLEAN]]
    BY NumberFacts DEF Init
  <2>4. /\ mid_task \in BOOLEAN /\ refused \subseteq Packets /\ heard \subseteq Packets
        /\ acks \subseteq [radio : Radios, pkt : Packets, type : PktTypes, status : {OK, REJECT}]
    BY Zenon DEF Init
  <2>5. QED
    BY <1>3, <2>1, <2>2, <2>3, <2>4 DEF RadioTypes
<1>5. RadioHistory
  BY <1>3 DEF RadioHistory
<1>6. ASSUME NEW r \in Radios
      PROVE  RadioOrder(r) /\ RadioHead(r)
  <2>1. PacketsOf(r) = {}
    BY <1>3 DEF PacketsOf
  <2>2. QED
    BY <1>2, <2>1 DEF RadioOrder, RadioHead
<1>7. QED
  BY <1>4, <1>5, <1>6 DEF RadioInv

\* A packet is queued for a radio, or refused by its full queue.
LEMMA RadioSendKeeps ==
  ASSUME RadioInv, NEW r \in Radios, Send(r)
  PROVE  RadioInv' /\ lastSent' = lastSent
<1> DEFINE p == offered + 1
<1>1. /\ p \in Packets /\ offered' = p
      /\ UNCHANGED <<elapsed, mid_task, acks, closed, heard, attempts, lastSent, wraps>>
  BY DEF Send
<1>2. /\ offered \in Nat /\ p \in 0..MaxPackets
      /\ radio_direct_transaction_id \in 0..(TidMod - 1) /\ TidMod \in Nat \ {0}
  BY <1>1, NumberFacts DEF RadioInv, RadioTypes, Packets
<1>3. p \notin DOMAIN sentTo /\ p \notin closed /\ 1..offered \subseteq 1..p /\ p \in 1..p
  <2>1. p \notin 1..offered /\ 1..offered \subseteq 1..p /\ p \in 1..p
    BY <1>2
  <2>2. QED
    BY <2>1 DEF RadioInv, RadioHistory
<1>4. CASE Full(queue[r])
  <2>1. UNCHANGED <<queue, radio_direct_transaction_id, sentTo>> /\ refused' = refused \cup {p}
    BY <1>4 DEF Send
  <2>2. RadioTypes'
    BY <1>1, <1>2, <2>1 DEF RadioInv, RadioTypes
  <2>3. RadioHistory'
    BY <1>1, <1>3, <2>1 DEF RadioInv, RadioHistory
  <2>4. ASSUME NEW s \in Radios
        PROVE  RadioOrder(s)' /\ RadioHead(s)'
    BY <1>1, <2>1 DEF RadioInv, RadioOrder, RadioHead, PacketsOf
  <2>5. QED
    BY <1>1, <2>2, <2>3, <2>4 DEF RadioInv
<1>5. CASE ~Full(queue[r])
  <2> DEFINE packet == Transaction(p, TypeOf[p], radio_direct_transaction_id, Fragments[p])
             q == queue[r]
  <2>1. /\ queue' = [queue EXCEPT ![r] = Push(q, packet)]
        /\ radio_direct_transaction_id' = (radio_direct_transaction_id + 1) % TidMod
        /\ sentTo' = [k \in DOMAIN sentTo \cup {p} |-> IF k = p THEN r ELSE sentTo[k]]
        /\ refused' = refused
    BY <1>5 DEF Send
  <2>2. q.count < QueueSize
    <3>1. ~(q.count >= QueueSize)
      BY <1>5, Zenon DEF Full, IsFull
    <3>2. QED
      BY <3>1, RadioFacts
  <2>3. /\ packet \in TransactionsOf(PktTypes) /\ packet.active = FALSE
        /\ packet.waiting = FALSE /\ packet.pkt = p /\ packet.retry_count = 0
        /\ packet.seq_index = 0
    <3>1. Fragments[p] \in Nat /\ TypeOf[p] \in PktTypes
      BY <1>1, TxQueueAssumption, RadioTxAssumption
    <3>2. QED
      BY <1>2, <3>1, NumberFacts DEF Transaction, TransactionsOf
  <2>4. radio_direct_transaction_id' \in 0..(TidMod - 1)
    BY <1>2, <2>1
  <2>5. queue'[r] = Push(q, packet) /\ \A s \in Radios : s # r => queue'[s] = queue[s]
    BY <2>1 DEF RadioInv, RadioTypes
  <2> HIDE DEF packet
  <2>6. /\ q \in QueuesOf(PktTypes) /\ WellFormed(q) /\ q.count \in Nat
    BY RadioFacts
  <2>7. /\ queue'[r] \in QueuesOf(PktTypes) /\ WellFormed(queue'[r])
        /\ queue'[r].count = q.count + 1
    <3>1. /\ Push(q, packet) \in QueuesOf(PktTypes) /\ WellFormed(Push(q, packet))
          /\ Push(q, packet).count = q.count + 1
      BY <2>2, <2>3, <2>6, PushFacts
    <3>2. QED
      BY <2>5, <3>1
  <2>8. /\ \A k \in 0..(q.count - 1) : Queued(queue'[r], k).pkt = Queued(q, k).pkt
        /\ Queued(queue'[r], q.count).pkt = p
    <3>1. /\ \A k \in 0..(q.count - 1) : Queued(Push(q, packet), k).pkt = Queued(q, k).pkt
          /\ Queued(Push(q, packet), q.count).pkt = packet.pkt
      BY <2>2, <2>3, <2>6, PushedPackets
    <3>2. QED
      BY <2>3, <2>5, <3>1
  <2>9. /\ q.count > 0 => HeadOf(queue'[r]) = HeadOf(q)
        /\ q.count = 0 => /\ HeadOf(queue'[r]).waiting = FALSE
                          /\ HeadOf(queue'[r]).retry_count = 0
                          /\ HeadOf(queue'[r]).seq_index = 0
    <3>1. /\ q.count > 0 => HeadOf(Push(q, packet)) = HeadOf(q)
          /\ q.count = 0 => /\ HeadOf(Push(q, packet)).waiting = packet.waiting
                            /\ HeadOf(Push(q, packet)).retry_count = packet.retry_count
                            /\ HeadOf(Push(q, packet)).seq_index = packet.seq_index
      BY <2>2, <2>3, <2>6, PushedState
    <3>2. QED
      BY <2>3, <2>5, <3>1
  <2>10. /\ DOMAIN sentTo' = DOMAIN sentTo \cup {p} /\ sentTo'[p] = r
         /\ \A k \in DOMAIN sentTo : sentTo'[k] = sentTo[k]
    BY <1>3, <2>1
  <2>11. /\ PacketsOf(r)' = PacketsOf(r) \cup {p}
         /\ \A s \in Radios : s # r => PacketsOf(s)' = PacketsOf(s)
    BY <2>10 DEF PacketsOf
  <2>12. RadioTypes'
    <3>1. queue' \in [Radios -> QueuesOf(PktTypes)]
      BY <2>1, <2>5, <2>7 DEF RadioInv, RadioTypes
    <3>2. \A k \in DOMAIN sentTo' : sentTo'[k] \in Radios
      BY <2>10 DEF RadioInv, RadioTypes
    <3>3. QED
      BY <1>1, <1>2, <2>1, <2>4, <3>1, <3>2 DEF RadioInv, RadioTypes
  <2>13. RadioHistory'
    BY <1>1, <1>3, <2>10 DEF RadioInv, RadioHistory
  <2>14. RadioOrder(r)'
    <3>1. \A k \in 0..(queue'[r].count - 1) : k \in 0..(q.count - 1) \/ k = q.count
      BY <2>6, <2>7
    <3>2. /\ \A k \in 0..(q.count - 1) : k \in 0..(queue'[r].count - 1)
          /\ q.count \in 0..(queue'[r].count - 1)
      BY <2>6, <2>7
    <3>3. \A k \in 0..(q.count - 1) : Queued(q, k).pkt \in 1..offered
      BY DEF RadioInv, RadioOrder, RadioHistory, PacketsOf
    <3>4. {Queued(queue'[r], k).pkt : k \in 0..(queue'[r].count - 1)}
            = {Queued(q, k).pkt : k \in 0..(q.count - 1)} \cup {p}
      BY <2>8, <3>1, <3>2
    <3>5. {Queued(queue'[r], k).pkt : k \in 0..(queue'[r].count - 1)} = PacketsOf(r)' \ closed'
      <4>1. {Queued(q, k).pkt : k \in 0..(q.count - 1)} = PacketsOf(r) \ closed
        BY DEF RadioInv, RadioOrder
      <4>2. (PacketsOf(r) \cup {p}) \ closed = (PacketsOf(r) \ closed) \cup {p}
        BY <1>3
      <4>3. QED
        BY <1>1, <2>11, <3>4, <4>1, <4>2
    <3>6. ASSUME NEW j \in 0..(queue'[r].count - 1), NEW k \in 0..(queue'[r].count - 1), j < k
          PROVE  Queued(queue'[r], j).pkt < Queued(queue'[r], k).pkt
      <4>1. j \in 0..(q.count - 1)
        BY <2>6, <2>7, <3>6
      <4>2. CASE k \in 0..(q.count - 1)
        BY <2>8, <3>6, <4>1, <4>2 DEF RadioInv, RadioOrder
      <4>3. CASE k = q.count
        <5>1. Queued(queue'[r], j).pkt \in 1..offered
          BY <2>8, <3>3, <4>1
        <5>2. QED
          BY <1>2, <2>8, <4>3, <5>1
      <4>4. QED
        BY <3>1, <4>2, <4>3
    <3>7. QED
      BY <2>7, <3>5, <3>6 DEF RadioOrder
  <2>15. RadioHead(r)'
    <3>1. wraps \in Nat /\ attempts[r] \in Nat
      BY RadioFacts
    <3>2. CASE q.count > 0
      <4>1. HeadOf(queue'[r]) = HeadOf(q) /\ ~(queue'[r].count = 0)
        BY <2>6, <2>7, <2>9, <3>2
      <4>2. QED
        BY <1>1, <3>2, <4>1 DEF RadioInv, RadioHead
    <3>3. CASE q.count = 0
      <4>1. attempts'[r] = 0 /\ ~(queue'[r].count = 0) /\ wraps' = wraps
        <5>1. attempts[r] = 0
          BY <3>3 DEF RadioInv, RadioHead
        <5>2. queue'[r].count = 1
          BY <2>7, <3>3
        <5>3. QED
          BY <1>1, <5>1, <5>2
      <4>2. QED
        BY <2>9, <3>1, <3>3, <4>1 DEF RadioHead
    <3>4. QED
      BY <2>6, <3>2, <3>3
  <2>16. ASSUME NEW s \in Radios, s # r
         PROVE  RadioOrder(s)' /\ RadioHead(s)'
    <3>1. queue'[s] = queue[s] /\ PacketsOf(s)' = PacketsOf(s)
      BY <2>5, <2>11, <2>16
    <3>2. QED
      BY <1>1, <3>1 DEF RadioInv, RadioOrder, RadioHead
  <2>17. QED
    BY <1>1, <2>12, <2>13, <2>14, <2>15, <2>16 DEF RadioInv
<1>6. QED
  BY <1>4, <1>5

\* Packets of different radios are different: closing one of a radio leaves
\* the others alone.
LEMMA ClosedOfOthers ==
  ASSUME RadioInv, NEW r \in Radios, NEW R \in SUBSET Radios,
         \A s \in R : queue[s].count > 0,
         closed' = closed \cup {HeadOf(queue[s]).pkt : s \in R}
  PROVE  /\ PacketsOf(r) \cap closed' \subseteq closed \cup {HeadOf(queue[r]).pkt}
         /\ r \notin R => PacketsOf(r) \cap closed' = PacketsOf(r) \cap closed
         /\ r \in R => HeadOf(queue[r]).pkt \in closed'
         /\ closed \subseteq closed' /\ closed' \subseteq DOMAIN sentTo
<1>1. \A s \in R : HeadOf(queue[s]).pkt \in PacketsOf(s)
  BY RadioHeadFacts
<1>2. \A s \in R : s # r => HeadOf(queue[s]).pkt \notin PacketsOf(r)
  BY <1>1 DEF PacketsOf
<1>3. closed' \subseteq DOMAIN sentTo
  BY <1>1 DEF PacketsOf, RadioInv, RadioHistory
<1>4. QED
  BY <1>2, <1>3

\* The head of a queue is active: radio_ack_process repeats it, drops it or
\* leaves it alone.
LEMMA AfterAckProcessFacts ==
  ASSUME RadioInv, NEW r \in Radios
  PROVE  \/ /\ queue[r].count > 0 /\ HeadOf(queue[r]).waiting
            /\ HeadOf(queue[r]).retry_count < MaxRetries
            /\ AfterAckProcess(r) = SetHead(queue[r], Repeated(HeadOf(queue[r])))
         \/ queue[r].count > 0 /\ AfterAckProcess(r) = Pop(queue[r])
         \/ AfterAckProcess(r) = queue[r]
<1>1. ~(queue[r].count > 0 /\ ~HeadOf(queue[r]).active)
  BY RadioHeadFacts
<1>2. TimedOut(r) => queue[r].count > 0 /\ HeadOf(queue[r]).waiting
  BY DEF TimedOut
<1>3. AfterAckProcess(r) =
        CASE TimedOut(r) /\ HeadOf(queue[r]).retry_count < MaxRetries ->
               SetHead(queue[r], Repeated(HeadOf(queue[r])))
          [] TimedOut(r) /\ HeadOf(queue[r]).retry_count >= MaxRetries -> Pop(queue[r])
          [] OTHER -> queue[r]
  BY <1>1 DEF AfterAckProcess, Retried
<1>4. TimedOut(r) =>
        ~(HeadOf(queue[r]).retry_count < MaxRetries /\ HeadOf(queue[r]).retry_count >= MaxRetries)
  <2>1. ASSUME TimedOut(r)
        PROVE  HeadOf(queue[r]).retry_count \in Nat
    <3>1. HeadOf(queue[r]) \in TransactionsOf(PktTypes)
      BY <1>2, <2>1, RadioHeadFacts
    <3>2. QED
      BY <3>1, NumberFacts DEF TransactionsOf
  <2>2. QED
    BY <2>1, NumberFacts
<1>5. CASE TimedOut(r) /\ HeadOf(queue[r]).retry_count < MaxRetries
  BY <1>2, <1>3, <1>4, <1>5
<1>6. CASE TimedOut(r) /\ HeadOf(queue[r]).retry_count >= MaxRetries
  BY <1>2, <1>3, <1>4, <1>6
<1>7. CASE /\ ~(TimedOut(r) /\ HeadOf(queue[r]).retry_count < MaxRetries)
           /\ ~(TimedOut(r) /\ HeadOf(queue[r]).retry_count >= MaxRetries)
  BY <1>3, <1>7
<1>8. QED
  BY <1>5, <1>6, <1>7

LEMMA DroppedFacts ==
  ASSUME RadioInv
  PROVE  Dropped \in SUBSET Radios /\ \A r \in Dropped : queue[r].count > 0
<1>1. ASSUME NEW r \in Dropped
      PROVE  queue[r].count > 0
  <2>1. r \in Radios /\ AfterAckProcess(r).count < queue[r].count
    BY DEF Dropped
  <2>2. CASE ~(queue[r].count > 0)
    <3>1. AfterAckProcess(r) = queue[r]
      BY <2>1, <2>2, AfterAckProcessFacts
    <3>2. QED
      BY <2>1, <3>1, RadioFacts
  <2>3. QED
    BY <2>2
<1>2. QED
  BY <1>1 DEF Dropped

\* One radio's part of radio_ack_process.
LEMMA RadioAckedKeeps ==
  ASSUME RadioInv, AckProcess, NEW r \in Radios
  PROVE  queue'[r] \in QueuesOf(PktTypes) /\ RadioOrder(r)' /\ RadioHead(r)'
<1> DEFINE q == queue[r]
           t == HeadOf(queue[r])
<1>1. /\ queue'[r] = AfterAckProcess(r)
      /\ closed' = closed \cup {HeadOf(queue[s]).pkt : s \in Dropped}
      /\ attempts'[r] = (IF r \in Dropped THEN 0 ELSE attempts[r])
      /\ sentTo' = sentTo /\ lastSent' = lastSent /\ wraps' = wraps
  BY DEF AckProcess
<1>2. /\ Dropped \in SUBSET Radios
      /\ \A s \in Dropped : queue[s].count > 0
  BY DroppedFacts
<1>3. /\ PacketsOf(r) \cap closed' \subseteq closed \cup {t.pkt}
      /\ r \notin Dropped => PacketsOf(r) \cap closed' = PacketsOf(r) \cap closed
      /\ r \in Dropped => t.pkt \in closed'
      /\ closed \subseteq closed'
  BY <1>1, <1>2, ClosedOfOthers
<1>4. q.count \in Nat /\ attempts[r] \in Nat /\ wraps \in Nat
  BY RadioFacts
<1>5. r \in Dropped <=> AfterAckProcess(r).count < q.count
  BY DEF Dropped
<1>6. CASE /\ q.count > 0 /\ t.waiting /\ t.retry_count < MaxRetries
           /\ AfterAckProcess(r) = SetHead(q, Repeated(t))
  <2>1. t \in TransactionsOf(PktTypes) /\ t.active = TRUE
    BY <1>6, RadioHeadFacts
  <2>2. /\ Repeated(t) \in TransactionsOf(PktTypes) /\ Repeated(t).active = TRUE
        /\ Repeated(t).pkt = t.pkt /\ Repeated(t).waiting = FALSE
        /\ Repeated(t).seq_index = 0 /\ Repeated(t).retry_count = t.retry_count + 1
    BY <1>6, <2>1, RepeatedFacts
  <2>3. r \notin Dropped
    <3>1. q \in QueuesOf(PktTypes) /\ WellFormed(q)
      BY RadioFacts
    <3>2. AfterAckProcess(r).count = q.count
      BY <1>6, <2>2, <3>1, SetHeadFacts
    <3>3. QED
      BY <1>4, <1>5, <3>2
  <2>4. /\ queue'[r] \in QueuesOf(PktTypes) /\ RadioOrder(r)'
        /\ queue'[r].count = q.count /\ HeadOf(queue'[r]) = Repeated(t)
    <3>1. /\ PacketsOf(r) \cap closed' = PacketsOf(r) \cap closed
          /\ queue'[r] = SetHead(q, Repeated(t))
      BY <1>1, <1>3, <1>6, <2>3
    <3>2. QED
      BY <1>1, <1>6, <2>2, <3>1, RadioSetHead
  <2>5. RadioHead(r)'
    <3>1. attempts[r] <= t.retry_count + 1 + wraps
      BY <1>6 DEF RadioInv, RadioHead
    <3>2. t.retry_count \in Nat
      BY <2>1, NumberFacts DEF TransactionsOf
    <3>3. attempts'[r] <= Repeated(t).retry_count + 0 + wraps'
      BY <1>1, <1>4, <2>2, <2>3, <3>1, <3>2
    <3>4. queue'[r].count > 0 /\ ~(queue'[r].count = 0)
      BY <1>4, <1>6, <2>4
    <3>5. QED
      BY <2>2, <2>4, <3>3, <3>4 DEF RadioHead
  <2>6. QED
    BY <2>4, <2>5
<1>7. CASE q.count > 0 /\ AfterAckProcess(r) = Pop(q)
  <2>1. r \in Dropped
    <3>1. q \in QueuesOf(PktTypes) /\ WellFormed(q)
      BY RadioFacts
    <3>2. AfterAckProcess(r).count = q.count - 1
      BY <1>7, <3>1, PopFacts
    <3>3. QED
      BY <1>4, <1>5, <3>2
  <2>2. /\ queue'[r] \in QueuesOf(PktTypes) /\ RadioOrder(r)'
        /\ queue'[r].count = q.count - 1
        /\ queue'[r].count > 0 => /\ HeadOf(queue'[r]).waiting = FALSE
                                  /\ HeadOf(queue'[r]).retry_count = 0
                                  /\ HeadOf(queue'[r]).seq_index = 0
    <3>1. queue'[r] = Pop(q) /\ t.pkt \in closed'
      BY <1>1, <1>3, <1>7, <2>1
    <3>2. QED
      BY <1>1, <1>3, <1>7, <3>1, RadioPop
  <2>3. attempts'[r] = 0 /\ wraps' \in Nat
    BY <1>1, <1>4, <2>1
  <2>4. RadioHead(r)'
    <3>1. CASE queue'[r].count > 0
      BY <2>2, <2>3, <3>1 DEF RadioHead
    <3>2. CASE ~(queue'[r].count > 0)
      BY <2>3, <3>2 DEF RadioHead
    <3>3. QED
      BY <3>1, <3>2
  <2>5. QED
    BY <2>2, <2>4
<1>8. CASE AfterAckProcess(r) = q
  <2>1. r \notin Dropped
    BY <1>4, <1>5, <1>8
  <2>2. queue'[r] = q /\ attempts'[r] = attempts[r]
    BY <1>1, <1>8, <2>1
  <2>3. queue'[r] \in QueuesOf(PktTypes) /\ RadioOrder(r)'
    BY <1>1, <1>3, <2>1, <2>2, RadioSame
  <2>4. RadioHead(r)'
    BY <1>1, <2>2 DEF RadioInv, RadioHead
  <2>5. QED
    BY <2>3, <2>4
<1>9. QED
  BY <1>6, <1>7, <1>8, AfterAckProcessFacts

LEMMA RadioAckProcessKeeps ==
  ASSUME RadioInv, AckProcess
  PROVE  RadioInv' /\ lastSent' = lastSent
<1>1. /\ mid_task' = TRUE
      /\ UNCHANGED <<radio_direct_transaction_id, elapsed, acks, offered, refused, sentTo,
                     heard, lastSent, wraps>>
      /\ queue' = [r \in Radios |-> AfterAckProcess(r)]
      /\ attempts' = [r \in Radios |-> IF r \in Dropped THEN 0 ELSE attempts[r]]
      /\ closed' = closed \cup {HeadOf(queue[r]).pkt : r \in Dropped}
  BY DEF AckProcess
<1>2. \A r \in Radios : queue'[r] \in QueuesOf(PktTypes) /\ RadioOrder(r)' /\ RadioHead(r)'
  BY RadioAckedKeeps
<1>3. RadioTypes'
  <2>1. queue' \in [Radios -> QueuesOf(PktTypes)] /\ attempts' \in [Radios -> Nat]
    BY <1>1, <1>2 DEF RadioInv, RadioTypes
  <2>2. QED
    BY <1>1, <2>1 DEF RadioInv, RadioTypes
<1>4. RadioHistory'
  <2>1. \A r \in Dropped : HeadOf(queue[r]).pkt \in DOMAIN sentTo
    BY DroppedFacts, RadioHeadFacts DEF PacketsOf
  <2>2. QED
    BY <1>1, <2>1 DEF RadioInv, RadioHistory
<1>5. QED
  BY <1>1, <1>2, <1>3, <1>4 DEF RadioInv

LEMMA RadioAckReceivedKeeps ==
  ASSUME RadioInv, NEW a \in acks, AckReceived(a)
  PROVE  RadioInv' /\ lastSent' = lastSent
<1> DEFINE r == a.radio
<1>1. /\ UNCHANGED <<radio_direct_transaction_id, elapsed, mid_task, offered, refused, sentTo,
                     heard, lastSent, wraps>>
      /\ acks' \subseteq acks /\ r \in Radios
  BY DEF AckReceived, RadioInv, RadioTypes
<1>2. CASE ~IsAnswer(a)
  <2>1. UNCHANGED <<queue, closed, attempts>>
    BY <1>2 DEF AckReceived
  <2>2. \A s \in Radios : RadioOrder(s)' /\ RadioHead(s)'
    BY <1>1, <2>1 DEF RadioInv, RadioOrder, RadioHead, PacketsOf
  <2>3. QED
    BY <1>1, <2>1, <2>2 DEF RadioInv, RadioTypes, RadioHistory
<1>3. CASE IsAnswer(a)
  <2>1. /\ queue[r].count > 0
        /\ queue' = [queue EXCEPT ![r] = Pop(queue[r])]
        /\ closed' = closed \cup {HeadOf(queue[r]).pkt}
        /\ attempts' = [attempts EXCEPT ![r] = 0]
    BY <1>3 DEF AckReceived, IsAnswer
  <2>2. /\ queue'[r] = Pop(queue[r]) /\ attempts'[r] = 0
        /\ \A s \in Radios : s # r => queue'[s] = queue[s] /\ attempts'[s] = attempts[s]
    BY <1>1, <2>1 DEF RadioInv, RadioTypes
  <2>3. \A s \in Radios :
          /\ PacketsOf(s) \cap closed' \subseteq closed \cup {HeadOf(queue[s]).pkt}
          /\ s \notin {r} => PacketsOf(s) \cap closed' = PacketsOf(s) \cap closed
          /\ s \in {r} => HeadOf(queue[s]).pkt \in closed'
          /\ closed \subseteq closed' /\ closed' \subseteq DOMAIN sentTo
    <3>1. closed' = closed \cup {HeadOf(queue[s]).pkt : s \in {r}}
      BY <2>1
    <3>2. {r} \in SUBSET Radios /\ \A s \in {r} : queue[s].count > 0
      BY <1>1, <2>1
    <3>3. QED
      BY <3>1, <3>2, ClosedOfOthers
  <2>4. /\ queue'[r] \in QueuesOf(PktTypes) /\ RadioOrder(r)'
        /\ queue'[r].count = queue[r].count - 1
        /\ queue'[r].count > 0 => /\ HeadOf(queue'[r]).waiting = FALSE
                                  /\ HeadOf(queue'[r]).retry_count = 0
                                  /\ HeadOf(queue'[r]).seq_index = 0
    <3>1. /\ HeadOf(queue[r]).pkt \in closed' /\ closed \subseteq closed'
          /\ PacketsOf(r) \cap closed' \subseteq closed \cup {HeadOf(queue[r]).pkt}
      BY <1>1, <2>3
    <3>2. QED
      BY <1>1, <2>1, <2>2, <3>1, RadioPop
  <2>5. RadioHead(r)'
    <3>1. wraps' \in Nat
      BY <1>1, RadioFacts
    <3>2. CASE queue'[r].count > 0
      BY <2>2, <2>4, <3>1, <3>2 DEF RadioHead
    <3>3. CASE ~(queue'[r].count > 0)
      BY <2>2, <3>3 DEF RadioHead
    <3>4. QED
      BY <3>2, <3>3
  <2>6. ASSUME NEW s \in Radios, s # r
        PROVE  queue'[s] \in QueuesOf(PktTypes) /\ RadioOrder(s)' /\ RadioHead(s)'
    <3>1. queue'[s] = queue[s] /\ attempts'[s] = attempts[s]
      BY <2>2, <2>6
    <3>2. queue'[s] \in QueuesOf(PktTypes) /\ RadioOrder(s)'
      BY <1>1, <2>3, <2>6, <3>1, RadioSame
    <3>3. RadioHead(s)'
      BY <1>1, <3>1 DEF RadioInv, RadioHead
    <3>4. QED
      BY <3>2, <3>3
  <2>7. RadioTypes'
    <3>1. queue' \in [Radios -> QueuesOf(PktTypes)]
      BY <2>1, <2>4, <2>6 DEF RadioInv, RadioTypes
    <3>2. attempts' \in [Radios -> Nat]
      BY <2>1 DEF RadioInv, RadioTypes
    <3>3. QED
      BY <1>1, <3>1, <3>2 DEF RadioInv, RadioTypes
  <2>8. RadioHistory'
    BY <1>1, <2>3 DEF RadioInv, RadioHistory
  <2>9. QED
    BY <1>1, <2>4, <2>5, <2>6, <2>7, <2>8 DEF RadioInv
<1>4. QED
  BY <1>2, <1>3

LEMMA RadioQuietKeeps ==
  ASSUME RadioInv, (\E a \in acks : LoseAck(a)) \/ Tick \/ UNCHANGED vars
  PROVE  RadioInv' /\ lastSent' = lastSent
<1>1. /\ UNCHANGED <<queue, radio_direct_transaction_id, mid_task, offered, refused, sentTo,
                     closed, heard, attempts, lastSent, wraps>>
      /\ acks' \subseteq acks
  BY DEF LoseAck, Tick, vars
<1>2. elapsed' \in [Radios -> 0..AckTimeout]
  <2>1. CASE Tick
    BY <2>1, NumberFacts DEF Tick, RadioInv, RadioTypes
  <2>2. CASE elapsed' = elapsed
    BY <2>2 DEF RadioInv, RadioTypes
  <2>3. QED
    BY <2>1, <2>2 DEF LoseAck, vars
<1>3. \A s \in Radios : RadioOrder(s)' /\ RadioHead(s)'
  BY <1>1 DEF RadioInv, RadioOrder, RadioHead, PacketsOf
<1>4. QED
  BY <1>1, <1>2, <1>3 DEF RadioInv, RadioTypes, RadioHistory

\* One radio's part of radio_tx_process: a fragment goes out, is refused, or
\* nothing is due.
LEMMA RadioSentKeeps ==
  ASSUME RadioInv, NEW took \in SUBSET Radios, NEW zero \in BOOLEAN, TxProcess(took, zero),
         NEW r \in Radios
  PROVE  /\ queue'[r] \in QueuesOf(PktTypes) /\ RadioOrder(r)' /\ RadioHead(r)'
         /\ attempts'[r] \in Nat
         /\ lastSent'[r] \in [pkt : 0..MaxPackets, index : Nat, last : BOOLEAN]
         /\ lastSent'[r] # lastSent[r] =>
              \/ lastSent'[r].index = 0
              \/ /\ lastSent'[r].pkt = lastSent[r].pkt
                 /\ lastSent'[r].index = lastSent[r].index + 1
                 /\ ~lastSent[r].last
<1> DEFINE q == queue[r]
           t == HeadOf(queue[r])
           final == t.seq_index + 1 >= t.total
           done == {s \in Radios : Completes(s, took)}
<1>1. /\ queue'[r] = (IF ~Sending(r) THEN q
                      ELSE SetHead(q, IF r \in took THEN Fragmented(t, zero) ELSE t))
      /\ attempts'[r] = (IF r \in done THEN attempts[r] + 1 ELSE attempts[r])
      /\ lastSent'[r] = (IF Sending(r) /\ r \in took
                         THEN [pkt |-> t.pkt, index |-> t.seq_index, last |-> r \in done]
                         ELSE lastSent[r])
      /\ wraps' = (IF zero THEN wraps + 1 ELSE wraps)
      /\ sentTo' = sentTo /\ closed' = closed
  BY Zenon DEF TxProcess, AfterFragment, AfterRefusal, Fragmented
<1>2. r \in done <=> Sending(r) /\ r \in took /\ final
  BY DEF Completes
<1> HIDE DEF done
<1>3. /\ q.count \in Nat /\ attempts[r] \in Nat /\ wraps \in Nat /\ wraps' \in Nat
      /\ wraps <= wraps'
  BY <1>1, RadioFacts
<1>4. lastSent[r] \in [pkt : 0..MaxPackets, index : Nat, last : BOOLEAN]
  BY DEF RadioInv, RadioTypes
<1>5. CASE ~Sending(r)
  <2>1. queue'[r] = q /\ attempts'[r] = attempts[r] /\ lastSent'[r] = lastSent[r]
    BY <1>1, <1>2, <1>5, Zenon
  <2>2. queue'[r] \in QueuesOf(PktTypes) /\ RadioOrder(r)'
    BY <1>1, <2>1, RadioSame
  <2>3. RadioHead(r)'
    <3>1. CASE q.count > 0
      <4>1. t.retry_count \in Nat
        <5>1. t \in TransactionsOf(PktTypes)
          BY <3>1, RadioHeadFacts
        <5>2. QED
          BY <5>1, NumberFacts DEF TransactionsOf
      <4>2. attempts[r] <= t.retry_count + (IF t.waiting THEN 1 ELSE 0) + wraps'
        <5>1. attempts[r] <= t.retry_count + (IF t.waiting THEN 1 ELSE 0) + wraps
          BY <3>1 DEF RadioInv, RadioHead
        <5>2. QED
          BY <1>3, <4>1, <5>1
      <4>3. QED
        BY <1>3, <2>1, <3>1, <4>2 DEF RadioInv, RadioHead
    <3>2. CASE ~(q.count > 0)
      BY <2>1, <3>2 DEF RadioInv, RadioHead
    <3>3. QED
      BY <3>1, <3>2
  <2>4. QED
    BY <1>3, <1>4, <2>1, <2>2, <2>3
<1>6. CASE Sending(r)
  <2>1. q.count > 0 /\ ~t.waiting
    BY <1>6 DEF Sending
  <2>2. t \in TransactionsOf(PktTypes) /\ t.active = TRUE /\ t.pkt \in Packets
    BY <2>1, RadioHeadFacts
  <2>3. /\ t.retry_count \in Nat /\ t.seq_index \in Nat /\ t.total \in Nat /\ t.waiting = FALSE
        /\ t.pkt \in 0..MaxPackets
    BY <2>1, <2>2, NumberFacts DEF TransactionsOf
  <2>4. attempts[r] <= t.retry_count + wraps
    <3>1. attempts[r] <= t.retry_count + (IF t.waiting THEN 1 ELSE 0) + wraps
      BY <2>1 DEF RadioInv, RadioHead
    <3>2. QED
      BY <1>3, <2>1, <2>3, <3>1
  <2>5. ASSUME NEW u \in TransactionsOf(PktTypes), u.active = TRUE, u.pkt = t.pkt,
               queue'[r] = SetHead(q, u)
        PROVE  /\ queue'[r] \in QueuesOf(PktTypes) /\ RadioOrder(r)'
               /\ queue'[r].count > 0 /\ ~(queue'[r].count = 0) /\ HeadOf(queue'[r]) = u
    <3>1. /\ queue'[r] \in QueuesOf(PktTypes) /\ RadioOrder(r)'
          /\ queue'[r].count = q.count /\ HeadOf(queue'[r]) = u
      BY <1>1, <2>1, <2>5, RadioSetHead
    <3>2. QED
      BY <1>3, <2>1, <3>1
  <2>6. CASE r \notin took
    <3>1. queue'[r] = SetHead(q, t) /\ attempts'[r] = attempts[r] /\ lastSent'[r] = lastSent[r]
      BY <1>1, <1>2, <1>6, <2>6, Zenon
    <3>2. /\ queue'[r] \in QueuesOf(PktTypes) /\ RadioOrder(r)'
          /\ queue'[r].count > 0 /\ ~(queue'[r].count = 0) /\ HeadOf(queue'[r]) = t
      BY <2>2, <2>5, <3>1
    <3>3. attempts'[r] <= t.retry_count + 0 + wraps'
      BY <1>3, <2>3, <2>4, <3>1
    <3>4. RadioHead(r)'
      BY <2>1, <2>3, <3>1, <3>2, <3>3 DEF RadioInv, RadioHead
    <3>5. QED
      BY <1>3, <1>4, <3>1, <3>2, <3>4
  <2>7. CASE r \in took
    <3> DEFINE u == Fragmented(t, zero)
    <3>1. /\ queue'[r] = SetHead(q, u)
          /\ lastSent'[r] = [pkt |-> t.pkt, index |-> t.seq_index, last |-> r \in done]
      BY <1>1, <1>6, <2>7
    <3>2. /\ t.seq_index > 0 => /\ lastSent[r].pkt = t.pkt
                                /\ lastSent[r].index = t.seq_index - 1
                                /\ lastSent[r].last = FALSE
      <4>1. t.seq_index > 0 =>
              lastSent[r] = [pkt |-> t.pkt, index |-> t.seq_index - 1, last |-> FALSE]
        BY <2>1 DEF RadioInv, RadioHead
      <4>2. QED
        BY <4>1
    <3>3. \/ lastSent'[r].index = 0
          \/ /\ lastSent'[r].pkt = lastSent[r].pkt
             /\ lastSent'[r].index = lastSent[r].index + 1
             /\ ~lastSent[r].last
      BY <2>3, <3>1, <3>2
    <3>4. CASE final
      <4>1. r \in done /\ attempts'[r] = attempts[r] + 1
        BY <1>1, <1>2, <1>6, <2>7, <3>4
      <4>2. /\ u \in TransactionsOf(PktTypes) /\ u.active = TRUE /\ u.pkt = t.pkt
            /\ u.retry_count = t.retry_count /\ u.seq_index = 0 /\ u.waiting = ~zero
        BY <2>2, <3>4, FragmentedLast
      <4> HIDE DEF u
      <4>3. /\ queue'[r] \in QueuesOf(PktTypes) /\ RadioOrder(r)'
            /\ queue'[r].count > 0 /\ ~(queue'[r].count = 0) /\ HeadOf(queue'[r]) = u
        BY <2>5, <3>1, <4>2
      <4>4. RadioHead(r)'
        <5>1. CASE zero
          <6>1. attempts'[r] <= u.retry_count + 0 + wraps'
            BY <1>1, <1>3, <2>3, <2>4, <4>1, <4>2, <5>1
          <6>2. u.waiting = FALSE
            BY <4>2, <5>1, Zenon
          <6>3. QED
            BY <4>2, <4>3, <6>1, <6>2 DEF RadioHead
        <5>2. CASE ~zero
          <6>1. attempts'[r] <= u.retry_count + 1 + wraps'
            BY <1>1, <1>3, <2>3, <2>4, <4>1, <4>2, <5>2
          <6>2. u.waiting = TRUE
            BY <4>2, <5>2, Zenon
          <6>3. QED
            BY <4>2, <4>3, <6>1, <6>2 DEF RadioHead
        <5>3. QED
          BY <5>1, <5>2
      <4>5. lastSent'[r] \in [pkt : 0..MaxPackets, index : Nat, last : BOOLEAN]
        BY <2>3, <3>1
      <4>6. QED
        BY <1>3, <3>3, <4>1, <4>3, <4>4, <4>5
    <3>5. CASE ~final
      <4>1. r \notin done /\ attempts'[r] = attempts[r]
        BY <1>1, <1>2, <3>5
      <4>2. /\ u \in TransactionsOf(PktTypes) /\ u.active = t.active /\ u.pkt = t.pkt
            /\ u.retry_count = t.retry_count /\ u.seq_index = t.seq_index + 1
            /\ u.waiting = t.waiting
        BY <2>2, <3>5, FragmentedMore
      <4> HIDE DEF u
      <4>3. u.active = TRUE /\ u.waiting = FALSE
        BY <2>2, <2>3, <4>2
      <4>4. /\ queue'[r] \in QueuesOf(PktTypes) /\ RadioOrder(r)'
            /\ queue'[r].count > 0 /\ ~(queue'[r].count = 0) /\ HeadOf(queue'[r]) = u
        BY <2>5, <3>1, <4>2, <4>3
      <4>5. lastSent'[r] = [pkt |-> u.pkt, index |-> u.seq_index - 1, last |-> FALSE]
        <5>1. u.seq_index - 1 = t.seq_index /\ (r \in done) = FALSE
          BY <2>3, <4>1, <4>2
        <5>2. QED
          BY <3>1, <4>2, <5>1
      <4>6. attempts'[r] <= u.retry_count + 0 + wraps'
        BY <1>3, <2>3, <2>4, <4>1, <4>2
      <4>7. RadioHead(r)'
        BY <4>3, <4>4, <4>5, <4>6 DEF RadioHead
      <4>8. lastSent'[r] \in [pkt : 0..MaxPackets, index : Nat, last : BOOLEAN]
        BY <2>3, <3>1
      <4>9. QED
        BY <1>3, <3>3, <4>1, <4>4, <4>7, <4>8
    <3>6. QED
      BY <3>4, <3>5
  <2>8. QED
    BY <2>6, <2>7
<1>7. QED
  BY <1>5, <1>6

LEMMA RadioTxProcessKeeps ==
  ASSUME RadioInv, NEW took \in SUBSET Radios, NEW zero \in BOOLEAN, TxProcess(took, zero)
  PROVE  RadioInv' /\ SendsInOrder
<1> DEFINE done == {r \in Radios : Completes(r, took)}
<1>1. /\ UNCHANGED <<radio_direct_transaction_id, offered, refused, sentTo, closed>>
      /\ mid_task' = FALSE /\ (zero => wraps < MaxWraps)
      /\ wraps' = IF zero THEN wraps + 1 ELSE wraps
      /\ elapsed' = [r \in Radios |-> IF r \in done THEN 0 ELSE elapsed[r]]
  BY DEF TxProcess
<1>2. /\ queue' \in [Radios -> QueuesOf(PktTypes)] /\ attempts' \in [Radios -> Nat]
      /\ lastSent' \in [Radios -> [pkt : 0..MaxPackets, index : Nat, last : BOOLEAN]]
  <2>1. ASSUME NEW r \in Radios
        PROVE  /\ queue'[r] \in QueuesOf(PktTypes) /\ attempts'[r] \in Nat
               /\ lastSent'[r] \in [pkt : 0..MaxPackets, index : Nat, last : BOOLEAN]
    BY RadioSentKeeps
  <2>2. /\ \E f : queue' = [r \in Radios |-> f[r]]
        /\ \E f : attempts' = [r \in Radios |-> f[r]]
        /\ \E f : lastSent' = [r \in Radios |-> f[r]]
    <3>1. /\ queue' = [r \in Radios |-> queue'[r]]
          /\ attempts' = [r \in Radios |-> attempts'[r]]
          /\ lastSent' = [r \in Radios |-> lastSent'[r]]
      BY DEF TxProcess
    <3>2. QED
      BY <3>1
  <2>3. QED
    BY <2>1, <2>2
<1>3. done \subseteq {r \in Radios : queue[r].count > 0}
  BY DEF Completes, Sending
<1>4. /\ acks' \subseteq [radio : Radios, pkt : Packets, type : PktTypes, status : {OK, REJECT}]
      /\ heard' \subseteq Packets
  <2>1. PICK answering \in SUBSET done : \E status \in [answering -> {OK, REJECT}] :
          /\ acks' = acks \cup {[radio |-> r, pkt |-> HeadOf(queue[r]).pkt,
                                 type |-> HeadOf(queue[r]).type,
                                 status |-> status[r]] : r \in answering}
          /\ heard' = heard \cup {HeadOf(queue[r]).pkt : r \in answering}
    BY DEF TxProcess
  <2>2. ASSUME NEW r \in answering
        PROVE  /\ r \in Radios /\ HeadOf(queue[r]).pkt \in Packets
               /\ HeadOf(queue[r]).type \in PktTypes
    <3>1. r \in Radios /\ queue[r].count > 0
      BY <1>3
    <3>2. HeadOf(queue[r]) \in TransactionsOf(PktTypes) /\ HeadOf(queue[r]).pkt \in Packets
      BY <3>1, RadioHeadFacts
    <3>3. QED
      BY <3>1, <3>2 DEF TransactionsOf
  <2>3. QED
    BY <2>1, <2>2 DEF RadioInv, RadioTypes
<1>5. RadioTypes'
  <2>1. elapsed' \in [Radios -> 0..AckTimeout]
    BY <1>1, NumberFacts DEF RadioInv, RadioTypes
  <2>2. wraps' \in 0..MaxWraps
    BY <1>1, RadioTxAssumption DEF RadioInv, RadioTypes
  <2>3. QED
    BY <1>1, <1>2, <1>4, <2>1, <2>2 DEF RadioInv, RadioTypes
<1>6. RadioHistory'
  BY <1>1 DEF RadioInv, RadioHistory
<1>7. \A r \in Radios : RadioOrder(r)' /\ RadioHead(r)'
  BY RadioSentKeeps
<1>8. SendsInOrder
  BY RadioSentKeeps DEF SendsInOrder
<1>9. QED
  BY <1>5, <1>6, <1>7, <1>8 DEF RadioInv

LEMMA RadioNextKeeps ==
  ASSUME RadioInv, Next \/ UNCHANGED vars
  PROVE  RadioInv' /\ SendsInOrder
<1>1. lastSent' = lastSent => SendsInOrder
  BY DEF SendsInOrder
<1>2. CASE \E r \in Radios : Send(r)
  BY <1>1, <1>2, RadioSendKeeps
<1>3. CASE AckProcess
  BY <1>1, <1>3, RadioAckProcessKeeps
<1>4. CASE \E took \in SUBSET Radios, zero \in BOOLEAN : TxProcess(took, zero)
  BY <1>4, RadioTxProcessKeeps
<1>5. CASE \E a \in acks : AckReceived(a)
  BY <1>1, <1>5, RadioAckReceivedKeeps
<1>6. CASE (\E a \in acks : LoseAck(a)) \/ Tick \/ UNCHANGED vars
  BY <1>1, <1>6, RadioQuietKeeps
<1>7. QED
  BY <1>2, <1>3, <1>4, <1>5, <1>6 DEF Next

-----------------------------------------------------------------------------
(* The three together *)

TxInv == RadioInv /\ SmocipInv /\ NmsInv

LEMMA TxInvInit == TxInit => TxInv
  BY RadioInit, SmocipInit, NmsInit DEF TxInit, TxInv

\* A step of one of the three is a stutter of the others.
LEMMA TxNextKeeps ==
  ASSUME TxInv, [TxNext]_txVars
  PROVE  TxInv' /\ SendsInOrder /\ S!SendsInOrder /\ N!CountsRetries
<1>1. /\ Next \/ UNCHANGED vars
      /\ S!Next \/ UNCHANGED sVars
      /\ N!Next \/ UNCHANGED nVars
  BY DEF TxNext, RadioStep, SmocipStep, NmsStep, txVars
<1>2. RadioInv' /\ SendsInOrder
  BY <1>1, RadioNextKeeps DEF TxInv
<1>3. SmocipInv' /\ S!SendsInOrder
  BY <1>1, SmocipNextKeeps DEF TxInv
<1>4. NmsInv' /\ N!CountsRetries
  BY <1>1, NmsNextKeeps DEF TxInv
<1>5. QED
  BY <1>2, <1>3, <1>4 DEF TxInv

\* The inductive invariant holds in every reachable state.
THEOREM Invariance == TxFairSpec => []TxInv
<1>1. TxInit => TxInv
  BY TxInvInit
<1>2. TxInv /\ [TxNext]_txVars => TxInv'
  BY TxNextKeeps
<1>3. QED
  BY <1>1, <1>2, PTL DEF TxFairSpec, TxSpec

\* A message that NMS.c reports as confirmed was heard by the gateway, whose
\* OK it is that came back, and not an OK to an older message with the same
\* transaction id.
THEOREM ConfirmedMeansHeard == TxFairSpec => []NmsConfirmedWasHeard
<1>1. TxInv => NmsConfirmedWasHeard
  BY NmsInvSays DEF TxInv, NmsConfirmedWasHeard
<1>2. QED
  BY <1>1, Invariance, PTL

\* Whatever ACKs, rejections and timeouts pop, each queue is the list of the
\* packets that were accepted and have not left, in order, and its head alone
\* is active.
THEOREM QueuesKeepOrder == TxFairSpec => []QueuesInOrder
<1>1. TxInv => QueuesInOrder
  BY RadioInvSays, SmocipInvSays, NmsInvSays DEF TxInv, QueuesInOrder, TypesOK
<1>2. QED
  BY <1>1, Invariance, PTL

\* A fragment on the buses is followed by the next one of the same packet, or
\* by a first fragment.
THEOREM PacketsGoWhole == TxFairSpec => FragmentsInOrder
<1>1. TxInv /\ [TxNext]_txVars => [SendsInOrder /\ S!SendsInOrder]_txVars
  BY TxNextKeeps
<1>2. QED
  BY <1>1, Invariance, PTL DEF FragmentsInOrder, TxFairSpec, TxSpec

\* No packet goes out more often than once and its retries (and the radios'
\* and SMOCIP's transmissions that ended at system_ms = 0), and NMS.c drops a
\* message only after all of them.
THEOREM RetriesAreBounded == TxFairSpec => RetriesAreCounted
<1>1. TxInv => RepeatsAreCounted /\ S!RepeatsAreCounted
  BY RadioInvSays, SmocipInvSays DEF TxInv
<1>2. TxInv /\ [TxNext]_txVars => N!CountsRetries
  BY TxNextKeeps
<1>3. QED
  BY <1>1, <1>2, Invariance, PTL DEF RetriesAreCounted, TxFairSpec, TxSpec

-----------------------------------------------------------------------------
(* The queue as its caller sees it *)

LEMMA LineFacts ==
  ASSUME NEW types, NEW q \in QueuesOf(types)
  PROVE  /\ Line(q) \in Seq(0..MaxPackets) /\ Len(Line(q)) = q.count
         /\ q.count \in Nat /\ DOMAIN Line(q) = 1..q.count
         /\ \A k \in 1..q.count : Line(q)[k] = Queued(q, k - 1).pkt
<1>1. q.count \in Nat /\ q.count <= QueueSize /\ QueueSize \in Nat
  BY NumberFacts DEF QueuesOf
<1>2. \A k \in 1..q.count : QueuedPkt(q, k - 1) = Queued(q, k - 1).pkt
  BY DEF QueuedPkt, Queued
<1>3. ASSUME NEW k \in 1..q.count
      PROVE  Queued(q, k - 1).pkt \in 0..MaxPackets
  <2>1. k - 1 \in 0..QueueSize
    BY <1>1
  <2>2. QueuedSlot(q, k - 1) \in Slots
    BY <2>1, SlotFacts
  <2>3. Queued(q, k - 1) \in TransactionsOf(types)
    BY <2>2 DEF Queued, QueuesOf
  <2>4. QED
    BY <2>3 DEF TransactionsOf
<1>4. Line(q) = [k \in 1..q.count |-> Queued(q, k - 1).pkt]
  BY <1>2 DEF Line
<1>5. \A k \in 1..q.count : Line(q)[k] = Queued(q, k - 1).pkt
  BY <1>4, Zenon
<1>6. Line(q) \in [1..q.count -> 0..MaxPackets] /\ DOMAIN Line(q) = 1..q.count
  <2>1. DOMAIN Line(q) = 1..q.count
    BY <1>4
  <2>2. \A k \in 1..q.count : Line(q)[k] \in 0..MaxPackets
    BY <1>3, <1>5
  <2>3. Line(q) = [k \in 1..q.count |-> Line(q)[k]]
    BY <1>4, <1>5
  <2>4. QED
    BY <2>1, <2>2, <2>3
<1>7. Line(q) \in Seq(0..MaxPackets) /\ Len(Line(q)) = q.count
  <2>1. Line(q) \in Seq(0..MaxPackets)
    BY <1>1, <1>6, SeqDef
  <2>2. Len(Line(q)) \in Nat /\ 1..Len(Line(q)) = 1..q.count
    BY <1>6, <2>1, LenProperties
  <2>3. QED
    BY <1>1, <2>1, <2>2
<1>8. QED
  BY <1>1, <1>5, <1>6, <1>7

\* A transaction that is queued comes last.
LEMMA LineOfPush ==
  ASSUME NEW types, NEW q \in QueuesOf(types), WellFormed(q), q.count < QueueSize,
         NEW t \in TransactionsOf(types), t.active = FALSE
  PROVE  Line(Push(q, t)) = Append(Line(q), t.pkt)
<1> DEFINE new == Push(q, t)
<1>1. /\ new \in QueuesOf(types) /\ new.count = q.count + 1
      /\ \A k \in 0..(q.count - 1) : Queued(new, k).pkt = Queued(q, k).pkt
      /\ Queued(new, q.count).pkt = t.pkt /\ t.pkt \in 0..MaxPackets
  <2>1. new \in QueuesOf(types) /\ new.count = q.count + 1
    BY PushFacts
  <2>2. /\ \A k \in 0..(q.count - 1) : Queued(new, k).pkt = Queued(q, k).pkt
        /\ Queued(new, q.count).pkt = t.pkt
    BY PushedPackets
  <2>3. t.pkt \in 0..MaxPackets
    BY DEF TransactionsOf
  <2>4. QED
    BY <2>1, <2>2, <2>3
<1> HIDE DEF new
<1>2. /\ Line(new) \in Seq(0..MaxPackets) /\ Len(Line(new)) = new.count
      /\ \A k \in 1..new.count : Line(new)[k] = Queued(new, k - 1).pkt
  BY <1>1, LineFacts
<1>3. /\ Line(q) \in Seq(0..MaxPackets) /\ Len(Line(q)) = q.count /\ q.count \in Nat
      /\ \A k \in 1..q.count : Line(q)[k] = Queued(q, k - 1).pkt
  BY LineFacts
<1>4. /\ Append(Line(q), t.pkt) \in Seq(0..MaxPackets)
      /\ Len(Append(Line(q), t.pkt)) = q.count + 1
      /\ \A k \in 1..q.count : Append(Line(q), t.pkt)[k] = Line(q)[k]
      /\ Append(Line(q), t.pkt)[q.count + 1] = t.pkt
  BY <1>1, <1>3, AppendProperties
<1>5. ASSUME NEW k \in 1..(q.count + 1)
      PROVE  Line(new)[k] = Append(Line(q), t.pkt)[k]
  <2>1. CASE k = q.count + 1
    BY <1>1, <1>2, <1>3, <1>4, <2>1
  <2>2. CASE k # q.count + 1
    <3>1. k \in 1..q.count /\ k - 1 \in 0..(q.count - 1)
      BY <1>3, <2>2
    <3>2. QED
      BY <1>1, <1>2, <1>3, <1>4, <3>1
  <2>3. QED
    BY <2>1, <2>2
<1>6. QED
  BY <1>1, <1>2, <1>4, <1>5, SeqEqual DEF new

\* The oldest packet is the one taken out.
LEMMA LineOfPop ==
  ASSUME NEW types, NEW q \in QueuesOf(types), WellFormed(q), q.count > 0
  PROVE  /\ Line(q) # <<>> /\ Head(Line(q)) = HeadOf(q).pkt
         /\ Line(Pop(q)) = Tail(Line(q))
<1> DEFINE new == Pop(q)
<1>1. /\ new \in QueuesOf(types) /\ new.count = q.count - 1
      /\ \A k \in 0..(q.count - 2) : Queued(new, k).pkt = Queued(q, k + 1).pkt
      /\ Queued(q, 0) = HeadOf(q)
  BY PopFacts, PoppedPackets, HeadIsQueued
<1> HIDE DEF new
<1>2. /\ Line(new) \in Seq(0..MaxPackets) /\ Len(Line(new)) = new.count
      /\ \A k \in 1..new.count : Line(new)[k] = Queued(new, k - 1).pkt
  BY <1>1, LineFacts
<1>3. /\ Line(q) \in Seq(0..MaxPackets) /\ Len(Line(q)) = q.count /\ q.count \in Nat
      /\ \A k \in 1..q.count : Line(q)[k] = Queued(q, k - 1).pkt
  BY LineFacts
<1>4. Line(q) # <<>>
  BY <1>3, EmptySeq
<1>5. /\ Tail(Line(q)) \in Seq(0..MaxPackets) /\ Len(Tail(Line(q))) = q.count - 1
      /\ \A k \in 1..(q.count - 1) : Tail(Line(q))[k] = Line(q)[k + 1]
  BY <1>3, <1>4, HeadTailProperties
<1>6. Head(Line(q)) = HeadOf(q).pkt
  <2>1. Head(Line(q)) = Line(q)[1] /\ 1 \in 1..q.count
    BY <1>3, <1>4
  <2>2. QED
    BY <1>1, <1>3, <2>1
<1>7. ASSUME NEW k \in 1..(q.count - 1)
      PROVE  Line(new)[k] = Tail(Line(q))[k]
  <2>1. k \in 1..new.count /\ k - 1 \in 0..(q.count - 2) /\ k + 1 \in 1..q.count
        /\ (k - 1) + 1 = k /\ (k + 1) - 1 = k
    BY <1>1, <1>3
  <2>2. Line(new)[k] = Queued(q, k).pkt
    BY <1>1, <1>2, <2>1
  <2>3. Tail(Line(q))[k] = Queued(q, k).pkt
    BY <1>3, <1>5, <2>1
  <2>4. QED
    BY <2>2, <2>3
<1>8. Line(new) = Tail(Line(q))
  BY <1>1, <1>2, <1>5, <1>7, SeqEqual
<1>9. QED
  BY <1>4, <1>6, <1>8 DEF new

\* What is sent and repeated stays where it is.
LEMMA LineOfSetHead ==
  ASSUME NEW types, NEW q \in QueuesOf(types), WellFormed(q), q.count > 0,
         NEW t \in TransactionsOf(types), t.active = TRUE, t.pkt = HeadOf(q).pkt
  PROVE  Line(SetHead(q, t)) = Line(q)
<1> DEFINE new == SetHead(q, t)
<1>1. /\ new \in QueuesOf(types) /\ new.count = q.count
      /\ \A k \in 0..(q.count - 1) : Queued(new, k).pkt = Queued(q, k).pkt
  BY SetHeadFacts, ReplacedPackets
<1> HIDE DEF new
<1>2. /\ Line(new) \in Seq(0..MaxPackets) /\ Len(Line(new)) = new.count
      /\ \A k \in 1..new.count : Line(new)[k] = Queued(new, k - 1).pkt
  BY <1>1, LineFacts
<1>3. /\ Line(q) \in Seq(0..MaxPackets) /\ Len(Line(q)) = q.count /\ q.count \in Nat
      /\ \A k \in 1..q.count : Line(q)[k] = Queued(q, k - 1).pkt
  BY LineFacts
<1>4. \A k \in 1..q.count : k - 1 \in 0..(q.count - 1)
  BY <1>3
<1>5. \A k \in 1..q.count : Line(new)[k] = Line(q)[k]
  BY <1>1, <1>2, <1>3, <1>4
<1>6. QED
  BY <1>1, <1>2, <1>3, <1>5, SeqEqual DEF new

LEMMA LineOfEmpty ==
  ASSUME NEW types, NEW q \in QueuesOf(types), q.count = 0
  PROVE  Line(q) = <<>>
  BY LineFacts, EmptySeq

(***************************************************************************)
(* What a step of a transmitter does to the packets in line and to those   *)
(* that have left.                                                         *)
(***************************************************************************)
Comes(line, gone, newLine, newGone, count, p) ==
  count < QueueSize /\ p \in Packets /\ newLine = Append(line, p) /\ newGone = gone

Goes(line, gone, newLine, newGone, count, p) ==
  count > 0 /\ newLine = Tail(line) /\ newGone = gone \cup {p}

Serves(line, gone, newLine, newGone, count, newest, oldest) ==
  \/ newLine = line /\ newGone = gone
  \/ Comes(line, gone, newLine, newGone, count, newest)
  \/ Goes(line, gone, newLine, newGone, count, oldest)

LEMMA SmocipServes ==
  ASSUME SmocipInv, S!Next \/ UNCHANGED sVars
  PROVE  Serves(Line(sQueue), sClosed, Line(sQueue'), sClosed', sQueue.count,
                sAccepted + 1, HeadOf(sQueue).pkt)
<1> DEFINE t == HeadOf(sQueue)
<1>1. /\ sQueue \in QueuesOf({"smocip"}) /\ WellFormed(sQueue)
      /\ sQueue.count > 0 => t \in TransactionsOf({"smocip"}) /\ t.active = TRUE
  BY SmocipFacts, SmocipHeadFacts
<1>2. CASE UNCHANGED <<sQueue, sClosed>>
  BY <1>2 DEF Serves
<1>3. CASE S!Leave /\ sQueue.count > 0
  <2>1. sQueue' = Pop(sQueue) /\ sClosed' = sClosed \cup {t.pkt}
    BY <1>3, SmocipQueueOps DEF S!Leave
  <2>2. QED
    BY <1>1, <1>3, <2>1, LineOfPop DEF Serves, Goes
<1>4. CASE S!Send
  <2>1. CASE S!Full
    BY <1>2, <1>4, <2>1 DEF S!Send
  <2>2. CASE ~S!Full
    <3> DEFINE packet == Transaction(sAccepted + 1, "smocip", sTid, Fragments[sAccepted + 1])
    <3>1. /\ sAccepted' = sAccepted + 1 /\ sQueue' = Push(sQueue, packet)
          /\ sClosed' = sClosed /\ sAccepted + sRefused < MaxPackets
      BY <1>4, <2>2, SmocipQueueOps DEF S!Send
    <3>2. sQueue.count < QueueSize
      <4>1. ~(sQueue.count >= QueueSize)
        BY <2>2, SmocipQueueOps, Zenon DEF S!Full, IsFull
      <4>2. QED
        BY <4>1, SmocipFacts
    <3>3. sAccepted + 1 \in Packets /\ sAccepted + 1 \in 0..MaxPackets
      <4>1. sRefused \in Nat
        BY NumberFacts DEF SmocipInv, SmocipTypes
      <4>2. QED
        BY <3>1, <4>1, SmocipFacts DEF Packets
    <3>4. /\ packet \in TransactionsOf({"smocip"}) /\ packet.active = FALSE
          /\ packet.pkt = sAccepted + 1
      <4>1. Fragments[sAccepted + 1] \in Nat /\ 0 \in 0..MaxRetries
        BY <3>3, TxQueueAssumption
      <4>2. sTid \in 0..(TidMod - 1)
        BY DEF SmocipInv, SmocipTypes
      <4>3. QED
        BY <3>3, <4>1, <4>2 DEF Transaction, TransactionsOf
    <3> HIDE DEF packet
    <3>5. Line(sQueue') = Append(Line(sQueue), sAccepted + 1)
      BY <1>1, <3>1, <3>2, <3>4, LineOfPush
    <3>6. QED
      BY <3>1, <3>2, <3>3, <3>5 DEF Serves, Comes
  <2>3. QED
    BY <2>1, <2>2
<1>5. ASSUME S!TimedOut
      PROVE  sQueue.count > 0
  BY <1>5, SmocipQueueOps DEF S!TimedOut, S!Waiting
<1>6. ASSUME NEW u \in TransactionsOf({"smocip"}), u.active = TRUE, u.pkt = t.pkt,
             sQueue.count > 0, sQueue' = SetHead(sQueue, u), sClosed' = sClosed
      PROVE  Line(sQueue') = Line(sQueue) /\ sClosed' = sClosed
  BY <1>1, <1>6, LineOfSetHead
<1>7. CASE S!AckProcess
  <2>1. CASE S!TimedOut /\ HeadOf(sQueue).retry_count < MaxRetries
    <3>1. ~(t.retry_count >= MaxRetries)
      BY <1>1, <1>5, <2>1, NumberFacts DEF TransactionsOf
    <3>2. sClosed' = sClosed /\ sQueue' = SetHead(sQueue, Repeated(t))
      <4>1. S!HeadOf(sQueue) = t /\ S!SetHead(sQueue, S!Repeated(t)) = SetHead(sQueue, Repeated(t))
        BY SmocipQueueOps
      <4>2. QED
        BY <1>7, <2>1, <3>1, <4>1, Zenon DEF S!AckProcess, S!Retried
    <3>3. /\ Repeated(t) \in TransactionsOf({"smocip"}) /\ Repeated(t).active = TRUE
          /\ Repeated(t).pkt = t.pkt
      BY <1>1, <1>5, <2>1, RepeatedFacts
    <3>4. QED
      BY <1>5, <1>6, <2>1, <3>2, <3>3 DEF Serves
  <2>2. CASE S!TimedOut /\ S!Leave
    BY <1>3, <1>5, <2>2
  <2>3. CASE UNCHANGED <<sQueue, sClosed>>
    BY <1>2, <2>3
  <2>4. QED
    BY <1>7, <2>1, <2>2, <2>3, SmocipQueueOps DEF S!AckProcess
<1>8. CASE \E took, zero \in BOOLEAN : S!TxProcess(took, zero)
  <2>1. PICK took \in BOOLEAN, zero \in BOOLEAN : S!TxProcess(took, zero)
    BY <1>8
  <2>2. sClosed' = sClosed
    BY <2>1 DEF S!TxProcess
  <2>3. CASE ~S!Sending
    BY <1>2, <2>1, <2>2, <2>3 DEF S!TxProcess
  <2>4. CASE S!Sending
    <3>1. sQueue.count > 0
      BY <2>4, SmocipQueueOps, Zenon DEF S!Sending, S!Waiting
    <3>2. sQueue' = SetHead(sQueue, IF took THEN Fragmented(t, zero) ELSE t)
      BY <2>1, <2>4, SmocipQueueOps, Zenon
         DEF S!TxProcess, S!SendFragment, S!AfterFragment, S!AfterRefusal, Fragmented
    <3>3. /\ Fragmented(t, zero) \in TransactionsOf({"smocip"})
          /\ Fragmented(t, zero).active = TRUE /\ Fragmented(t, zero).pkt = t.pkt
      BY <1>1, <3>1, FragmentedLast, FragmentedMore
    <3>4. QED
      BY <1>1, <1>6, <2>2, <3>1, <3>2, <3>3 DEF Serves
  <2>5. QED
    BY <2>3, <2>4
<1>9. CASE \E a \in sAcks : S!AckReceived(a)
  <2>1. (sQueue.count > 0 /\ S!Leave) \/ UNCHANGED <<sQueue, sClosed>>
    BY <1>9 DEF S!AckReceived, S!IsAnswer
  <2>2. QED
    BY <1>2, <1>3, <2>1
<1>10. CASE (\E a \in sAcks : S!LoseAck(a)) \/ S!Tick \/ UNCHANGED sVars
  BY <1>2, <1>10 DEF S!LoseAck, S!Tick, sVars
<1>11. QED
  BY <1>4, <1>7, <1>8, <1>9, <1>10 DEF S!Next

LEMMA NmsServes ==
  ASSUME NmsInv, N!Next \/ UNCHANGED nVars
  PROVE  /\ Serves(Line(nQueue), nConfirmed \cup nDropped \cup nSent, Line(nQueue'),
                   nConfirmed' \cup nDropped' \cup nSent', nQueue.count,
                   nAccepted + 1, HeadOf(nQueue).pkt)
         /\ \A p : p # HeadOf(nQueue).pkt \/ nQueue.count = 0 => NmsEnding(p)' = NmsEnding(p)
<1> DEFINE t == HeadOf(nQueue)
           gone == nConfirmed \cup nDropped \cup nSent
           newGone == nConfirmed' \cup nDropped' \cup nSent'
           Kept == \A p : p # t.pkt \/ nQueue.count = 0 => NmsEnding(p)' = NmsEnding(p)
<1>1. /\ nQueue \in QueuesOf({"nms"}) /\ WellFormed(nQueue) /\ nQueue.count \in Nat
      /\ nQueue.count > 0 => t \in TransactionsOf({"nms"}) /\ t.active = TRUE
  <2>1. nQueue.count \in 0..QueueSize
    BY NmsHeadFacts
  <2>2. nQueue.count \in Nat
    BY <2>1, NumberFacts
  <2>3. QED
    BY <2>2, NmsHeadFacts
<1>2. CASE UNCHANGED <<nQueue, nConfirmed, nDropped, nSent>>
  BY <1>2 DEF Serves, NmsEnding
<1>3. ASSUME nQueue.count > 0, nQueue' = Pop(nQueue),
             \/ nConfirmed' = nConfirmed \cup {t.pkt} /\ UNCHANGED <<nDropped, nSent>>
             \/ nDropped' = nDropped \cup {t.pkt} /\ UNCHANGED <<nConfirmed, nSent>>
             \/ nSent' = nSent \cup {t.pkt} /\ UNCHANGED <<nConfirmed, nDropped>>
      PROVE  Serves(Line(nQueue), gone, Line(nQueue'), newGone, nQueue.count,
                    nAccepted + 1, t.pkt) /\ Kept
  <2>1. Line(nQueue') = Tail(Line(nQueue))
    BY <1>1, <1>3, LineOfPop
  <2>2. newGone = gone \cup {t.pkt}
    BY <1>3
  <2>3. Kept
    BY <1>1, <1>3 DEF NmsEnding
  <2>4. QED
    BY <1>3, <2>1, <2>2, <2>3 DEF Serves, Goes
<1>4. ASSUME NEW u \in TransactionsOf({"nms"}), u.active = TRUE, u.pkt = t.pkt,
             nQueue.count > 0, nQueue' = SetHead(nQueue, u),
             UNCHANGED <<nConfirmed, nDropped, nSent>>
      PROVE  Serves(Line(nQueue), gone, Line(nQueue'), newGone, nQueue.count,
                    nAccepted + 1, t.pkt) /\ Kept
  <2>1. Line(nQueue') = Line(nQueue)
    BY <1>1, <1>4, LineOfSetHead
  <2>2. QED
    BY <1>4, <2>1 DEF Serves, NmsEnding
<1>5. CASE N!Send
  <2>1. CASE N!Full
    BY <1>2, <1>5, <2>1 DEF N!Send, N!doneVars
  <2>2. CASE ~N!Full
    <3> DEFINE packet == Transaction(nAccepted + 1, "nms", nTid, Fragments[nAccepted + 1])
    <3>1. /\ nAccepted' = nAccepted + 1 /\ nQueue' = Push(nQueue, packet)
          /\ UNCHANGED <<nConfirmed, nDropped, nSent>> /\ nAccepted + nRefused < MaxPackets
      BY <1>5, <2>2, NmsQueueOps DEF N!Send, N!doneVars
    <3>2. nQueue.count < QueueSize
      <4>1. ~(nQueue.count >= QueueSize)
        BY <2>2, NmsQueueOps, Zenon DEF N!Full, IsFull
      <4>2. QED
        BY <1>1, <4>1, NumberFacts
    <3>3. nAccepted + 1 \in Packets /\ nAccepted + 1 \in 0..MaxPackets
      <4>1. nRefused \in Nat /\ nAccepted \in Nat
        BY NumberFacts DEF NmsInv, NmsTypes
      <4>2. QED
        BY <3>1, <4>1, NumberFacts DEF Packets
    <3>4. /\ packet \in TransactionsOf({"nms"}) /\ packet.active = FALSE
          /\ packet.pkt = nAccepted + 1
      <4>1. Fragments[nAccepted + 1] \in Nat /\ 0 \in 0..MaxRetries
        BY <3>3, TxQueueAssumption
      <4>2. nTid \in 0..(TidMod - 1)
        BY DEF NmsInv, NmsTypes
      <4>3. QED
        BY <3>3, <4>1, <4>2 DEF Transaction, TransactionsOf
    <3> HIDE DEF packet
    <3>5. Line(nQueue') = Append(Line(nQueue), nAccepted + 1)
      BY <1>1, <3>1, <3>2, <3>4, LineOfPush
    <3>6. QED
      BY <3>1, <3>2, <3>3, <3>5 DEF Serves, Comes, NmsEnding
  <2>3. QED
    BY <2>1, <2>2
<1>6. CASE N!AckProcess
  <2>1. /\ nSent' = nSent
        /\ nConfirmed' = (IF N!Confirms THEN nConfirmed \cup {t.pkt} ELSE nConfirmed)
        /\ nDropped' = (IF ~N!Confirms /\ nQueue'.count < nQueue.count
                        THEN nDropped \cup {t.pkt} ELSE nDropped)
    BY <1>6, NmsQueueOps DEF N!AckProcess
  <2>2. CASE ~N!Confirms /\ nQueue' = nQueue
    <3>1. ~(nQueue'.count < nQueue.count)
      BY <1>1, <2>2
    <3>2. UNCHANGED <<nQueue, nConfirmed, nDropped, nSent>>
      BY <2>1, <2>2, <3>1
    <3>3. QED
      BY <1>2, <3>2
  <2>3. CASE nQueue.count > 0 /\ nQueue' = Pop(nQueue)
    <3>1. nQueue'.count < nQueue.count
      <4>1. nQueue'.count = nQueue.count - 1
        BY <1>1, <2>3, PopFacts
      <4>2. QED
        BY <1>1, <4>1
    <3>2. QED
      BY <1>3, <2>1, <2>3, <3>1
  <2>4. CASE /\ ~N!Confirms /\ nQueue.count > 0
             /\ t.retry_count < MaxRetries /\ nQueue' = SetHead(nQueue, Repeated(t))
    <3>1. /\ Repeated(t) \in TransactionsOf({"nms"}) /\ Repeated(t).active = TRUE
          /\ Repeated(t).pkt = t.pkt
      BY <1>1, <2>4, RepeatedFacts
    <3>2. nQueue'.count = nQueue.count
      BY <1>1, <2>4, <3>1, SetHeadFacts
    <3>3. UNCHANGED <<nConfirmed, nDropped, nSent>>
      BY <1>1, <2>1, <2>4, <3>2
    <3>4. QED
      BY <1>4, <2>4, <3>1, <3>3
  <2>5. QED
    BY <1>6, <2>2, <2>3, <2>4, NmsAckOutcomes, NmsAnswerIsTrue
<1>7. CASE \E took \in BOOLEAN : N!TxProcess(took)
  <2>1. PICK took \in BOOLEAN : N!TxProcess(took)
    BY <1>7
  <2>2. UNCHANGED <<nConfirmed, nDropped>>
    BY <2>1 DEF N!TxProcess
  <2>3. CASE ~(N!Sending /\ took)
    BY <1>2, <2>1, <2>2, <2>3 DEF N!TxProcess
  <2>4. CASE N!Sending /\ took
    <3> DEFINE final == t.seq_index + 1 >= t.total
    <3>1. nQueue.count > 0
      BY <2>4, NmsQueueOps, Zenon DEF N!Sending
    <3>2. /\ nQueue' = N!AfterFragment(nQueue)
          /\ nSent' = (IF nQueue'.count < nQueue.count THEN nSent \cup {t.pkt} ELSE nSent)
      BY <2>1, <2>4, NmsQueueOps DEF N!TxProcess, N!SendFragment
    <3>3. /\ ~final => nQueue' = SetHead(nQueue, [t EXCEPT !.seq_index = @ + 1])
          /\ final /\ t.pkt \in AckRequired =>
               nQueue' = SetHead(nQueue, [t EXCEPT !.seq_index = 0, !.waiting = TRUE])
          /\ final /\ t.pkt \notin AckRequired => nQueue' = Pop(nQueue)
      <4>1. t.seq_index \in Nat /\ t.total \in Nat
        BY <1>1, <3>1 DEF TransactionsOf
      <4>2. ~final <=> t.seq_index + 1 < t.total
        BY <4>1
      <4>3. QED
        BY <3>2, <4>2, NmsQueueOps DEF N!AfterFragment, N!WantsAck
    <3> HIDE DEF final
    <3>4. ASSUME NEW u \in TransactionsOf({"nms"}), u.active = TRUE, u.pkt = t.pkt,
                 nQueue' = SetHead(nQueue, u)
          PROVE  nSent' = nSent
      <4>1. nQueue'.count = nQueue.count
        BY <1>1, <3>1, <3>4, SetHeadFacts
      <4>2. QED
        BY <1>1, <3>2, <4>1
    <3>5. CASE ~final
      <4> DEFINE u == [t EXCEPT !.seq_index = @ + 1]
      <4>1. u \in TransactionsOf({"nms"}) /\ u.active = TRUE /\ u.pkt = t.pkt
        BY <1>1, <3>1 DEF TransactionsOf
      <4>2. nQueue' = SetHead(nQueue, u)
        BY <3>3, <3>5
      <4> HIDE DEF u
      <4>3. QED
        BY <1>4, <2>2, <3>1, <3>4, <4>1, <4>2
    <3>6. CASE final /\ t.pkt \in AckRequired
      <4> DEFINE u == [t EXCEPT !.seq_index = 0, !.waiting = TRUE]
      <4>1. u \in TransactionsOf({"nms"}) /\ u.active = TRUE /\ u.pkt = t.pkt
        BY <1>1, <3>1 DEF TransactionsOf
      <4>2. nQueue' = SetHead(nQueue, u)
        BY <3>3, <3>6
      <4> HIDE DEF u
      <4>3. QED
        BY <1>4, <2>2, <3>1, <3>4, <4>1, <4>2
    <3>7. CASE final /\ t.pkt \notin AckRequired
      <4>1. nQueue' = Pop(nQueue)
        BY <3>3, <3>7
      <4>2. nQueue'.count < nQueue.count
        <5>1. nQueue'.count = nQueue.count - 1
          BY <1>1, <3>1, <4>1, PopFacts
        <5>2. QED
          BY <1>1, <5>1
      <4>3. QED
        BY <1>3, <2>2, <3>1, <3>2, <4>1, <4>2
    <3>8. QED
      BY <3>5, <3>6, <3>7
  <2>5. QED
    BY <2>3, <2>4
<1>8. CASE (\E a \in nAcks : N!HandleAck(a) \/ N!LoseAck(a)) \/ N!Tick \/ UNCHANGED nVars
  BY <1>2, <1>8 DEF N!HandleAck, N!LoseAck, N!Tick, N!doneVars, nVars
<1>9. QED
  BY <1>5, <1>6, <1>7, <1>8 DEF N!Next

LEMMA RadioServes ==
  ASSUME RadioInv, Next \/ UNCHANGED vars, NEW r \in Radios
  PROVE  Serves(Line(queue[r]), PacketsOf(r) \cap closed,
                Line(queue'[r]), PacketsOf(r)' \cap closed',
                queue[r].count, offered + 1, HeadOf(queue[r]).pkt)
<1> DEFINE q == queue[r]
           t == HeadOf(queue[r])
<1>1. /\ q \in QueuesOf(PktTypes) /\ WellFormed(q) /\ q.count \in Nat
      /\ q.count > 0 => /\ t \in TransactionsOf(PktTypes) /\ t.active = TRUE
                        /\ t.pkt \in PacketsOf(r)
  BY RadioFacts, RadioHeadFacts
<1>2. ASSUME queue'[r] = q, PacketsOf(r)' \cap closed' = PacketsOf(r) \cap closed
      PROVE  Serves(Line(q), PacketsOf(r) \cap closed, Line(queue'[r]),
                    PacketsOf(r)' \cap closed', q.count, offered + 1, t.pkt)
  BY <1>2 DEF Serves
<1>3. ASSUME NEW u \in TransactionsOf(PktTypes), u.active = TRUE, u.pkt = t.pkt,
             q.count > 0, queue'[r] = SetHead(q, u),
             PacketsOf(r)' \cap closed' = PacketsOf(r) \cap closed
      PROVE  Serves(Line(q), PacketsOf(r) \cap closed, Line(queue'[r]),
                    PacketsOf(r)' \cap closed', q.count, offered + 1, t.pkt)
  <2>1. Line(queue'[r]) = Line(q)
    BY <1>1, <1>3, LineOfSetHead
  <2>2. QED
    BY <1>3, <2>1 DEF Serves
<1>4. ASSUME q.count > 0, queue'[r] = Pop(q), sentTo' = sentTo,
             PacketsOf(r) \cap closed' \subseteq closed \cup {t.pkt},
             t.pkt \in closed', closed \subseteq closed'
      PROVE  Serves(Line(q), PacketsOf(r) \cap closed, Line(queue'[r]),
                    PacketsOf(r)' \cap closed', q.count, offered + 1, t.pkt)
  <2>1. Line(queue'[r]) = Tail(Line(q))
    BY <1>1, <1>4, LineOfPop
  <2>2. PacketsOf(r)' = PacketsOf(r)
    BY <1>4 DEF PacketsOf
  <2>3. PacketsOf(r) \cap closed' = (PacketsOf(r) \cap closed) \cup {t.pkt}
    BY <1>1, <1>4
  <2>4. QED
    BY <1>4, <2>1, <2>2, <2>3 DEF Serves, Goes
<1>5. ASSUME sentTo' = sentTo
      PROVE  PacketsOf(r)' = PacketsOf(r)
  BY <1>5 DEF PacketsOf
<1>6. ASSUME NEW s \in Radios, Send(s)
      PROVE  Serves(Line(q), PacketsOf(r) \cap closed, Line(queue'[r]),
                    PacketsOf(r)' \cap closed', q.count, offered + 1, t.pkt)
  <2> DEFINE p == offered + 1
             packet == Transaction(p, TypeOf[p], radio_direct_transaction_id, Fragments[p])
  <2>1. p \in Packets /\ closed' = closed
    BY <1>6 DEF Send
  <2>2. p \notin closed /\ p \in 0..MaxPackets
    <3>1. p \notin 1..offered /\ p \in 0..MaxPackets
      BY <2>1, RadioFacts DEF Packets
    <3>2. QED
      BY <3>1 DEF RadioInv, RadioHistory
  <2>3. CASE Full(queue[s])
    <3>1. UNCHANGED <<queue, sentTo>>
      BY <1>6, <2>3 DEF Send
    <3>2. QED
      BY <1>2, <1>5, <2>1, <3>1
  <2>4. CASE ~Full(queue[s])
    <3>1. /\ queue' = [queue EXCEPT ![s] = Push(queue[s], packet)]
          /\ sentTo' = [k \in DOMAIN sentTo \cup {p} |-> IF k = p THEN s ELSE sentTo[k]]
      BY <1>6, <2>4 DEF Send
    <3>2. PacketsOf(r)' \cap closed' = PacketsOf(r) \cap closed
      <4>1. \A k \in closed : k # p
        BY <2>2
      <4>2. \A k : k # p => (k \in PacketsOf(r)' <=> k \in PacketsOf(r))
        BY <3>1 DEF PacketsOf
      <4>3. QED
        BY <2>1, <4>1, <4>2
    <3>3. CASE r # s
      BY <1>2, <3>1, <3>2, <3>3 DEF RadioInv, RadioTypes
    <3>4. CASE r = s
      <4>1. queue'[r] = Push(q, packet)
        BY <3>1, <3>4 DEF RadioInv, RadioTypes
      <4>2. q.count < QueueSize
        <5>1. ~(q.count >= QueueSize)
          BY <2>4, <3>4, Zenon DEF Full, IsFull
        <5>2. QED
          BY <5>1, RadioFacts
      <4>3. packet \in TransactionsOf(PktTypes) /\ packet.active = FALSE /\ packet.pkt = p
        <5>1. /\ Fragments[p] \in Nat /\ TypeOf[p] \in PktTypes /\ 0 \in 0..MaxRetries
              /\ radio_direct_transaction_id \in 0..(TidMod - 1)
          BY <2>1, TxQueueAssumption, RadioTxAssumption DEF RadioInv, RadioTypes
        <5>2. QED
          BY <2>2, <5>1 DEF Transaction, TransactionsOf
      <4> HIDE DEF packet
      <4>4. Line(queue'[r]) = Append(Line(q), p)
        BY <1>1, <4>1, <4>2, <4>3, LineOfPush
      <4>5. QED
        BY <2>1, <3>2, <4>2, <4>4 DEF Serves, Comes
    <3>5. QED
      BY <3>3, <3>4
  <2>5. QED
    BY <2>3, <2>4
<1>7. CASE AckProcess
  <2>1. /\ queue'[r] = AfterAckProcess(r) /\ sentTo' = sentTo
        /\ closed' = closed \cup {HeadOf(queue[s]).pkt : s \in Dropped}
    BY <1>7 DEF AckProcess
  <2>2. /\ PacketsOf(r) \cap closed' \subseteq closed \cup {t.pkt}
        /\ r \notin Dropped => PacketsOf(r) \cap closed' = PacketsOf(r) \cap closed
        /\ r \in Dropped => t.pkt \in closed'
        /\ closed \subseteq closed'
    BY <2>1, DroppedFacts, ClosedOfOthers
  <2>3. r \in Dropped <=> AfterAckProcess(r).count < q.count
    BY DEF Dropped
  <2>4. CASE /\ q.count > 0 /\ t.retry_count < MaxRetries
             /\ AfterAckProcess(r) = SetHead(q, Repeated(t))
    <3>1. /\ Repeated(t) \in TransactionsOf(PktTypes) /\ Repeated(t).active = TRUE
          /\ Repeated(t).pkt = t.pkt
      BY <1>1, <2>4, RepeatedFacts
    <3>2. AfterAckProcess(r).count = q.count
      <4>1. SetHead(q, Repeated(t)).count = q.count
        BY <1>1, <2>4, <3>1, SetHeadFacts
      <4>2. QED
        BY <2>4, <4>1
    <3>3. PacketsOf(r)' \cap closed' = PacketsOf(r) \cap closed
      BY <1>1, <1>5, <2>1, <2>2, <2>3, <3>2
    <3>4. QED
      BY <1>3, <2>1, <2>4, <3>1, <3>3
  <2>5. CASE q.count > 0 /\ AfterAckProcess(r) = Pop(q)
    <3>1. r \in Dropped
      <4>1. Pop(q).count = q.count - 1
        BY <1>1, <2>5, PopFacts
      <4>2. QED
        BY <1>1, <2>3, <2>5, <4>1
    <3>2. QED
      BY <1>4, <2>1, <2>2, <2>5, <3>1
  <2>6. CASE AfterAckProcess(r) = q
    <3>1. r \notin Dropped
      BY <1>1, <2>3, <2>6
    <3>2. QED
      BY <1>2, <1>5, <2>1, <2>2, <2>6, <3>1
  <2>7. QED
    BY <2>4, <2>5, <2>6, AfterAckProcessFacts
<1>8. CASE \E took \in SUBSET Radios, zero \in BOOLEAN : TxProcess(took, zero)
  <2>1. PICK took \in SUBSET Radios, zero \in BOOLEAN : TxProcess(took, zero)
    BY <1>8
  <2>2. /\ queue'[r] = (IF ~Sending(r) THEN q
                        ELSE SetHead(q, IF r \in took THEN Fragmented(t, zero) ELSE t))
        /\ sentTo' = sentTo /\ closed' = closed
    BY <2>1, Zenon DEF TxProcess, AfterFragment, AfterRefusal, Fragmented
  <2>3. PacketsOf(r)' \cap closed' = PacketsOf(r) \cap closed
    BY <1>5, <2>2
  <2>4. CASE ~Sending(r)
    BY <1>2, <2>2, <2>3, <2>4
  <2>5. CASE Sending(r)
    <3>1. q.count > 0
      BY <2>5 DEF Sending
    <3>2. /\ Fragmented(t, zero) \in TransactionsOf(PktTypes)
          /\ Fragmented(t, zero).active = TRUE /\ Fragmented(t, zero).pkt = t.pkt
      BY <1>1, <3>1, FragmentedLast, FragmentedMore
    <3>3. QED
      BY <1>1, <1>3, <2>2, <2>3, <2>5, <3>1, <3>2
  <2>6. QED
    BY <2>4, <2>5
<1>9. ASSUME NEW a \in acks, AckReceived(a)
      PROVE  Serves(Line(q), PacketsOf(r) \cap closed, Line(queue'[r]),
                    PacketsOf(r)' \cap closed', q.count, offered + 1, t.pkt)
  <2> DEFINE s == a.radio
  <2>1. sentTo' = sentTo /\ s \in Radios
    BY <1>9 DEF AckReceived, RadioInv, RadioTypes
  <2>2. CASE ~IsAnswer(a)
    BY <1>2, <1>5, <1>9, <2>1, <2>2 DEF AckReceived
  <2>3. CASE IsAnswer(a)
    <3>1. /\ queue[s].count > 0
          /\ queue' = [queue EXCEPT ![s] = Pop(queue[s])]
          /\ closed' = closed \cup {HeadOf(queue[s]).pkt}
      BY <1>9, <2>3 DEF AckReceived, IsAnswer
    <3>2. /\ PacketsOf(r) \cap closed' \subseteq closed \cup {t.pkt}
          /\ r \notin {s} => PacketsOf(r) \cap closed' = PacketsOf(r) \cap closed
          /\ r \in {s} => t.pkt \in closed'
          /\ closed \subseteq closed'
      <4>1. {s} \in SUBSET Radios /\ \A z \in {s} : queue[z].count > 0
        BY <2>1, <3>1
      <4>2. closed' = closed \cup {HeadOf(queue[z]).pkt : z \in {s}}
        BY <3>1
      <4> HIDE DEF s
      <4>3. QED
        BY <4>1, <4>2, ClosedOfOthers
    <3>3. CASE r = s
      <4>1. queue'[r] = Pop(q) /\ q.count > 0
        BY <3>1, <3>3 DEF RadioInv, RadioTypes
      <4>2. QED
        BY <1>4, <2>1, <3>2, <3>3, <4>1
    <3>4. CASE r # s
      <4>1. queue'[r] = q
        BY <3>1, <3>4 DEF RadioInv, RadioTypes
      <4>2. QED
        BY <1>2, <1>5, <2>1, <3>2, <3>4, <4>1
    <3>5. QED
      BY <3>3, <3>4
  <2>4. QED
    BY <2>2, <2>3
<1>10. CASE (\E a \in acks : LoseAck(a)) \/ Tick \/ UNCHANGED vars
  BY <1>2, <1>5, <1>10 DEF LoseAck, Tick, vars
<1>11. QED
  BY <1>6, <1>7, <1>8, <1>9, <1>10 DEF Next

\* A packet that comes is newer than those in line and those that have left.
LEMMA SmocipNewest ==
  ASSUME SmocipInv
  PROVE  /\ \A k \in DOMAIN Line(sQueue) : Line(sQueue)[k] < sAccepted + 1
         /\ \A p \in sClosed : p < sAccepted + 1
<1>1. /\ DOMAIN Line(sQueue) = 1..sQueue.count
      /\ \A k \in 1..sQueue.count : Line(sQueue)[k] = Queued(sQueue, k - 1).pkt
  BY SmocipFacts, LineFacts
<1>2. sQueue.count \in Nat /\ SmocipGone \in Nat /\ sAccepted \in Nat /\ SmocipGone <= sAccepted
  BY SmocipFacts DEF SmocipGone
<1>3. ASSUME NEW k \in 1..sQueue.count
      PROVE  Line(sQueue)[k] < sAccepted + 1
  <2>1. k - 1 \in 0..(sQueue.count - 1)
    BY <1>2
  <2>2. Line(sQueue)[k] = SmocipGone + 1 + (k - 1)
    BY <1>1, <2>1 DEF SmocipInv, SmocipOrder
  <2>3. QED
    BY <1>2, <2>2 DEF SmocipGone
<1>4. QED
  BY <1>1, <1>2, <1>3 DEF SmocipInv, SmocipOrder

LEMMA NmsNewest ==
  ASSUME NmsInv
  PROVE  /\ \A k \in DOMAIN Line(nQueue) : Line(nQueue)[k] < nAccepted + 1
         /\ \A p \in nConfirmed \cup nDropped \cup nSent : p < nAccepted + 1
<1>1. /\ DOMAIN Line(nQueue) = 1..nQueue.count
      /\ \A k \in 1..nQueue.count : Line(nQueue)[k] = Queued(nQueue, k - 1).pkt
  BY NmsHeadFacts, LineFacts
<1>2. nQueue.count \in Nat /\ NmsGone \in Nat /\ nAccepted \in Nat /\ NmsGone <= nAccepted
  <2>1. nQueue.count \in 0..QueueSize /\ NmsGone \in Nat
    BY NmsHeadFacts
  <2>2. nQueue.count \in Nat /\ nAccepted \in Nat
    BY <2>1, NumberFacts DEF NmsInv, NmsTypes
  <2>3. QED
    BY <2>1, <2>2 DEF NmsGone
<1>3. ASSUME NEW k \in 1..nQueue.count
      PROVE  Line(nQueue)[k] < nAccepted + 1
  <2>1. k - 1 \in 0..(nQueue.count - 1)
    BY <1>2
  <2>2. Line(nQueue)[k] = NmsGone + 1 + (k - 1)
    BY <1>1, <2>1 DEF NmsInv, NmsOrder
  <2>3. QED
    BY <1>2, <2>2 DEF NmsGone
<1>4. QED
  BY <1>1, <1>2, <1>3 DEF NmsInv, NmsLeft

LEMMA RadioNewest ==
  ASSUME RadioInv, NEW r \in Radios
  PROVE  /\ \A k \in DOMAIN Line(queue[r]) : Line(queue[r])[k] < offered + 1
         /\ \A p \in PacketsOf(r) \cap closed : p < offered + 1
<1>1. /\ DOMAIN Line(queue[r]) = 1..queue[r].count
      /\ \A k \in 1..queue[r].count : Line(queue[r])[k] = Queued(queue[r], k - 1).pkt
  BY RadioFacts, LineFacts
<1>2. \A p \in DOMAIN sentTo : p < offered + 1
  BY RadioFacts DEF RadioInv, RadioHistory
<1>3. ASSUME NEW k \in 1..queue[r].count
      PROVE  Line(queue[r])[k] \in DOMAIN sentTo
  <2>1. k - 1 \in 0..(queue[r].count - 1)
    BY RadioFacts
  <2>2. Queued(queue[r], k - 1).pkt \in PacketsOf(r)
    BY <2>1 DEF RadioInv, RadioOrder
  <2>3. QED
    BY <1>1, <2>2 DEF PacketsOf
<1>4. QED
  BY <1>1, <1>2, <1>3 DEF PacketsOf

\* A step of a transmitter is a step of the ordered service.
LEMMA RadioServiceStep ==
  ASSUME RadioInv, Next \/ UNCHANGED vars
  PROVE  [RadioService!Next]_(RadioService!vars)
<1> DEFINE line == Line(queue[radio1])
           gone == PacketsOf(radio1) \cap closed
           out == [p \in gone |-> "left"]
           t == HeadOf(queue[radio1])
<1>1. Serves(line, gone, line', gone', queue[radio1].count, offered + 1, t.pkt)
  BY RadioServes, MCTransmittersAssumption
<1>2. CASE line' = line /\ gone' = gone
  BY <1>2 DEF RadioService!vars
<1>3. CASE Comes(line, gone, line', gone', queue[radio1].count, offered + 1)
  <2>1. /\ \A k \in DOMAIN line : line[k] < offered + 1
        /\ \A p \in gone : p < offered + 1
        /\ Len(line) = queue[radio1].count
    BY RadioNewest, RadioFacts, LineFacts, MCTransmittersAssumption
  <2>2. /\ Len(line) < QueueSize /\ offered + 1 \in Packets
        /\ line' = Append(line, offered + 1) /\ out' = out /\ DOMAIN out = gone
    BY <1>3, <2>1 DEF Comes
  <2>3. RadioService!Accept
    BY <2>1, <2>2 DEF RadioService!Accept
  <2>4. QED
    BY <2>3 DEF RadioService!Next
<1>4. CASE Goes(line, gone, line', gone', queue[radio1].count, t.pkt)
  <2>1. line # <<>> /\ Head(line) = t.pkt
    <3>1. queue[radio1].count > 0
      BY <1>4 DEF Goes
    <3>2. QED
      BY <3>1, RadioFacts, LineOfPop, MCTransmittersAssumption
  <2>2. /\ line' = Tail(line) /\ DOMAIN out = gone
        /\ out' = [p \in gone \cup {Head(line)} |-> IF p = Head(line) THEN "left" ELSE out[p]]
    BY <1>4, <2>1 DEF Goes
  <2>3. RadioService!Close
    BY <2>1, <2>2 DEF RadioService!Close
  <2>4. QED
    BY <2>3 DEF RadioService!Next
<1>5. QED
  BY <1>1, <1>2, <1>3, <1>4 DEF Serves

LEMMA SmocipServiceStep ==
  ASSUME SmocipInv, S!Next \/ UNCHANGED sVars
  PROVE  [SmocipService!Next]_(SmocipService!vars)
<1> DEFINE line == Line(sQueue)
           out == [p \in sClosed |-> "left"]
           t == HeadOf(sQueue)
<1>1. Serves(line, sClosed, line', sClosed', sQueue.count, sAccepted + 1, t.pkt)
  BY SmocipServes
<1>2. CASE line' = line /\ sClosed' = sClosed
  BY <1>2 DEF SmocipService!vars
<1>3. CASE Comes(line, sClosed, line', sClosed', sQueue.count, sAccepted + 1)
  <2>1. /\ \A k \in DOMAIN line : line[k] < sAccepted + 1
        /\ \A p \in sClosed : p < sAccepted + 1
        /\ Len(line) = sQueue.count
    BY SmocipNewest, SmocipFacts, LineFacts
  <2>2. /\ Len(line) < QueueSize /\ sAccepted + 1 \in Packets
        /\ line' = Append(line, sAccepted + 1) /\ out' = out /\ DOMAIN out = sClosed
    BY <1>3, <2>1 DEF Comes
  <2>3. SmocipService!Accept
    BY <2>1, <2>2 DEF SmocipService!Accept
  <2>4. QED
    BY <2>3 DEF SmocipService!Next
<1>4. CASE Goes(line, sClosed, line', sClosed', sQueue.count, t.pkt)
  <2>1. line # <<>> /\ Head(line) = t.pkt
    <3>1. sQueue.count > 0
      BY <1>4 DEF Goes
    <3>2. QED
      BY <3>1, SmocipFacts, LineOfPop
  <2>2. /\ line' = Tail(line) /\ DOMAIN out = sClosed
        /\ out' = [p \in sClosed \cup {Head(line)} |-> IF p = Head(line) THEN "left" ELSE out[p]]
    BY <1>4, <2>1 DEF Goes
  <2>3. SmocipService!Close
    BY <2>1, <2>2 DEF SmocipService!Close
  <2>4. QED
    BY <2>3 DEF SmocipService!Next
<1>5. QED
  BY <1>1, <1>2, <1>3, <1>4 DEF Serves

LEMMA NmsServiceStep ==
  ASSUME NmsInv, N!Next \/ UNCHANGED nVars
  PROVE  [NmsService!Next]_(NmsService!vars)
<1> DEFINE line == Line(nQueue)
           gone == nConfirmed \cup nDropped \cup nSent
           out == [p \in gone |-> NmsEnding(p)]
           t == HeadOf(nQueue)
<1>1. /\ Serves(line, gone, line', gone', nQueue.count, nAccepted + 1, t.pkt)
      /\ \A p : p # t.pkt \/ nQueue.count = 0 => NmsEnding(p)' = NmsEnding(p)
  BY NmsServes
<1>2. nQueue.count = 0 \/ (nQueue.count > 0 /\ t.pkt = NmsGone + 1)
  <2>1. nQueue.count \in 0..QueueSize
    BY NmsHeadFacts
  <2>2. nQueue.count = 0 \/ nQueue.count > 0
    BY <2>1, NumberFacts
  <2>3. nQueue.count > 0 => t.pkt = NmsGone + 1
    BY NmsHeadFacts
  <2>4. QED
    BY <2>2, <2>3
<1>3. \A p \in gone : NmsEnding(p)' = NmsEnding(p)
  <2>1. gone = 1..NmsGone /\ NmsGone \in Nat
    BY NmsHeadFacts DEF NmsInv, NmsLeft
  <2>2. QED
    BY <1>1, <1>2, <2>1
<1>4. CASE line' = line /\ gone' = gone
  <2>1. out' = out
    BY <1>3, <1>4
  <2>2. QED
    BY <1>4, <2>1 DEF NmsService!vars
<1>5. CASE Comes(line, gone, line', gone', nQueue.count, nAccepted + 1)
  <2>1. /\ \A k \in DOMAIN line : line[k] < nAccepted + 1
        /\ \A p \in gone : p < nAccepted + 1
        /\ Len(line) = nQueue.count
    BY NmsNewest, NmsHeadFacts, LineFacts
  <2>2. out' = out /\ DOMAIN out = gone
    BY <1>3, <1>5 DEF Comes
  <2>3. /\ Len(line) < QueueSize /\ nAccepted + 1 \in Packets
        /\ line' = Append(line, nAccepted + 1)
    BY <1>5, <2>1 DEF Comes
  <2>4. NmsService!Accept
    BY <2>1, <2>2, <2>3 DEF NmsService!Accept
  <2>5. QED
    BY <2>4 DEF NmsService!Next
<1>6. CASE Goes(line, gone, line', gone', nQueue.count, t.pkt)
  <2>1. line # <<>> /\ Head(line) = t.pkt
    <3>1. nQueue.count > 0
      BY <1>6 DEF Goes
    <3>2. QED
      BY <3>1, NmsHeadFacts, LineOfPop
  <2>2. NmsEnding(t.pkt)' \in {"confirmed", "dropped", "sent"}
    BY DEF NmsEnding
  <2>3. \E e \in {"confirmed", "dropped", "sent"} :
          out' = [p \in gone \cup {Head(line)} |-> IF p = Head(line) THEN e ELSE out[p]]
    <3> DEFINE Ends(p) == IF p \in nConfirmed' THEN "confirmed"
                          ELSE IF p \in nDropped' THEN "dropped" ELSE "sent"
    <3>1. out' = [p \in gone' |-> Ends(p)]
      BY DEF NmsEnding
    <3>2. gone' = gone \cup {Head(line)}
      BY <1>6, <2>1 DEF Goes
    <3>3. \A p \in gone : Ends(p) = out[p]
      BY <1>3 DEF NmsEnding
    <3>4. Ends(Head(line)) \in {"confirmed", "dropped", "sent"}
      OBVIOUS
    <3> HIDE DEF Ends
    <3>5. out' = [p \in gone \cup {Head(line)} |->
                    IF p = Head(line) THEN Ends(Head(line)) ELSE out[p]]
      BY <3>1, <3>2, <3>3
    <3>6. QED
      BY <3>4, <3>5
  <2>4. line' = Tail(line) /\ DOMAIN out = gone
    BY <1>6 DEF Goes
  <2>5. NmsService!Close
    BY <2>1, <2>3, <2>4 DEF NmsService!Close
  <2>6. QED
    BY <2>5 DEF NmsService!Next
<1>7. QED
  BY <1>1, <1>4, <1>5, <1>6 DEF Serves

\* Nothing is in line and nothing has left when the transmitters start.
LEMMA ServicesBegin ==
  ASSUME TxInit
  PROVE  RadioService!Init /\ SmocipService!Init /\ NmsService!Init
<1>1. RadioInv /\ SmocipInv /\ NmsInv
  BY TxInvInit DEF TxInv
<1>2. RadioService!Init
  <2>1. queue[radio1].count = 0 /\ closed = {}
    BY MCTransmittersAssumption DEF TxInit, Init, EmptyQueue
  <2>2. Line(queue[radio1]) = <<>>
    BY <1>1, <2>1, RadioFacts, LineOfEmpty, MCTransmittersAssumption
  <2>3. PacketsOf(radio1) \cap closed = {}
    BY <2>1
  <2>4. QED
    BY <2>2, <2>3 DEF RadioService!Init
<1>3. SmocipService!Init
  <2>1. sQueue.count = 0 /\ sClosed = {}
    BY SmocipQueueOps DEF TxInit, S!Init, EmptyQueue
  <2>2. Line(sQueue) = <<>>
    BY <1>1, <2>1, SmocipFacts, LineOfEmpty
  <2>3. QED
    BY <2>1, <2>2 DEF SmocipService!Init
<1>4. NmsService!Init
  <2>1. nQueue.count = 0 /\ nConfirmed \cup nDropped \cup nSent = {}
    BY NmsQueueOps DEF TxInit, N!Init, EmptyQueue
  <2>2. Line(nQueue) = <<>>
    BY <1>1, <2>1, NmsHeadFacts, LineOfEmpty
  <2>3. QED
    BY <2>1, <2>2 DEF NmsService!Init
<1>5. QED
  BY <1>2, <1>3, <1>4

\* Each queue, whatever comes together in one run of the tasks, is to its
\* callers the bounded service in order that the event log is too: what
\* leaves is the oldest packet, once and one at a time
\* (radio_pop_transaction, smocip_pop_transaction, nms_pop_transaction).
THEOREM SendersServeInOrder == TxFairSpec => QueuesServeInOrder
<1>1. TxInit => RadioService!Init /\ SmocipService!Init /\ NmsService!Init
  BY ServicesBegin
<1>2. TxInv /\ [TxNext]_txVars => /\ [RadioService!Next]_(RadioService!vars)
                                  /\ [SmocipService!Next]_(SmocipService!vars)
                                  /\ [NmsService!Next]_(NmsService!vars)
  <2>1. ASSUME TxInv, [TxNext]_txVars
        PROVE  /\ Next \/ UNCHANGED vars
               /\ S!Next \/ UNCHANGED sVars
               /\ N!Next \/ UNCHANGED nVars
    BY <2>1 DEF TxNext, RadioStep, SmocipStep, NmsStep, txVars
  <2>2. QED
    BY <2>1, RadioServiceStep, SmocipServiceStep, NmsServiceStep DEF TxInv
<1>3. [TxNext]_txVars /\ QueuesInOrder' => [QueuesInOrder']_txVars
  OBVIOUS
<1>4. QED
  BY <1>1, <1>2, <1>3, Invariance, QueuesKeepOrder, PTL
     DEF TxFairSpec, TxSpec, QueuesServeInOrder, RadioService!Spec, SmocipService!Spec,
         NmsService!Spec
=============================================================================
