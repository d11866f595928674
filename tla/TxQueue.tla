------------------------------ MODULE TxQueue ------------------------------
(***************************************************************************)
(* The queue of outgoing transactions that radio.c, SMOCIP.c and NMS.c     *)
(* each keep: a ring with a head, a tail and a count, whose head entry is  *)
(* the one being transmitted.  An entry knows the packet it carries, which *)
(* of its fragments comes next, and how often it has been repeated.        *)
(***************************************************************************)
EXTENDS Naturals

CONSTANTS
  QueueSize,    \* *_TRANSACTION_QUEUE_SIZE
  TidMod,       \* transaction ids are counted modulo this (16)
  MaxRetries,   \* *_ACK_MAX_RETRIES
  AckTimeout,   \* *_ACK_TIMEOUT_MS, in ticks
  Fragments,    \* the number of CAN fragments of each packet
  MaxPackets    \* bound: packets offered in a behaviour

Packets == 1..MaxPackets

ASSUME TxQueueAssumption ==
  /\ QueueSize \in Nat \ {0}
  /\ TidMod \in Nat \ {0}
  /\ MaxRetries \in Nat
  /\ AckTimeout \in Nat \ {0}
  /\ MaxPackets \in Nat
  /\ Fragments \in [Packets -> Nat \ {0}]

Slots == 0..(QueueSize - 1)

NextSlot(i) == IF i + 1 >= QueueSize THEN 0 ELSE i + 1

\* A transaction as it is queued: nothing sent, no retry, no timer.
Transaction(pkt, type, tid, total) ==
  [pkt |-> pkt, type |-> type, tid |-> tid, total |-> total,
   seq_index |-> 0, retry_count |-> 0, active |-> FALSE, waiting |-> FALSE]

EmptyQueue(none) == [slot |-> [i \in Slots |-> none], head |-> 0, tail |-> 0, count |-> 0]

IsFull(q) == q.count >= QueueSize

HeadOf(q) == q.slot[q.head]

SetHead(q, t) == [q EXCEPT !.slot[q.head] = t]

\* Queue a transaction; the only one in the queue is active at once.
Push(q, t) ==
  [q EXCEPT !.slot[q.tail] = [t EXCEPT !.active = (q.count = 0)],
            !.tail = NextSlot(q.tail),
            !.count = @ + 1]

\* A transaction that comes to the head starts from its first fragment.
Started(t) ==
  [t EXCEPT !.active = TRUE, !.seq_index = 0, !.retry_count = 0, !.waiting = FALSE]

\* A slip, used in place of Pop to make a property fail: the transaction
\* behind the head is not started.
PopWithoutStart(q) ==
  [q EXCEPT !.slot[q.head].active = FALSE, !.head = NextSlot(q.head), !.count = @ - 1]

\* Take the head out and start the one behind it.
Pop(q) ==
  LET left == [q EXCEPT !.slot[q.head].active = FALSE,
                        !.head = NextSlot(q.head),
                        !.count = @ - 1]
  IN IF left.count > 0 THEN SetHead(left, Started(HeadOf(left))) ELSE left

\* The retry of the complete packet, from its first fragment.
Repeated(t) ==
  [t EXCEPT !.retry_count = @ + 1, !.seq_index = 0, !.waiting = FALSE]

\* The packets queued, oldest first.
QueuedSlot(q, k) == IF q.head + k < QueueSize THEN q.head + k ELSE q.head + k - QueueSize
QueuedPkt(q, k) == q.slot[QueuedSlot(q, k)].pkt
Line(q) == [k \in 1..q.count |-> QueuedPkt(q, k - 1)]
=============================================================================
