------------------------------ MODULE SmocipTx ------------------------------
(***************************************************************************)
(* Packets for the station master's panel (Drivers/SMOCIP.c): one queue,   *)
(* whose head packet is sent one CAN fragment per run of v_5msTasks, is    *)
(* repeated on a timeout, and leaves on an ACK or after the last retry.    *)
(*                                                                         *)
(* An ACK is taken for the head packet whatever packet it answers and      *)
(* whatever part of the head has been sent; a bad status is ignored.  As   *)
(* in RadioTx the timer is its true age, and start_time = 0 means that it  *)
(* does not run (zero: a packet completed while system_ms is 0).           *)
(***************************************************************************)
EXTENDS TxQueue, FiniteSets

CONSTANT MaxWraps   \* bound: packets completed at system_ms = 0

VARIABLES
  queue,                       \* smocip_transaction_queue with head, tail, count
  smocip_next_transaction_id,
  elapsed,                     \* age of the timer, at most AckTimeout
  mid_task,                    \* between smocip_ack_process and smocip_tx_process
  \* The panel (external).
  acks,                        \* ACK frames on their way to the CPU
  \* History.
  accepted, refused,           \* packets queued; packets a full queue refused
  closed,                      \* packets that left the queue
  attempts,                    \* complete transmissions of the head packet
  lastSent,                    \* the last fragment on the buses
  wraps                        \* completions at system_ms = 0 so far

vars == <<queue, smocip_next_transaction_id, elapsed, mid_task, acks, accepted, refused,
          closed, attempts, lastSent, wraps>>

OK == 0    \* CPU_ACK_OK
NOK == 1

NoPacket == Transaction(0, "smocip", 0, 0)
Waiting == queue.count > 0 /\ HeadOf(queue).waiting

(***************************************************************************)
(* Slips a programmer could make in the definitions below.  Nothing uses   *)
(* them: put in the place of the originals, they make the properties fail. *)
(***************************************************************************)

\* A timeout that is not noticed once the retries are used up.
TimedOutWithRetryLeft ==
  Waiting /\ elapsed >= AckTimeout /\ HeadOf(queue).retry_count < MaxRetries

-----------------------------------------------------------------------------
Init ==
  /\ queue = EmptyQueue(NoPacket)
  /\ smocip_next_transaction_id = 0
  /\ elapsed = 0
  /\ mid_task = FALSE
  /\ acks = {}
  /\ accepted = 0 /\ refused = 0
  /\ closed = {}
  /\ attempts = 0
  /\ lastSent = [pkt |-> 0, index |-> 0, last |-> TRUE]
  /\ wraps = 0

\* smocip_send and smocip_transaction_start: a full queue drops the packet.
Full == IsFull(queue)

Send ==
  /\ ~mid_task
  /\ accepted + refused < MaxPackets
  /\ IF Full
     THEN /\ refused' = refused + 1
          /\ UNCHANGED <<queue, smocip_next_transaction_id, accepted>>
     ELSE /\ accepted' = accepted + 1
          /\ queue' = Push(queue, Transaction(accepted', "smocip", smocip_next_transaction_id,
                                              Fragments[accepted']))
          /\ smocip_next_transaction_id' = (smocip_next_transaction_id + 1) % TidMod
          /\ UNCHANGED refused
  /\ UNCHANGED <<elapsed, mid_task, acks, closed, attempts, lastSent, wraps>>

(***************************************************************************)
(* smocip_ack_process: on a timeout repeat the packet, or at last drop it. *)
(* The head is always active, so its first branch is never taken.          *)
(***************************************************************************)
TimedOut == Waiting /\ elapsed >= AckTimeout

Retried(t) == Repeated(t)

Leave ==
  /\ queue' = Pop(queue)
  /\ closed' = closed \cup {HeadOf(queue).pkt}
  /\ attempts' = 0

AckProcess ==
  /\ ~mid_task
  /\ mid_task' = TRUE
  /\ \/ /\ TimedOut /\ HeadOf(queue).retry_count < MaxRetries
        /\ queue' = SetHead(queue, Retried(HeadOf(queue)))
        /\ UNCHANGED <<closed, attempts>>
     \/ TimedOut /\ HeadOf(queue).retry_count >= MaxRetries /\ Leave
     \/ ~TimedOut /\ UNCHANGED <<queue, closed, attempts>>
  /\ UNCHANGED <<smocip_next_transaction_id, elapsed, acks, accepted, refused, lastSent,
                 wraps>>

(***************************************************************************)
(* smocip_tx_process and smocip_transaction_send_next_fragment.  A panel   *)
(* that has heard the packet answers (external).                           *)
(***************************************************************************)
AfterFragment(t, zero) ==
  IF t.seq_index + 1 >= t.total THEN [t EXCEPT !.seq_index = 0, !.waiting = ~zero]
                                ELSE [t EXCEPT !.seq_index = @ + 1]

AfterRefusal(t) == t

Sending == queue.count > 0 /\ HeadOf(queue).active /\ ~Waiting

SendFragment(took, zero) ==
  LET t == HeadOf(queue)
      last == took /\ t.seq_index + 1 >= t.total
  IN /\ zero => wraps < MaxWraps /\ last
     /\ wraps' = IF zero THEN wraps + 1 ELSE wraps
     /\ queue' = SetHead(queue, IF took THEN AfterFragment(t, zero) ELSE AfterRefusal(t))
     /\ elapsed' = IF last THEN 0 ELSE elapsed
     /\ attempts' = IF last THEN attempts + 1 ELSE attempts
     /\ lastSent' = IF took THEN [pkt |-> t.pkt, index |-> t.seq_index, last |-> last]
                            ELSE lastSent
     /\ \/ last /\ \E status \in {OK, NOK} : acks' = acks \cup {[pkt |-> t.pkt, status |-> status]}
        \/ UNCHANGED acks

TxProcess(took, zero) ==
  /\ mid_task
  /\ mid_task' = FALSE
  /\ IF Sending
     THEN SendFragment(took, zero)
     ELSE ~took /\ ~zero /\ UNCHANGED <<queue, elapsed, acks, attempts, lastSent, wraps>>
  /\ UNCHANGED <<smocip_next_transaction_id, accepted, refused, closed>>

\* smocip_ack_rx_handle and smocip_ack_received, once for each bus.
IsAnswer(a) == queue.count > 0 /\ HeadOf(queue).active /\ a.status = OK

AckReceived(a) ==
  /\ ~mid_task
  /\ acks' = acks \/ acks' = acks \ {a}
  /\ IF IsAnswer(a) THEN Leave ELSE UNCHANGED <<queue, closed, attempts>>
  /\ UNCHANGED <<smocip_next_transaction_id, elapsed, mid_task, accepted, refused, lastSent,
                 wraps>>

\* An ACK is lost (external).
LoseAck(a) ==
  /\ acks' = acks \ {a}
  /\ UNCHANGED <<queue, smocip_next_transaction_id, elapsed, mid_task, accepted, refused,
                 closed, attempts, lastSent, wraps>>

\* rtiNotification: system_ms++.
Tick ==
  /\ elapsed < AckTimeout
  /\ elapsed' = elapsed + 1
  /\ UNCHANGED <<queue, smocip_next_transaction_id, mid_task, acks, accepted, refused,
                 closed, attempts, lastSent, wraps>>

Next ==
  \/ Send
  \/ AckProcess
  \/ \E took, zero \in BOOLEAN : TxProcess(took, zero)
  \/ \E a \in acks : AckReceived(a) \/ LoseAck(a)
  \/ Tick

Spec == Init /\ [][Next]_vars

-----------------------------------------------------------------------------
(* Properties *)

TypeOK ==
  /\ queue.slot \in [Slots -> [pkt : 0..MaxPackets, type : {"smocip"}, tid : 0..(TidMod - 1),
                               total : Nat, seq_index : Nat, retry_count : 0..MaxRetries,
                               active : BOOLEAN, waiting : BOOLEAN]]
  /\ queue.head \in Slots /\ queue.tail \in Slots /\ queue.count \in 0..QueueSize
  /\ smocip_next_transaction_id \in 0..(TidMod - 1)
  /\ elapsed \in 0..AckTimeout
  /\ mid_task \in BOOLEAN
  /\ acks \subseteq [pkt : Packets, status : {OK, NOK}]
  /\ accepted \in 0..MaxPackets /\ refused \in 0..MaxPackets
  /\ closed \subseteq Packets
  /\ attempts \in Nat
  /\ lastSent \in [pkt : 0..MaxPackets, index : Nat, last : BOOLEAN]
  /\ wraps \in 0..MaxWraps

\* The queue is the list of the packets accepted and not closed, in order,
\* and packets close in order, one at a time, although an ACK may hit the
\* head in any state; only the head is active.
QueueInOrder ==
  /\ closed = 1..(accepted - queue.count)
  /\ \A k \in 0..(queue.count - 1) : QueuedPkt(queue, k) = accepted - queue.count + 1 + k
  /\ \A i \in Slots : queue.slot[i].active <=> (queue.count > 0 /\ i = queue.head)

\* What follows a fragment on the buses is the next one of the same
\* transmission, or a fragment 0: no ACK, refusal or retry tears a packet.
SendsInOrder ==
  lastSent' # lastSent =>
    \/ lastSent'.index = 0
    \/ /\ lastSent'.pkt = lastSent.pkt
       /\ lastSent'.index = lastSent.index + 1
       /\ ~lastSent.last

\* A packet goes out at most MaxRetries times more than once, save those
\* transmissions that ended at system_ms = 0 and were forgotten.
RepeatsAreCounted == attempts <= MaxRetries + 1 + wraps

\* Every accepted packet leaves the queue, with a panel that is silent too.
EveryPacketCloses == \A p \in Packets : (p <= accepted) ~> (p \in closed)
=============================================================================
