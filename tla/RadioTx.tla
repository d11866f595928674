------------------------------ MODULE RadioTx ------------------------------
(***************************************************************************)
(* Packets for the two radios (Drivers/radio.c).  Each radio has a queue;  *)
(* the head packet is sent one CAN fragment per run of v_5msTasks, waits   *)
(* for its ACK, is repeated on a timeout, and leaves the queue on an ACK,  *)
(* on a rejection, or after the last retry.                                *)
(*                                                                         *)
(* A packet is its number in the order of acceptance.  The timer is its    *)
(* true age; start_time = 0, which the code reads as "timer not running",  *)
(* is also what system_ms is once in 2^32 ms, so a packet completed just   *)
(* then does not start its timer (bound: MaxWraps of those instants).      *)
(* ACKs are handled before the tasks of a loop pass and not between        *)
(* radio_ack_process and radio_tx_process (mid_task).                      *)
(***************************************************************************)
EXTENDS TxQueue, FiniteSets

CONSTANTS
  Radios,
  PktTypes,     \* the acknowledged packet types: AAP, AEP, REG_TYPE1, REG_TYPE2
  TypeOf,       \* the type of each packet
  MaxWraps      \* bound: packets completed at system_ms = 0

ASSUME RadioTxAssumption ==
  /\ PktTypes # {}
  /\ TypeOf \in [Packets -> PktTypes]
  /\ MaxWraps \in Nat

VARIABLES
  queue,                        \* the transaction queue of each radio
  radio_direct_transaction_id,  \* next transaction id, shared by the radios
  elapsed,    \* age of the timer of each head packet, at most AckTimeout
  mid_task,   \* between radio_ack_process and radio_tx_process
  \* The radios (external).
  acks,       \* ACK frames on their way to the CPU
  \* History.
  offered,    \* number of packets offered to the queues
  refused,    \* packets a full queue did not take
  sentTo,     \* the radio of each accepted packet
  closed,     \* packets that left their queue
  heard,      \* packets completely received by their radio
  attempts,   \* complete transmissions of the head packet of each radio
  lastSent,   \* the last fragment on the buses for each radio
  wraps       \* completions at system_ms = 0 so far

vars == <<queue, radio_direct_transaction_id, elapsed, mid_task, acks, offered, refused,
          sentTo, closed, heard, attempts, lastSent, wraps>>

OK == 0       \* CPU_ACK_OK
REJECT == 1   \* any other status

NoPacket == [pkt |-> 0, type |-> CHOOSE t \in PktTypes : TRUE, tid |-> 0, total |-> 0,
             seq_index |-> 0, retry_count |-> 0, active |-> FALSE, waiting |-> FALSE]

(***************************************************************************)
(* Slips a programmer could make in the definitions below.  Nothing uses   *)
(* them: put in the place of the originals, they make the properties fail. *)
(***************************************************************************)

\* A fragment counted as sent though both buses refused it.
AfterRefusedFragment(t) ==
  [t EXCEPT !.seq_index = IF @ + 1 >= t.total THEN 0 ELSE @ + 1]

-----------------------------------------------------------------------------
Init ==
  /\ queue = [r \in Radios |-> EmptyQueue(NoPacket)]
  /\ radio_direct_transaction_id = 0
  /\ elapsed = [r \in Radios |-> 0]
  /\ mid_task = FALSE
  /\ acks = {}
  /\ offered = 0 /\ refused = {}
  /\ sentTo = <<>>
  /\ closed = {} /\ heard = {}
  /\ attempts = [r \in Radios |-> 0]
  /\ lastSent = [r \in Radios |-> [pkt |-> 0, index |-> 0, last |-> TRUE]]
  /\ wraps = 0

(***************************************************************************)
(* radio_send_aap, _aep, _reg_type1, _reg_type2: build the packet and      *)
(* queue it (radio_ack_transaction_start).  A full queue drops it.         *)
(***************************************************************************)
Full(q) == IsFull(q)   \* radio_queue_is_full

Send(r) ==
  LET p == offered + 1
  IN /\ ~mid_task
     /\ p \in Packets
     /\ offered' = p
     /\ IF Full(queue[r])
        THEN /\ refused' = refused \cup {p}
             /\ UNCHANGED <<queue, radio_direct_transaction_id, sentTo>>
        ELSE /\ queue' = [queue EXCEPT ![r] =
                  Push(@, Transaction(p, TypeOf[p], radio_direct_transaction_id, Fragments[p]))]
             /\ radio_direct_transaction_id' = (radio_direct_transaction_id + 1) % TidMod
             /\ sentTo' = [k \in DOMAIN sentTo \cup {p} |-> IF k = p THEN r ELSE sentTo[k]]
             /\ UNCHANGED refused
     /\ UNCHANGED <<elapsed, mid_task, acks, closed, heard, attempts, lastSent, wraps>>

(***************************************************************************)
(* radio_ack_process for both radios: on a timeout the head packet is      *)
(* repeated, and after the last retry it is dropped.                       *)
(***************************************************************************)
TimedOut(r) ==
  /\ queue[r].count > 0
  /\ HeadOf(queue[r]).active
  /\ HeadOf(queue[r]).waiting
  /\ elapsed[r] >= AckTimeout

Retried(t) == Repeated(t)

AfterAckProcess(r) ==
  LET q == queue[r]
  IN CASE q.count > 0 /\ ~HeadOf(q).active -> SetHead(q, Started(HeadOf(q)))
       [] TimedOut(r) /\ HeadOf(q).retry_count < MaxRetries -> SetHead(q, Retried(HeadOf(q)))
       [] TimedOut(r) /\ HeadOf(q).retry_count >= MaxRetries -> Pop(q)
       [] OTHER -> q

Dropped == {r \in Radios : AfterAckProcess(r).count < queue[r].count}

AckProcess ==
  /\ ~mid_task
  /\ mid_task' = TRUE
  /\ queue' = [r \in Radios |-> AfterAckProcess(r)]
  /\ closed' = closed \cup {HeadOf(queue[r]).pkt : r \in Dropped}
  /\ attempts' = [r \in Radios |-> IF r \in Dropped THEN 0 ELSE attempts[r]]
  /\ UNCHANGED <<radio_direct_transaction_id, elapsed, acks, offered, refused, sentTo,
                 heard, lastSent, wraps>>

(***************************************************************************)
(* radio_tx_process for both radios, each through                          *)
(* radio_transaction_send_next_fragment.  took: the radios whose frame a   *)
(* bus accepted.  zero: system_ms is 0 at this moment.                     *)
(***************************************************************************)
Sending(r) ==
  LET q == queue[r]
  IN /\ q.count > 0
     /\ HeadOf(q).active
     /\ ~HeadOf(q).waiting
     /\ HeadOf(q).seq_index < HeadOf(q).total

AfterFragment(t, zero) ==
  IF t.seq_index + 1 >= t.total
  THEN [t EXCEPT !.seq_index = 0, !.waiting = ~zero]
  ELSE [t EXCEPT !.seq_index = @ + 1]

AfterRefusal(t) == t

Completes(r, took) ==
  Sending(r) /\ r \in took /\ HeadOf(queue[r]).seq_index + 1 >= HeadOf(queue[r]).total

TxProcess(took, zero) ==
  LET done == {r \in Radios : Completes(r, took)}
  IN /\ mid_task
     /\ mid_task' = FALSE
     /\ zero => wraps < MaxWraps /\ done # {}
     /\ wraps' = IF zero THEN wraps + 1 ELSE wraps
     /\ queue' = [r \in Radios |->
          IF ~Sending(r) THEN queue[r]
          ELSE SetHead(queue[r], IF r \in took THEN AfterFragment(HeadOf(queue[r]), zero)
                                               ELSE AfterRefusal(HeadOf(queue[r])))]
     /\ elapsed' = [r \in Radios |-> IF r \in done THEN 0 ELSE elapsed[r]]
     /\ attempts' = [r \in Radios |-> IF r \in done THEN attempts[r] + 1 ELSE attempts[r]]
     /\ lastSent' = [r \in Radios |->
          IF Sending(r) /\ r \in took
          THEN [pkt |-> HeadOf(queue[r]).pkt, index |-> HeadOf(queue[r]).seq_index,
                last |-> r \in done]
          ELSE lastSent[r]]
     \* A radio that heard all fragments answers (external).
     /\ \E answering \in SUBSET done : \E status \in [answering -> {OK, REJECT}] :
          /\ acks' = acks \cup {[radio |-> r, pkt |-> HeadOf(queue[r]).pkt,
                                 type |-> HeadOf(queue[r]).type,
                                 status |-> status[r]] : r \in answering}
          /\ heard' = heard \cup {HeadOf(queue[r]).pkt : r \in answering}
     /\ UNCHANGED <<radio_direct_transaction_id, offered, refused, sentTo, closed>>

(***************************************************************************)
(* radio_ack_rx_handle and radio_ack_received: an ACK of the type of the   *)
(* head packet, or a rejection, removes the head.  The radio sends an ACK  *)
(* on both buses, so a handled one may come again.                         *)
(***************************************************************************)
IsAnswer(a) ==
  LET q == queue[a.radio]
  IN q.count > 0 /\ HeadOf(q).active /\ HeadOf(q).type = a.type

AckReceived(a) ==
  /\ ~mid_task
  /\ acks' = acks \/ acks' = acks \ {a}
  /\ IF IsAnswer(a)
     THEN /\ queue' = [queue EXCEPT ![a.radio] = Pop(@)]
          /\ closed' = closed \cup {HeadOf(queue[a.radio]).pkt}
          /\ attempts' = [attempts EXCEPT ![a.radio] = 0]
     ELSE UNCHANGED <<queue, closed, attempts>>
  /\ UNCHANGED <<radio_direct_transaction_id, elapsed, mid_task, offered, refused, sentTo,
                 heard, lastSent, wraps>>

\* An ACK is lost on the buses or in the receive ring (external).
LoseAck(a) ==
  /\ acks' = acks \ {a}
  /\ UNCHANGED <<queue, radio_direct_transaction_id, elapsed, mid_task, offered, refused,
                 sentTo, closed, heard, attempts, lastSent, wraps>>

\* rtiNotification: system_ms++.
Tick ==
  /\ \E r \in Radios : elapsed[r] < AckTimeout
  /\ elapsed' = [r \in Radios |-> IF elapsed[r] < AckTimeout THEN elapsed[r] + 1 ELSE elapsed[r]]
  /\ UNCHANGED <<queue, radio_direct_transaction_id, mid_task, acks, offered, refused,
                 sentTo, closed, heard, attempts, lastSent, wraps>>

Next ==
  \/ \E r \in Radios : Send(r)
  \/ AckProcess
  \/ \E took \in SUBSET Radios, zero \in BOOLEAN : TxProcess(took, zero)
  \/ \E a \in acks : AckReceived(a) \/ LoseAck(a)
  \/ Tick

Spec == Init /\ [][Next]_vars

(***************************************************************************)
(* v_5msTasks keeps running, the RTI keeps ticking, and the buses do not   *)
(* refuse the frames of a radio for ever.                                  *)
(***************************************************************************)
FairSpec ==
  /\ Spec
  /\ WF_vars(AckProcess)
  /\ WF_vars(\E took \in SUBSET Radios, zero \in BOOLEAN : TxProcess(took, zero))
  /\ \A r \in Radios :
       SF_vars(Sending(r) /\ \E took \in SUBSET Radios, zero \in BOOLEAN :
                                r \in took /\ TxProcess(took, zero))
  /\ WF_vars(Tick)

-----------------------------------------------------------------------------
(* Properties *)

Transactions ==
  [pkt : 0..MaxPackets, type : PktTypes, tid : 0..(TidMod - 1), total : Nat,
   seq_index : Nat, retry_count : 0..MaxRetries, active : BOOLEAN, waiting : BOOLEAN]

TypeOK ==
  /\ \A r \in Radios :
       /\ queue[r].slot \in [Slots -> Transactions]
       /\ queue[r].head \in Slots /\ queue[r].tail \in Slots
       /\ queue[r].count \in 0..QueueSize
  /\ radio_direct_transaction_id \in 0..(TidMod - 1)
  /\ elapsed \in [Radios -> 0..AckTimeout]
  /\ mid_task \in BOOLEAN
  /\ acks \subseteq [radio : Radios, pkt : Packets, type : PktTypes, status : {OK, REJECT}]
  /\ offered \in 0..MaxPackets
  /\ refused \subseteq Packets /\ closed \subseteq Packets /\ heard \subseteq Packets
  /\ DOMAIN sentTo \subseteq Packets /\ \A p \in DOMAIN sentTo : sentTo[p] \in Radios
  /\ attempts \in [Radios -> Nat]
  /\ lastSent \in [Radios -> [pkt : 0..MaxPackets, index : Nat, last : BOOLEAN]]
  /\ wraps \in 0..MaxWraps

PacketsOf(r) == {p \in DOMAIN sentTo : sentTo[p] = r}
QueuedOf(r) == {QueuedPkt(queue[r], k) : k \in 0..(queue[r].count - 1)}

\* Each queue holds exactly the packets accepted for its radio that have not
\* left it yet, in their order, whatever ACKs and timeouts popped; only its
\* head is active, and a waiting one has its next fragment reset.
QueueInOrder == \A r \in Radios :
  LET q == queue[r]
  IN /\ QueuedOf(r) = PacketsOf(r) \ closed
     /\ \A k \in 1..(q.count - 1) : QueuedPkt(q, k - 1) < QueuedPkt(q, k)
     /\ \A i \in Slots : q.slot[i].active <=> (q.count > 0 /\ i = q.head)
     /\ q.count > 0 /\ HeadOf(q).waiting => HeadOf(q).seq_index = 0

\* On the buses a packet is always whole fragments in order: what follows a
\* fragment is the next one of the same transmission, or a fragment 0.
SendsInOrder ==
  \A r \in Radios : lastSent'[r] # lastSent[r] =>
    \/ lastSent'[r].index = 0
    \/ /\ lastSent'[r].pkt = lastSent[r].pkt
       /\ lastSent'[r].index = lastSent[r].index + 1
       /\ ~lastSent[r].last

\* A packet goes out at most MaxRetries times more than once, save those
\* transmissions that ended at system_ms = 0 and were forgotten.
RepeatsAreCounted == \A r \in Radios : attempts[r] <= MaxRetries + 1 + wraps

\* Every accepted packet leaves its queue.
EveryPacketCloses == \A p \in Packets : (p \in DOMAIN sentTo) ~> (p \in closed)

\* radio.c:1040: "ACK must correspond to the packet currently at the head of
\* the queue."  A packet that an OK of its radio removes was heard by it.
AckCorrespondsToHead ==
  [][\A r \in Radios :
       (\E a \in acks : a.radio = r /\ AckReceived(a) /\ a.status = OK /\ IsAnswer(a))
         => HeadOf(queue[r]).pkt \in heard]_vars
=============================================================================
