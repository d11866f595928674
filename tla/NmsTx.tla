------------------------------- MODULE NmsTx -------------------------------
(***************************************************************************)
(* Messages for the network management system (Drivers/NMS.c): a queue     *)
(* whose head message is sent one CAN fragment per run of v_5msTasks.  Not *)
(* every message wants an ACK; one that does waits for it, is repeated on  *)
(* a timeout or at once on a bad status, and is dropped after the last     *)
(* retry.                                                                  *)
(*                                                                         *)
(* An ACK is handled in two steps: nms_ack_rx_handle stores it in a latch  *)
(* of one place, and nms_ack_process, in the next run of v_5msTasks, acts  *)
(* on what the latch then holds.  ACKs are of two kinds: the short one has *)
(* the transaction id, the fragmented one (Annexure G) has the sequence    *)
(* number of the message too, and is always good.  A fragmented ACK is one *)
(* event here: its last fragment.                                          *)
(*                                                                         *)
(* A message is its number in the order of acceptance, and that is also    *)
(* its sequence number.                                                    *)
(***************************************************************************)
EXTENDS TxQueue, FiniteSets

CONSTANT AckRequired   \* messages for which nms_message_requires_ack holds

VARIABLES
  queue,                    \* nms_transaction_queue with head, tail, count
  nms_next_transaction_id,
  nms_ack_received_flag,
  latch,                    \* nms_ack_status, _transaction_id, _sequence, ...
  elapsed,                  \* age of the timer, at most AckTimeout
  mid_task,                 \* between nms_ack_process and nms_tx_process
  \* The NMS gateway (external).
  acks,                     \* ACKs on their way to the CPU
  heard,                    \* messages it has answered with OK
  \* History.
  accepted, refused,        \* messages queued; messages a full queue refused
  confirmed, dropped, sent, \* how each message left the queue
  attempts                  \* complete transmissions of the head message

doneVars == <<confirmed, dropped, sent, attempts>>
vars == <<queue, nms_next_transaction_id, nms_ack_received_flag, latch, elapsed, mid_task,
          acks, heard, accepted, refused, doneVars>>

OK == 0    \* CPU_ACK_OK
NOK == 1

NoMessage == Transaction(0, "nms", 0, 0)
NoAck == [msg |-> 0, tid |-> 0, status |-> OK, has_sequence |-> FALSE]

(***************************************************************************)
(* Slips a programmer could make in the definitions below.  Nothing uses   *)
(* them: put in the place of the originals, they make the properties fail. *)
(***************************************************************************)

\* A fragmented ACK whose sequence number is not looked at.
IsAnswerToTid(q) ==
  q.count > 0 /\ HeadOf(q).active /\ HeadOf(q).waiting /\ HeadOf(q).tid = latch.tid

\* A retry after a bad status that is not counted.
RetryUncounted(t) == [t EXCEPT !.seq_index = 0, !.waiting = FALSE]

-----------------------------------------------------------------------------
Init ==
  /\ queue = EmptyQueue(NoMessage)
  /\ nms_next_transaction_id = 0
  /\ nms_ack_received_flag = FALSE
  /\ latch = NoAck
  /\ elapsed = 0
  /\ mid_task = FALSE
  /\ acks = {} /\ heard = {}
  /\ accepted = 0 /\ refused = 0
  /\ confirmed = {} /\ dropped = {} /\ sent = {}
  /\ attempts = 0

\* nms_queue_built_message and nms_ack_transaction_start.
Full == IsFull(queue)

Send ==
  /\ ~mid_task
  /\ accepted + refused < MaxPackets
  /\ IF Full
     THEN /\ refused' = refused + 1
          /\ UNCHANGED <<queue, nms_next_transaction_id, accepted>>
     ELSE /\ accepted' = accepted + 1
          /\ queue' = Push(queue, Transaction(accepted', "nms", nms_next_transaction_id,
                                              Fragments[accepted']))
          /\ nms_next_transaction_id' = (nms_next_transaction_id + 1) % TidMod
          /\ UNCHANGED refused
  /\ UNCHANGED <<nms_ack_received_flag, latch, elapsed, mid_task, acks, heard, doneVars>>

(***************************************************************************)
(* nms_ack_rx_handle: the latest ACK replaces one not yet acted on.        *)
(* Assumed: no short ACK is so late that its transaction id has come round *)
(* (a fragmented one may be: its sequence number tells).                   *)
(***************************************************************************)
HandleAck(a) ==
  /\ ~mid_task
  /\ queue.count > 0 /\ ~a.has_sequence => HeadOf(queue).pkt - a.msg < TidMod
  /\ nms_ack_received_flag' = TRUE
  /\ latch' = a
  /\ acks' = acks \/ acks' = acks \ {a}   \* it comes on both buses
  /\ UNCHANGED <<queue, nms_next_transaction_id, elapsed, mid_task, heard, accepted,
                 refused, doneVars>>

(***************************************************************************)
(* nms_ack_process: first what is in the latch, then the timeout of what   *)
(* is then the head.                                                       *)
(***************************************************************************)
IsAnswer(q) ==
  /\ q.count > 0
  /\ HeadOf(q).active /\ HeadOf(q).waiting
  /\ HeadOf(q).tid = latch.tid
  /\ latch.has_sequence => HeadOf(q).pkt = latch.msg

Retried(t) == Repeated(t)

\* nms_retry_or_finish
RetryOrFinish(q) ==
  IF HeadOf(q).retry_count < MaxRetries THEN SetHead(q, Retried(HeadOf(q))) ELSE Pop(q)

AfterAck(q) ==
  CASE ~nms_ack_received_flag \/ ~IsAnswer(q) -> q
    [] nms_ack_received_flag /\ IsAnswer(q) /\ latch.status = OK -> Pop(q)
    [] nms_ack_received_flag /\ IsAnswer(q) /\ latch.status # OK -> RetryOrFinish(q)

TimedOut(q) == q.count > 0 /\ HeadOf(q).waiting /\ elapsed >= AckTimeout

AfterTimeout(q) == IF TimedOut(q) THEN RetryOrFinish(q) ELSE q

Confirms == nms_ack_received_flag /\ IsAnswer(queue) /\ latch.status = OK

AckProcess ==
  /\ ~mid_task
  /\ mid_task' = TRUE
  /\ nms_ack_received_flag' = FALSE
  /\ queue' = AfterTimeout(AfterAck(queue))
  /\ confirmed' = IF Confirms THEN confirmed \cup {HeadOf(queue).pkt} ELSE confirmed
  /\ dropped' = IF ~Confirms /\ queue'.count < queue.count
                THEN dropped \cup {HeadOf(queue).pkt} ELSE dropped
  /\ attempts' = IF queue'.count < queue.count THEN 0 ELSE attempts
  /\ UNCHANGED <<nms_next_transaction_id, latch, elapsed, acks, heard, accepted, refused,
                 sent>>

(***************************************************************************)
(* nms_tx_process and nms_transaction_send_next_fragment.  A message that  *)
(* wants no ACK leaves with its last fragment.  The gateway may answer one *)
(* it has heard completely (external).                                     *)
(***************************************************************************)
Sending == queue.count > 0 /\ HeadOf(queue).active /\ ~HeadOf(queue).waiting

WantsAck(t) == t.pkt \in AckRequired

AfterFragment(q) ==
  LET t == HeadOf(q)
  IN CASE t.seq_index + 1 < t.total -> SetHead(q, [t EXCEPT !.seq_index = @ + 1])
       [] t.seq_index + 1 >= t.total /\ WantsAck(t) ->
            SetHead(q, [t EXCEPT !.seq_index = 0, !.waiting = TRUE])
       [] t.seq_index + 1 >= t.total /\ ~WantsAck(t) -> Pop(q)

GatewayAnswers(t) ==
  \/ /\ WantsAck(t)
     /\ \E a \in [msg : {t.pkt}, tid : {t.tid}, status : {OK, NOK}, has_sequence : BOOLEAN] :
          /\ a.has_sequence => a.status = OK
          /\ acks' = acks \cup {a}
          /\ heard' = IF a.status = OK THEN heard \cup {t.pkt} ELSE heard
  \/ UNCHANGED <<acks, heard>>

SendFragment ==
  LET t == HeadOf(queue)
      last == t.seq_index + 1 >= t.total
  IN /\ queue' = AfterFragment(queue)
     /\ elapsed' = IF last THEN 0 ELSE elapsed
     /\ sent' = IF queue'.count < queue.count THEN sent \cup {t.pkt} ELSE sent
     /\ attempts' = IF queue'.count < queue.count THEN 0
                    ELSE IF last THEN attempts + 1 ELSE attempts
     /\ IF last THEN GatewayAnswers(t) ELSE UNCHANGED <<acks, heard>>

TxProcess(took) ==
  /\ mid_task
  /\ mid_task' = FALSE
  /\ IF Sending /\ took
     THEN SendFragment
     ELSE UNCHANGED <<queue, elapsed, sent, attempts, acks, heard>>
  /\ UNCHANGED <<nms_next_transaction_id, nms_ack_received_flag, latch, accepted, refused,
                 confirmed, dropped>>

\* An ACK is lost (external).
LoseAck(a) ==
  /\ acks' = acks \ {a}
  /\ UNCHANGED <<queue, nms_next_transaction_id, nms_ack_received_flag, latch, elapsed,
                 mid_task, heard, accepted, refused, doneVars>>

\* rtiNotification: system_ms++.
Tick ==
  /\ elapsed < AckTimeout
  /\ elapsed' = elapsed + 1
  /\ UNCHANGED <<queue, nms_next_transaction_id, nms_ack_received_flag, latch, mid_task,
                 acks, heard, accepted, refused, doneVars>>

Next ==
  \/ Send
  \/ \E a \in acks : HandleAck(a) \/ LoseAck(a)
  \/ AckProcess
  \/ \E took \in BOOLEAN : TxProcess(took)
  \/ Tick

Spec == Init /\ [][Next]_vars

-----------------------------------------------------------------------------
(* Properties *)

Acks == [msg : 0..MaxPackets, tid : 0..(TidMod - 1), status : {OK, NOK},
         has_sequence : BOOLEAN]

TypeOK ==
  /\ queue.slot \in [Slots -> [pkt : 0..MaxPackets, type : {"nms"}, tid : 0..(TidMod - 1),
                               total : Nat, seq_index : Nat, retry_count : 0..MaxRetries,
                               active : BOOLEAN, waiting : BOOLEAN]]
  /\ queue.head \in Slots /\ queue.tail \in Slots /\ queue.count \in 0..QueueSize
  /\ nms_next_transaction_id \in 0..(TidMod - 1)
  /\ nms_ack_received_flag \in BOOLEAN /\ latch \in Acks
  /\ elapsed \in 0..AckTimeout
  /\ mid_task \in BOOLEAN
  /\ acks \subseteq Acks
  /\ heard \subseteq Packets
  /\ accepted \in 0..MaxPackets /\ refused \in 0..MaxPackets
  /\ confirmed \subseteq Packets /\ dropped \subseteq Packets /\ sent \subseteq Packets
  /\ attempts \in Nat

\* The queue is the list of the messages accepted and not yet gone, in order;
\* each leaves once, as confirmed, dropped, or sent without an ACK, and only
\* the head is active.
QueueInOrder ==
  LET gone == accepted - queue.count
  IN /\ confirmed \cup dropped \cup sent = 1..gone
     /\ Cardinality(confirmed) + Cardinality(dropped) + Cardinality(sent) = gone
     /\ sent = (1..gone) \ AckRequired
     /\ \A k \in 0..(queue.count - 1) : QueuedPkt(queue, k) = gone + 1 + k
     /\ \A i \in Slots : queue.slot[i].active <=> (queue.count > 0 /\ i = queue.head)

\* A message leaves as confirmed only if the gateway has answered it with OK,
\* although ACKs of earlier messages and attempts come late, twice, or write
\* over each other in the latch.
ConfirmedWasHeard == confirmed \subseteq heard

\* However timeouts and bad ACKs, also repeated ones, come together in one
\* run: a message goes out at most MaxRetries times more than once, and is
\* dropped only after that.
CountsRetries ==
  /\ attempts' <= MaxRetries + 1
  /\ dropped' # dropped => attempts = MaxRetries + 1

\* Every accepted message leaves the queue, with a gateway that is silent too.
EveryMessageLeaves ==
  \A m \in Packets : (m <= accepted) ~> (m \in confirmed \cup dropped \cup sent)
=============================================================================
