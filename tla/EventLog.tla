------------------------------ MODULE EventLog ------------------------------
(***************************************************************************)
(* The event logger of the CPU (Drivers/datalogging.c): a bounded ring of  *)
(* records, one record at a time cut into CAN fragments, sent on both      *)
(* buses, and closed by an ACK of the data logger card or by the timeout   *)
(* of the last retry.                                                      *)
(*                                                                         *)
(* Everything here but Tick runs in the main loop: records are pushed and  *)
(* ACKs are handled between two runs of v_5msTasks, which calls            *)
(* EventLog_ProcessAck and then EventLog_ProcessTx(1).  Tick is the RTI    *)
(* interrupt and may fall between any two of them.                         *)
(*                                                                         *)
(* A record is its number in the order of acceptance: its bytes are used   *)
(* only to tell records apart and to count their fragments.  Every format  *)
(* the Log_Event_ functions build is one EventLog_Serialize accepts, so    *)
(* its error returns are unreachable and are left out.                     *)
(***************************************************************************)
EXTENDS Integers, FiniteSets, Sequences

CONSTANTS
  QueueSize,    \* EVENT_LOG_QUEUE_SIZE: slots of the ring, one kept empty
  TidMod,       \* transaction ids are counted modulo this (16)
  MaxRetries,   \* EVENT_LOG_ACK_MAX_RETRIES
  AckTimeout,   \* EVENT_LOG_ACK_TIMEOUT_MS, in ticks
  ClockMod,     \* system_ms wraps here (2^32)
  MaxEvents,    \* bound: calls of EventLog_QueuePush in a behaviour
  Fragments     \* number of CAN fragments of each record

ASSUME EventLogAssumption ==
  /\ QueueSize \in Nat /\ QueueSize >= 2
  /\ TidMod \in Nat /\ TidMod >= 2
  /\ MaxRetries \in Nat
  /\ AckTimeout \in Nat \ {0}
  /\ ClockMod \in Nat /\ ClockMod > AckTimeout
  /\ MaxEvents \in Nat \ {0}
  /\ Fragments \in [1..MaxEvents -> Nat \ {0}]

Slots == 0..(QueueSize - 1)
Records == 1..MaxEvents

VARIABLES
  records, head, tail,        \* g_event_log.queue
  tx_active, tx_waiting_ack,  \* the current transaction
  tx_record,                  \* the record in tx_record_buffer (0: none yet)
  tx_fragment_index, tx_retry_count, tx_transaction_id, tx_start_time,
  next_transaction_id,
  data_logger_queue_full_count,
  system_ms,                  \* millisecond clock, advanced by the RTI
  mid_task,                   \* v_5msTasks is between ProcessAck and ProcessTx
  \* The data logger card and the buses (external).
  reassembly,                 \* what the card holds of the latest record
  stored,                     \* records the card answered OK for
  acks,                       \* ACK frames on their way to the CPU
  \* History.
  pushed,                     \* records accepted into the ring so far
  acked, failed,              \* how each closed record was closed
  attempts,                   \* complete transmissions of the current record
  age                         \* true time since the wait for an ACK began

queueVars == <<records, head, tail, data_logger_queue_full_count, pushed>>
txVars == <<tx_active, tx_waiting_ack, tx_record, tx_fragment_index,
            tx_retry_count, tx_transaction_id, tx_start_time,
            next_transaction_id, attempts>>
cardVars == <<reassembly, stored, acks>>
vars == <<queueVars, txVars, cardVars, acked, failed, age, system_ms, mid_task>>

OK == 0
NOK == 1

(***************************************************************************)
(* Slips a programmer could make in the definitions below.  Nothing uses   *)
(* them: put in the place of the originals, they make the properties fail. *)
(***************************************************************************)

\* An index that is not wrapped.
NextIndexUnwrapped(i) == i + 1

\* A timeout that is only looked at while retries are left.
TimedOutWithRetryLeft ==
  /\ tx_active /\ tx_waiting_ack /\ tx_retry_count < MaxRetries
  /\ (system_ms + ClockMod - tx_start_time) % ClockMod >= AckTimeout

\* A push that overwrites the oldest record.
NeverFull == FALSE

\* A deadline that wraps before the clock does.
PastDeadline ==
  tx_active /\ tx_waiting_ack /\ system_ms >= (tx_start_time + AckTimeout) % ClockMod

\* A retry that is not counted.
RestartUncounted ==
  /\ tx_fragment_index' = 0
  /\ tx_waiting_ack' = FALSE
  /\ tx_start_time' = 0
  /\ UNCHANGED <<tx_retry_count, tx_active, failed>>

\* A record that is given up but stays in hand.
GiveUpStillActive ==
  /\ tx_waiting_ack' = FALSE
  /\ tx_retry_count' = 0
  /\ tx_start_time' = 0
  /\ failed' = failed \cup {tx_record}
  /\ UNCHANGED <<tx_active, tx_fragment_index>>

\* An ACK whose transaction id is not looked at.
IsAnyAnswer(a) == tx_active /\ tx_waiting_ack /\ a.status = OK

(***************************************************************************)
(* Helpers of the code                                                     *)
(***************************************************************************)

\* EventLog_NextIndex
NextIndex(i) == IF i + 1 >= QueueSize THEN 0 ELSE i + 1

\* EventLog_QueueCount
QueueCount == IF head >= tail THEN head - tail ELSE QueueSize - tail + head

\* (next_transaction_id + 1U) & 0x0FU
NextTid(t) == IF t + 1 = TidMod THEN 0 ELSE t + 1

\* system_ms - tx_start_time, in unsigned arithmetic
ElapsedTime == IF system_ms >= tx_start_time
               THEN system_ms - tx_start_time
               ELSE system_ms + ClockMod - tx_start_time

\* What the card has of a record it has seen nothing of.
Nothing(r) == [rec |-> r, got |-> {}]

-----------------------------------------------------------------------------
(* EventLog_Init *)
Init ==
  /\ records = [i \in Slots |-> 0]
  /\ head = 0
  /\ tail = 0
  /\ tx_active = FALSE
  /\ tx_waiting_ack = FALSE
  /\ tx_record = 0
  /\ tx_fragment_index = 0
  /\ tx_retry_count = 0
  /\ tx_transaction_id = 0
  /\ tx_start_time = 0
  /\ next_transaction_id = 0
  /\ data_logger_queue_full_count = 0
  /\ system_ms \in 0..(ClockMod - 1)
  /\ mid_task = FALSE
  /\ reassembly = Nothing(0)
  /\ stored = {}
  /\ acks = {}
  /\ pushed = 0
  /\ acked = {}
  /\ failed = {}
  /\ attempts = 0
  /\ age = 0

(***************************************************************************)
(* EventLog_QueuePush, called by the Log_Event_ functions.  A full ring    *)
(* refuses the record and counts it; nothing is overwritten.               *)
(***************************************************************************)
RingIsFull == NextIndex(head) = tail

QueuePush ==
  /\ ~mid_task
  /\ pushed + data_logger_queue_full_count < MaxEvents
  /\ IF RingIsFull
     THEN /\ data_logger_queue_full_count' = data_logger_queue_full_count + 1
          /\ UNCHANGED <<records, head, pushed>>
     ELSE /\ pushed' = pushed + 1
          /\ records' = [records EXCEPT ![head] = pushed + 1]
          /\ head' = NextIndex(head)
          /\ UNCHANGED data_logger_queue_full_count
  /\ UNCHANGED <<tail, txVars, cardVars, acked, failed, age, system_ms, mid_task>>

(***************************************************************************)
(* EventLog_ProcessAck: on a timeout the whole record is sent again, and   *)
(* after the last retry it is given up.  The timer stays unused until the  *)
(* record is completely on the bus again.                                  *)
(***************************************************************************)
TimedOut == tx_active /\ tx_waiting_ack /\ ElapsedTime >= AckTimeout

RestartRecord ==
  /\ tx_retry_count' = tx_retry_count + 1
  /\ tx_fragment_index' = 0
  /\ tx_waiting_ack' = FALSE
  /\ tx_start_time' = 0
  /\ UNCHANGED <<tx_active, failed>>

GiveUp ==
  /\ tx_active' = FALSE
  /\ tx_waiting_ack' = FALSE
  /\ tx_retry_count' = 0
  /\ tx_start_time' = 0
  /\ failed' = failed \cup {tx_record}   \* data_logger_tx_failure_count++
  /\ UNCHANGED tx_fragment_index

ProcessAck ==
  /\ ~mid_task
  /\ mid_task' = TRUE
  /\ \/ /\ ~TimedOut
        /\ UNCHANGED <<tx_active, tx_waiting_ack, tx_retry_count, tx_fragment_index,
                       tx_start_time, failed>>
     \/ TimedOut /\ tx_retry_count < MaxRetries /\ RestartRecord
     \/ TimedOut /\ tx_retry_count >= MaxRetries /\ GiveUp
  /\ UNCHANGED <<queueVars, tx_record, tx_transaction_id, next_transaction_id,
                 attempts, cardVars, acked, age, system_ms>>

(***************************************************************************)
(* The data logger card (external): it collects the fragments it hears     *)
(* and, when the last one completes the record, answers OK or not.  It     *)
(* tells the record on the bus from the ones before it.                    *)
(***************************************************************************)
CardHears(r, i, tid) ==
  LET got == IF reassembly.rec = r THEN reassembly.got \cup {i} ELSE {i}
  IN /\ reassembly' = [rec |-> r, got |-> got]
     /\ IF i = Fragments[r] - 1 /\ got = 0..(Fragments[r] - 1)
        THEN \E status \in {OK, NOK} :
               /\ acks' = acks \cup {[rec |-> r, tid |-> tid, status |-> status]}
               /\ stored' = IF status = OK THEN stored \cup {r} ELSE stored
        ELSE UNCHANGED <<acks, stored>>

(***************************************************************************)
(* EventLog_ProcessTx(1).  SendFragment is one pass of its loop with       *)
(* fragment i of record r in hand, after n complete transmissions of r:    *)
(* DataLogger_CanTx may refuse it (both mailboxes still busy), and what a  *)
(* bus took may be lost on its way to the card.  The wait for the ACK      *)
(* begins when the last fragment is taken.                                 *)
(***************************************************************************)
SendFragment(r, i, tid, n, took) ==
  LET last == took /\ i + 1 >= Fragments[r]
  IN /\ tx_fragment_index' = IF took THEN i + 1 ELSE i
     /\ tx_waiting_ack' = last
     /\ tx_start_time' = IF last THEN system_ms ELSE 0
     /\ attempts' = IF last THEN n + 1 ELSE n
     /\ age' = IF last THEN 0 ELSE age
     /\ (took /\ CardHears(r, i, tid)) \/ UNCHANGED cardVars

\* Take the oldest record out of the ring and send its first fragment.
LoadAndSend(took) ==
  /\ ~tx_active
  /\ head # tail
  /\ tx_active' = TRUE
  /\ tx_record' = records[tail]
  /\ tail' = NextIndex(tail)
  /\ tx_retry_count' = 0
  /\ tx_transaction_id' = next_transaction_id
  /\ next_transaction_id' = NextTid(next_transaction_id)
  /\ SendFragment(records[tail], 0, next_transaction_id, 0, took)

SendNext(took) ==
  /\ tx_active
  /\ ~tx_waiting_ack
  /\ SendFragment(tx_record, tx_fragment_index, tx_transaction_id, attempts, took)
  /\ UNCHANGED <<tx_active, tx_record, tail, tx_retry_count, tx_transaction_id,
                 next_transaction_id>>

\* Nothing queued, or waiting for the ACK: return 0.
NothingToSend ==
  /\ IF tx_active THEN tx_waiting_ack ELSE head = tail
  /\ UNCHANGED <<tail, txVars, cardVars, age>>

ProcessTx(took) ==
  /\ mid_task
  /\ mid_task' = FALSE
  /\ LoadAndSend(took) \/ SendNext(took) \/ NothingToSend
  /\ UNCHANGED <<records, head, data_logger_queue_full_count, pushed, acked,
                 failed, system_ms>>

(***************************************************************************)
(* data_logger_ack_rx_handle and EventLog_AckReceived.  The card sends an  *)
(* ACK on both buses, so a handled one may come again; NOK closes nothing. *)
(* Assumed: no ACK is so late that its transaction id has come round.      *)
(***************************************************************************)
IsAnswer(a) ==
  tx_active /\ tx_waiting_ack /\ a.tid = tx_transaction_id /\ a.status = OK

AckReceived(a) ==
  /\ ~mid_task
  /\ tx_record - a.rec < TidMod
  /\ acks' = acks \/ acks' = acks \ {a}
  /\ IF IsAnswer(a)
     THEN /\ tx_active' = FALSE
          /\ tx_waiting_ack' = FALSE
          /\ tx_retry_count' = 0
          /\ tx_start_time' = 0
          /\ acked' = acked \cup {tx_record}
     ELSE UNCHANGED <<tx_active, tx_waiting_ack, tx_retry_count, tx_start_time, acked>>
  /\ UNCHANGED <<queueVars, tx_record, tx_fragment_index, tx_transaction_id,
                 next_transaction_id, attempts, reassembly, stored, failed, age,
                 system_ms, mid_task>>

\* An ACK is lost on the bus or in the receive ring (external).
LoseAck(a) ==
  /\ acks' = acks \ {a}
  /\ UNCHANGED <<queueVars, txVars, reassembly, stored, acked, failed, age,
                 system_ms, mid_task>>

(***************************************************************************)
(* rtiNotification: system_ms++.  Bound: the clock does not run round once *)
(* (49 days) while one ACK is awaited.                                     *)
(***************************************************************************)
Tick ==
  /\ tx_waiting_ack => ElapsedTime < ClockMod - 1
  /\ system_ms' = IF system_ms + 1 = ClockMod THEN 0 ELSE system_ms + 1
  /\ age' = IF tx_waiting_ack THEN age + 1 ELSE age
  /\ UNCHANGED <<queueVars, txVars, cardVars, acked, failed, mid_task>>

Next ==
  \/ QueuePush
  \/ ProcessAck
  \/ \E took \in BOOLEAN : ProcessTx(took)
  \/ \E a \in acks : AckReceived(a) \/ LoseAck(a)
  \/ Tick

Spec == Init /\ [][Next]_vars

(***************************************************************************)
(* The main loop keeps running v_5msTasks, the RTI keeps ticking, and the  *)
(* buses do not refuse frames for ever.                                    *)
(***************************************************************************)
Fairness ==
  /\ WF_vars(ProcessAck)
  /\ WF_vars(\E took \in BOOLEAN : ProcessTx(took))
  /\ SF_vars(ProcessTx(TRUE) /\ ~NothingToSend)
  /\ WF_vars(Tick)

FairSpec == Spec /\ Fairness

-----------------------------------------------------------------------------
(* Properties *)

TypeOK ==
  /\ records \in [Slots -> 0..MaxEvents]
  /\ head \in Slots
  /\ tail \in Slots
  /\ tx_active \in BOOLEAN
  /\ tx_waiting_ack \in BOOLEAN
  /\ tx_record \in 0..MaxEvents
  /\ tx_fragment_index \in Nat
  /\ tx_retry_count \in 0..MaxRetries
  /\ tx_transaction_id \in 0..(TidMod - 1)
  /\ tx_start_time \in 0..(ClockMod - 1)
  /\ next_transaction_id \in 0..(TidMod - 1)
  /\ data_logger_queue_full_count \in 0..MaxEvents
  /\ system_ms \in 0..(ClockMod - 1)
  /\ mid_task \in BOOLEAN
  /\ reassembly \in [rec : 0..MaxEvents, got : SUBSET Nat]
  /\ stored \subseteq Records
  /\ acks \subseteq [rec : Records, tid : 0..(TidMod - 1), status : {OK, NOK}]
  /\ pushed \in 0..MaxEvents
  /\ acked \subseteq Records
  /\ failed \subseteq Records
  /\ attempts \in Nat
  /\ age \in Nat

\* The slot of the k-th oldest record in the ring (k = 0 is the oldest).
SlotOf(k) == IF tail + k < QueueSize THEN tail + k ELSE tail + k - QueueSize

\* Between the records taken out and the records accepted nothing is lost,
\* overwritten or reordered: the ring holds exactly the ones in between,
\* oldest at the tail, however head and tail have wrapped.
RingHoldsPending ==
  /\ QueueCount = pushed - tx_record
  /\ \A k \in 0..(QueueSize - 2) : k < QueueCount => records[SlotOf(k)] = tx_record + 1 + k

\* Every record taken out of the ring is closed exactly once, as confirmed
\* or as given up; only the one being transmitted is still open.
ClosedOnce ==
  /\ acked \cap failed = {}
  /\ acked \cup failed = 1..(IF tx_active THEN tx_record - 1 ELSE tx_record)

\* No false confirmation: a record EventLog_AckReceived has closed is one
\* the card has completely received and accepted, whatever ACKs of earlier
\* records and earlier attempts arrive late, twice, or with a bad status.
AckedWasStored == acked \subseteq stored

\* A record is only repeated or given up when a full timeout has truly
\* passed since its last fragment went out, also when system_ms wraps.
NoEarlyTimeout ==
  [][tx_retry_count' > tx_retry_count \/ failed' # failed => age >= AckTimeout]_vars

\* A record is given up only after the first transmission and every retry
\* went out completely, and none goes out more often.
GivesUpAfterAllRetries ==
  [][/\ attempts' <= MaxRetries + 1
     /\ failed' # failed => attempts = MaxRetries + 1]_vars

\* datalogging.h:27: "A retry retains its TRANSACTION_ID; only a new
\* logical record advances it" - and a new one always does.
TidFollowsRecord ==
  [][tx_record > 0 => (tx_transaction_id' # tx_transaction_id <=> tx_record' # tx_record)]_vars

\* Every accepted record is eventually closed.
EveryRecordCloses == \A r \in Records : pushed >= r ~> r \in acked \cup failed

-----------------------------------------------------------------------------
(* What the logger promises its callers *)

InHand == IF tx_active THEN <<tx_record>> ELSE <<>>

Service == INSTANCE OrderedService WITH
  Capacity <- QueueSize, Items <- Records, Endings <- {"acked", "failed"},
  pending <- InHand \o [k \in 1..QueueCount |-> records[SlotOf(k - 1)]],
  outcome <- [r \in acked \cup failed |-> IF r \in acked THEN "acked" ELSE "failed"]

\* The ring, the fragments and the retries implement a bounded first-in
\* first-out service that closes its records one by one in their order.
ImplementsOrderedService == Service!FairSpec

=============================================================================
