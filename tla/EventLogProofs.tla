--------------------------- MODULE EventLogProofs ---------------------------
(***************************************************************************)
(* Safety of the event logger, for every ring size, retry limit, timeout,  *)
(* clock width, transaction id range and number of events.                 *)
(***************************************************************************)
EXTENDS EventLog, FiniteSetTheorems, SequenceTheorems, TLAPS

\* The phases of a transaction, and how often its record has been sent.
TxInv ==
  /\ tx_waiting_ack => tx_active
  /\ tx_active => /\ tx_record >= 1
                  /\ attempts = IF tx_waiting_ack THEN tx_retry_count + 1 ELSE tx_retry_count
  /\ attempts <= MaxRetries + 1

\* The wrapping clock measures the true age of the wait.
TimeInv == tx_waiting_ack => age = ElapsedTime

Wrap(t) == IF t < TidMod THEN t ELSE t - TidMod

\* A young ACK is as many transaction ids behind as its record is, and an OK
\* speaks of a stored record.
AckInv ==
  /\ tx_record = 0 => acks = {}
  /\ tx_record > 0 => next_transaction_id = NextTid(tx_transaction_id)
  /\ \A a \in acks :
       /\ a.rec <= tx_record
       /\ a.status = OK => a.rec \in stored
       /\ tx_record - a.rec < TidMod =>
            tx_transaction_id = Wrap(a.tid + (tx_record - a.rec))

IInv ==
  /\ TypeOK
  /\ RingHoldsPending
  /\ TxInv
  /\ TimeInv
  /\ ClosedOnce
  /\ AckInv
  /\ AckedWasStored

-----------------------------------------------------------------------------
(* The ring *)

\* The slot behind the newest record is the head, the others are before it.
LEMMA SlotFacts ==
  ASSUME TypeOK
  PROVE  /\ QueueCount \in 0..(QueueSize - 1)
         /\ \A k \in 0..(QueueSize - 1) :
              /\ SlotOf(k) \in Slots
              /\ k = QueueCount => SlotOf(k) = head
              /\ k < QueueCount => SlotOf(k) # head
  BY EventLogAssumption DEF TypeOK, QueueCount, SlotOf, Slots

\* Advancing an index by one.
LEMMA NextIndexFacts ==
  ASSUME NEW i \in Slots
  PROVE  /\ NextIndex(i) \in Slots
         /\ NextIndex(i) = IF i = QueueSize - 1 THEN 0 ELSE i + 1
  BY EventLogAssumption DEF NextIndex, Slots

\* The part of the type invariant the ring lemmas need.
RingTypes ==
  /\ records \in [Slots -> 0..MaxEvents]
  /\ head \in Slots
  /\ tail \in Slots
  /\ tx_record \in Nat
  /\ pushed \in Nat

\* A push appends the record behind those the ring holds.
LEMMA PushKeepsRing ==
  ASSUME TypeOK, RingHoldsPending, QueuePush
  PROVE  RingHoldsPending'
<1>1. RingTypes /\ tail' = tail /\ tx_record' = tx_record
  BY DEF TypeOK, RingTypes, QueuePush, txVars
<1>2. CASE RingIsFull
  <2>1. records' = records /\ head' = head /\ pushed' = pushed
    BY <1>2 DEF QueuePush
  <2>2. QED
    BY <1>1, <2>1 DEF RingHoldsPending, QueueCount, SlotOf
<1>3. CASE ~RingIsFull
  <2>1. /\ pushed' = pushed + 1
        /\ records' = [records EXCEPT ![head] = pushed + 1]
        /\ head' = NextIndex(head)
        /\ NextIndex(head) # tail
    BY <1>3 DEF QueuePush, RingIsFull
  <2>2. QueueCount' = QueueCount + 1
    BY <1>1, <2>1, EventLogAssumption DEF NextIndex, QueueCount, RingTypes, Slots
  <2>3. QueueCount \in Nat /\ QueueCount = pushed - tx_record
    BY SlotFacts DEF RingHoldsPending
  <2>4. ASSUME NEW k \in 0..(QueueSize - 2), k < QueueCount'
        PROVE  records'[SlotOf(k)'] = tx_record + 1 + k
    <3>1. SlotOf(k)' = SlotOf(k)
      BY <1>1 DEF SlotOf
    <3>2. k \in 0..(QueueSize - 1) /\ SlotOf(k) \in Slots
      BY SlotFacts, EventLogAssumption
    <3>3. CASE k = QueueCount
      <4>1. SlotOf(k) = head
        BY <3>2, <3>3, SlotFacts
      <4>2. QED
        BY <1>1, <2>1, <2>3, <3>1, <3>3, <4>1 DEF RingTypes
    <3>4. CASE k < QueueCount
      <4>1. SlotOf(k) # head
        BY <3>2, <3>4, SlotFacts
      <4>2. QED
        BY <1>1, <2>1, <3>1, <3>2, <3>4, <4>1 DEF RingTypes, RingHoldsPending
    <3>5. QED
      BY <2>2, <2>3, <2>4, <3>3, <3>4
  <2>5. QED
    BY <1>1, <2>1, <2>2, <2>3, <2>4 DEF RingHoldsPending, RingTypes
<1>4. QED
  BY <1>2, <1>3

\* Taking out the oldest record: it is the one after the record before it.
LEMMA PopKeepsRing ==
  ASSUME TypeOK, RingHoldsPending, NEW took \in BOOLEAN, LoadAndSend(took),
         UNCHANGED <<records, head, pushed>>
  PROVE  RingHoldsPending' /\ tx_record' = tx_record + 1 /\ tx_record' <= pushed
<1>1. /\ RingTypes
      /\ head # tail
      /\ tx_record' = records[tail]
      /\ tail' = NextIndex(tail)
  BY DEF TypeOK, RingTypes, LoadAndSend
<1>2. QueueCount \in Nat /\ QueueCount <= QueueSize - 1 /\ QueueCount = pushed - tx_record
  BY SlotFacts, EventLogAssumption DEF RingHoldsPending
<1>3. QueueCount >= 1 /\ QueueCount' = QueueCount - 1
  BY <1>1, EventLogAssumption DEF NextIndex, QueueCount, RingTypes, Slots
<1>4. tx_record' = tx_record + 1
  <2>1. SlotOf(0) = tail
    BY <1>1, EventLogAssumption DEF SlotOf, RingTypes, Slots
  <2>2. 0 \in 0..(QueueSize - 2)
    BY EventLogAssumption
  <2>3. QED
    BY <1>1, <1>2, <1>3, <2>1, <2>2 DEF RingHoldsPending, RingTypes
<1>5. ASSUME NEW k \in 0..(QueueSize - 2), k < QueueCount'
      PROVE  records'[SlotOf(k)'] = tx_record' + 1 + k
  <2>1. k + 1 \in 0..(QueueSize - 2) /\ k + 1 < QueueCount
    BY <1>2, <1>3, <1>5, EventLogAssumption
  <2>2. SlotOf(k)' = SlotOf(k + 1)
    BY <1>1, EventLogAssumption DEF SlotOf, NextIndex, RingTypes, Slots
  <2>3. records[SlotOf(k + 1)] = tx_record + 1 + (k + 1)
    BY <2>1 DEF RingHoldsPending
  <2>4. QED
    BY <1>1, <1>4, <2>2, <2>3 DEF RingTypes
<1>6. QED
  BY <1>1, <1>2, <1>3, <1>4, <1>5 DEF RingHoldsPending, RingTypes

-----------------------------------------------------------------------------
(* Each action keeps the inductive invariant *)

LEMMA InitInv == Init => IInv
<1> SUFFICES ASSUME Init PROVE IInv
  OBVIOUS
<1> USE EventLogAssumption
<1>1. TypeOK
  <2>1. records \in [Slots -> 0..MaxEvents] /\ head \in Slots /\ tail \in Slots
    BY DEF Init, Slots
  <2>2. reassembly \in [rec : 0..MaxEvents, got : SUBSET Nat]
    BY DEF Init, Nothing
  <2>3. tx_active \in BOOLEAN /\ tx_waiting_ack \in BOOLEAN /\ mid_task \in BOOLEAN
    BY DEF Init
  <2>4. /\ tx_retry_count \in 0..MaxRetries
        /\ tx_start_time \in 0..(ClockMod - 1) /\ system_ms \in 0..(ClockMod - 1)
        /\ tx_transaction_id \in 0..(TidMod - 1)
        /\ next_transaction_id \in 0..(TidMod - 1)
    BY DEF Init
  <2>5. QED
    BY <2>1, <2>2, <2>3, <2>4 DEF Init, TypeOK
<1>2. RingHoldsPending
  BY DEF Init, RingHoldsPending, QueueCount
<1>3. TxInv /\ TimeInv /\ ClosedOnce /\ AckInv /\ AckedWasStored
  BY DEF Init, TxInv, TimeInv, ClosedOnce, AckInv, AckedWasStored
<1>4. QED
  BY <1>1, <1>2, <1>3 DEF IInv

LEMMA QueuePushKeeps ==
  ASSUME IInv, QueuePush
  PROVE  IInv'
<1> USE EventLogAssumption
<1>1. TypeOK'
  <2>1. head' \in Slots /\ records' \in [Slots -> 0..MaxEvents]
    BY NextIndexFacts DEF IInv, TypeOK, QueuePush
  <2>2. pushed' \in 0..MaxEvents /\ data_logger_queue_full_count' \in 0..MaxEvents
    BY DEF IInv, TypeOK, QueuePush
  <2>3. QED
    BY <2>1, <2>2 DEF IInv, TypeOK, QueuePush, txVars, cardVars
<1>2. RingHoldsPending'
  BY PushKeepsRing DEF IInv
<1>3. TxInv' /\ TimeInv' /\ ClosedOnce' /\ AckInv' /\ AckedWasStored'
  BY DEF IInv, QueuePush, txVars, cardVars, TxInv, TimeInv, ElapsedTime, ClosedOnce,
         AckInv, AckedWasStored
<1>4. QED
  BY <1>1, <1>2, <1>3 DEF IInv

LEMMA ProcessAckKeeps ==
  ASSUME IInv, ProcessAck
  PROVE  IInv'
<1> USE EventLogAssumption
<1>1. /\ UNCHANGED <<queueVars, tx_record, tx_transaction_id, next_transaction_id,
                     attempts, cardVars, acked, age, system_ms>>
      /\ mid_task' \in BOOLEAN
  BY DEF ProcessAck
<1>2. RingHoldsPending' /\ AckInv' /\ AckedWasStored'
  BY <1>1 DEF IInv, queueVars, cardVars, RingHoldsPending, QueueCount, SlotOf, AckInv,
              AckedWasStored
<1>3. CASE UNCHANGED <<tx_active, tx_waiting_ack, tx_retry_count, tx_fragment_index,
                       tx_start_time, failed>>
  <2>1. TypeOK'
    BY <1>1, <1>3 DEF IInv, TypeOK, queueVars, cardVars
  <2>2. TxInv' /\ TimeInv' /\ ClosedOnce'
    BY <1>1, <1>3 DEF IInv, TxInv, TimeInv, ElapsedTime, ClosedOnce
  <2>3. QED
    BY <1>2, <2>1, <2>2 DEF IInv
<1>4. CASE TimedOut /\ tx_retry_count < MaxRetries /\ RestartRecord
  <2>1. TypeOK'
    <3>0. tx_retry_count \in 0..MaxRetries
      BY DEF IInv, TypeOK
    <3>1. tx_retry_count' \in 0..MaxRetries /\ tx_fragment_index' \in Nat
          /\ tx_start_time' \in 0..(ClockMod - 1)
      BY <1>4, <3>0 DEF RestartRecord
    <3>2. UNCHANGED <<tx_active, failed>> /\ tx_waiting_ack' \in BOOLEAN
      BY <1>4 DEF RestartRecord
    <3>3. QED
      BY <1>1, <3>1, <3>2 DEF IInv, TypeOK, queueVars, cardVars
  <2>2. TxInv' /\ TimeInv' /\ ClosedOnce'
    BY <1>1, <1>4 DEF IInv, TypeOK, TxInv, TimeInv, ClosedOnce, RestartRecord, TimedOut
  <2>3. QED
    BY <1>2, <2>1, <2>2 DEF IInv
<1>5. CASE TimedOut /\ tx_retry_count >= MaxRetries /\ GiveUp
  <2>1. tx_record \in Records
    BY <1>5 DEF IInv, TypeOK, TxInv, TimedOut, Records
  <2>2. TypeOK'
    <3>1. tx_retry_count' \in 0..MaxRetries /\ tx_start_time' \in 0..(ClockMod - 1)
      BY <1>5 DEF GiveUp
    <3>2. tx_active' \in BOOLEAN /\ tx_waiting_ack' \in BOOLEAN
      BY <1>5 DEF GiveUp
    <3>3. failed' \subseteq Records /\ tx_fragment_index' = tx_fragment_index
      BY <1>5, <2>1 DEF IInv, TypeOK, GiveUp
    <3>4. QED
      BY <1>1, <3>1, <3>2, <3>3 DEF IInv, TypeOK, queueVars, cardVars
  <2>3. TxInv' /\ TimeInv'
    BY <1>1, <1>5 DEF IInv, TypeOK, TxInv, TimeInv, GiveUp, TimedOut
  <2>4. ClosedOnce'
    BY <1>1, <1>5, <2>1 DEF IInv, TypeOK, ClosedOnce, GiveUp, TimedOut, Records
  <2>5. QED
    BY <1>2, <2>2, <2>3, <2>4 DEF IInv
<1>6. QED
  BY <1>3, <1>4, <1>5 DEF ProcessAck

LEMMA TickKeeps ==
  ASSUME IInv, Tick
  PROVE  IInv'
<1> USE EventLogAssumption
<1>1. TypeOK'
  BY DEF IInv, TypeOK, Tick, queueVars, txVars, cardVars
<1>2. TimeInv'
  BY DEF IInv, TypeOK, Tick, txVars, TimeInv, ElapsedTime
<1>3. RingHoldsPending' /\ TxInv' /\ ClosedOnce' /\ AckInv' /\ AckedWasStored'
  BY DEF IInv, Tick, queueVars, txVars, cardVars, RingHoldsPending, QueueCount, SlotOf,
         TxInv, ClosedOnce, AckInv, AckedWasStored
<1>4. QED
  BY <1>1, <1>2, <1>3 DEF IInv

LEMMA LoseAckKeeps ==
  ASSUME IInv, NEW a \in acks, LoseAck(a)
  PROVE  IInv'
<1>1. TypeOK'
  BY DEF IInv, TypeOK, LoseAck, queueVars, txVars
<1>2. AckInv'
  BY DEF IInv, LoseAck, txVars, AckInv
<1>3. RingHoldsPending' /\ TxInv' /\ TimeInv' /\ ClosedOnce' /\ AckedWasStored'
  BY DEF IInv, LoseAck, queueVars, txVars, RingHoldsPending, QueueCount, SlotOf,
         TxInv, TimeInv, ElapsedTime, ClosedOnce, AckedWasStored
<1>4. QED
  BY <1>1, <1>2, <1>3 DEF IInv

\* An ACK that closes the current record is one for that record.
LEMMA AnswerIsForRecord ==
  ASSUME TypeOK, AckInv, NEW a \in acks, tx_record - a.rec < TidMod, IsAnswer(a)
  PROVE  a.rec = tx_record /\ a.rec \in stored
<1>1. /\ a.rec \in Nat /\ a.tid \in 0..(TidMod - 1) /\ a.rec <= tx_record
      /\ tx_record \in Nat
  BY DEF TypeOK, AckInv, Records
<1>2. tx_transaction_id = Wrap(a.tid + (tx_record - a.rec)) /\ a.rec \in stored
  BY DEF AckInv, IsAnswer
<1>3. a.tid = tx_transaction_id
  BY DEF IsAnswer
<1>4. QED
  BY <1>1, <1>2, <1>3, EventLogAssumption DEF Wrap

LEMMA AckReceivedKeeps ==
  ASSUME IInv, NEW a \in acks, AckReceived(a)
  PROVE  IInv'
<1> USE EventLogAssumption
<1>1. /\ UNCHANGED <<queueVars, tx_record, tx_fragment_index, tx_transaction_id,
                     next_transaction_id, attempts, reassembly, stored, failed, age,
                     system_ms, mid_task>>
      /\ acks' \subseteq acks
  BY DEF AckReceived
<1>2. RingHoldsPending' /\ AckInv'
  BY <1>1 DEF IInv, queueVars, RingHoldsPending, QueueCount, SlotOf, AckInv
<1>3. CASE IsAnswer(a)
  <2>1. /\ tx_active' = FALSE
        /\ tx_waiting_ack' = FALSE
        /\ tx_retry_count' = 0
        /\ tx_start_time' = 0
        /\ acked' = acked \cup {tx_record}
    BY <1>3 DEF AckReceived
  <2>2. tx_record \in Records /\ tx_record \in stored
    BY <1>3, AnswerIsForRecord DEF IInv, AckReceived, TypeOK, TxInv, IsAnswer, Records
  <2>3. TypeOK'
    <3>0. tx_retry_count' \in 0..MaxRetries /\ tx_start_time' \in 0..(ClockMod - 1)
      BY <2>1
    <3>1. tx_active' \in BOOLEAN /\ tx_waiting_ack' \in BOOLEAN
      BY <2>1
    <3>2. acked' \subseteq Records
      BY <2>1, <2>2 DEF IInv, TypeOK
    <3>3. acks' \subseteq [rec : Records, tid : 0..(TidMod - 1), status : {OK, NOK}]
      BY <1>1 DEF IInv, TypeOK
    <3>4. QED
      BY <1>1, <3>0, <3>1, <3>2, <3>3 DEF IInv, TypeOK, queueVars
  <2>4. TxInv' /\ TimeInv' /\ AckedWasStored'
    BY <1>1, <2>1, <2>2 DEF IInv, TypeOK, TxInv, TimeInv, AckedWasStored
  <2>5. ClosedOnce'
    BY <1>1, <1>3, <2>1, <2>2 DEF IInv, TypeOK, ClosedOnce, IsAnswer, Records
  <2>6. QED
    BY <1>2, <2>3, <2>4, <2>5 DEF IInv
<1>4. CASE ~IsAnswer(a)
  <2>1. UNCHANGED <<tx_active, tx_waiting_ack, tx_retry_count, tx_start_time, acked>>
    BY <1>4 DEF AckReceived
  <2>2. TypeOK'
    BY <1>1, <2>1 DEF IInv, TypeOK, queueVars
  <2>3. TxInv' /\ TimeInv' /\ ClosedOnce' /\ AckedWasStored'
    BY <1>1, <2>1 DEF IInv, TxInv, TimeInv, ElapsedTime, ClosedOnce, AckedWasStored
  <2>4. QED
    BY <1>2, <2>2, <2>3 DEF IInv
<1>5. QED
  BY <1>3, <1>4

-----------------------------------------------------------------------------
(* EventLog_ProcessTx *)

\* What sending a fragment of a record leaves of the card and of the ACKs.
LEMMA CardFacts ==
  ASSUME TypeOK, NEW r \in Records, NEW i \in Nat, NEW tid \in 0..(TidMod - 1),
         CardHears(r, i, tid) \/ UNCHANGED cardVars
  PROVE  /\ reassembly' \in [rec : 0..MaxEvents, got : SUBSET Nat]
         /\ stored \subseteq stored' /\ stored' \subseteq Records
         /\ acks \subseteq acks'
         /\ \A a \in acks' \ acks :
              /\ a \in [rec : Records, tid : 0..(TidMod - 1), status : {OK, NOK}]
              /\ a.rec = r /\ a.tid = tid
              /\ a.status = OK => a.rec \in stored'
<1> DEFINE got == IF reassembly.rec = r THEN reassembly.got \cup {i} ELSE {i}
<1>1. CASE UNCHANGED cardVars
  BY <1>1 DEF cardVars, TypeOK
<1>2. CASE CardHears(r, i, tid)
  <2>1. reassembly' \in [rec : 0..MaxEvents, got : SUBSET Nat]
    <3>1. got \in SUBSET Nat
      BY DEF TypeOK
    <3>2. reassembly' = [rec |-> r, got |-> got]
      BY <1>2 DEF CardHears
    <3>3. QED
      BY <3>1, <3>2, EventLogAssumption DEF Records
  <2>2. CASE UNCHANGED <<acks, stored>>
    BY <2>1, <2>2 DEF TypeOK
  <2>3. ASSUME NEW status \in {OK, NOK},
               acks' = acks \cup {[rec |-> r, tid |-> tid, status |-> status]},
               stored' = IF status = OK THEN stored \cup {r} ELSE stored
        PROVE  /\ stored \subseteq stored' /\ stored' \subseteq Records
               /\ acks \subseteq acks'
               /\ \A a \in acks' \ acks :
                    /\ a \in [rec : Records, tid : 0..(TidMod - 1), status : {OK, NOK}]
                    /\ a.rec = r /\ a.tid = tid
                    /\ a.status = OK => a.rec \in stored'
    BY <2>3 DEF TypeOK
  <2>4. QED
    BY <1>2, <2>1, <2>2, <2>3 DEF CardHears
<1>3. QED
  BY <1>1, <1>2

\* The wait begins only with the last fragment, at the present time.
LEMMA SendFacts ==
  ASSUME TypeOK, NEW r \in Records, NEW i \in Nat, NEW tid \in 0..(TidMod - 1),
         NEW n \in Nat, NEW took \in BOOLEAN, SendFragment(r, i, tid, n, took),
         UNCHANGED system_ms
  PROVE  /\ tx_fragment_index' \in Nat
         /\ tx_waiting_ack' \in BOOLEAN
         /\ tx_start_time' \in 0..(ClockMod - 1)
         /\ attempts' = IF tx_waiting_ack' THEN n + 1 ELSE n
         /\ age' \in Nat
         /\ TimeInv'
         /\ CardHears(r, i, tid) \/ UNCHANGED cardVars
<1> DEFINE last == took /\ i + 1 >= Fragments[r]
<1>1. /\ tx_fragment_index' = IF took THEN i + 1 ELSE i
      /\ tx_waiting_ack' = last
      /\ tx_start_time' = IF last THEN system_ms ELSE 0
      /\ attempts' = IF last THEN n + 1 ELSE n
      /\ age' = IF last THEN 0 ELSE age
      /\ CardHears(r, i, tid) \/ UNCHANGED cardVars
  BY DEF SendFragment
<1>2. last \in BOOLEAN
  OBVIOUS
<1> HIDE DEF last
<1>3. QED
  BY <1>1, <1>2, EventLogAssumption DEF TypeOK, TimeInv, ElapsedTime

\* What LoadAndSend and SendNext have in common: they send fragment i of the
\* same record as before or of the next one.
SendStep(i, took) ==
  /\ UNCHANGED <<records, head, data_logger_queue_full_count, pushed, acked,
                 failed, system_ms>>
  /\ mid_task' \in BOOLEAN
  /\ tx_active'
  /\ tail' \in Slots
  /\ tx_record' \in Records
  /\ tx_retry_count' \in 0..MaxRetries
  /\ tx_transaction_id' \in 0..(TidMod - 1)
  /\ next_transaction_id' = NextTid(tx_transaction_id')
  /\ \/ tx_active /\ UNCHANGED <<tx_record, tx_transaction_id>>
     \/ /\ ~tx_active
        /\ tx_record' = tx_record + 1
        /\ tx_record > 0 => tx_transaction_id' = NextTid(tx_transaction_id)
  /\ SendFragment(tx_record', i, tx_transaction_id', tx_retry_count', took)

\* Counting a transmission stays within the retries.
LEMMA AttemptsBound ==
  ASSUME NEW n \in 0..MaxRetries, NEW m, NEW done, m = IF done THEN n + 1 ELSE n
  PROVE  m \in Nat /\ m <= MaxRetries + 1
<1>1. MaxRetries \in Nat
  BY EventLogAssumption
<1>2. CASE done
  <2>1. m = n + 1
    BY <1>2, Zenon
  <2>2. QED
    BY <1>1, <2>1
<1>3. CASE ~done
  <2>1. m = n
    BY <1>3, Zenon
  <2>2. QED
    BY <1>1, <2>1
<1>4. QED
  BY <1>2, <1>3

\* A transaction id stays one.
LEMMA NextTidType ==
  ASSUME NEW t \in 0..(TidMod - 1)
  PROVE  NextTid(t) \in 0..(TidMod - 1)
BY EventLogAssumption DEF NextTid

\* A record later, the ACK of record r is one transaction id further behind.
LEMMA NextTidDistance ==
  ASSUME NEW tid \in 0..(TidMod - 1), NEW t \in 0..(TidMod - 1),
         NEW r \in Nat, NEW cur \in Nat, r <= cur,
         cur - r < TidMod => t = Wrap(tid + (cur - r)),
         (cur + 1) - r < TidMod
  PROVE  NextTid(t) = Wrap(tid + ((cur + 1) - r))
<1>1. TidMod \in Nat /\ TidMod >= 2
  BY EventLogAssumption
<1>2. t = Wrap(tid + (cur - r))
  BY <1>1
<1>3. QED
  BY <1>1, <1>2 DEF Wrap, NextTid

LEMMA SendKeeps ==
  ASSUME IInv, RingHoldsPending', NEW i \in Nat, NEW took \in BOOLEAN, SendStep(i, took)
  PROVE  IInv'
<1>1. TypeOK /\ AckInv
  BY DEF IInv
<1>2. tx_record' \in Records /\ tx_retry_count' \in 0..MaxRetries
      /\ tx_transaction_id' \in 0..(TidMod - 1)
  BY DEF SendStep
<1>3. tx_retry_count' \in Nat
  BY <1>2
<1>4. /\ tx_fragment_index' \in Nat
      /\ tx_waiting_ack' \in BOOLEAN
      /\ tx_start_time' \in 0..(ClockMod - 1)
      /\ attempts' = IF tx_waiting_ack' THEN tx_retry_count' + 1 ELSE tx_retry_count'
      /\ age' \in Nat
      /\ TimeInv'
      /\ CardHears(tx_record', i, tx_transaction_id') \/ UNCHANGED cardVars
  <2>1. UNCHANGED system_ms /\
        SendFragment(tx_record', i, tx_transaction_id', tx_retry_count', took)
    BY DEF SendStep
  <2>2. QED
    BY <1>1, <1>2, <1>3, <2>1, SendFacts
<1>5. /\ reassembly' \in [rec : 0..MaxEvents, got : SUBSET Nat]
      /\ stored \subseteq stored' /\ stored' \subseteq Records
      /\ acks \subseteq acks'
      /\ \A a \in acks' \ acks :
           /\ a \in [rec : Records, tid : 0..(TidMod - 1), status : {OK, NOK}]
           /\ a.rec = tx_record' /\ a.tid = tx_transaction_id'
           /\ a.status = OK => a.rec \in stored'
  BY <1>1, <1>2, <1>4, CardFacts
<1>6. attempts' \in Nat /\ attempts' <= MaxRetries + 1
  BY <1>2, <1>4, AttemptsBound
<1>7. TypeOK'
  <2>1. next_transaction_id' \in 0..(TidMod - 1)
    <3>1. next_transaction_id' = NextTid(tx_transaction_id')
      BY DEF SendStep
    <3>2. QED
      BY <1>2, <3>1, NextTidType
  <2>2. tx_record' \in 0..MaxEvents
    BY <1>2 DEF Records
  <2>3. acks' \subseteq [rec : Records, tid : 0..(TidMod - 1), status : {OK, NOK}]
    BY <1>1, <1>5 DEF TypeOK
  <2>4. tx_active' \in BOOLEAN /\ mid_task' \in BOOLEAN /\ tail' \in Slots
    BY DEF SendStep
  <2>5. UNCHANGED <<records, head, data_logger_queue_full_count, pushed, acked,
                    failed, system_ms>>
    BY DEF SendStep
  <2>6. QED
    BY <1>1, <1>2, <1>4, <1>5, <1>6, <2>1, <2>2, <2>3, <2>4, <2>5 DEF TypeOK
<1>8. TxInv'
  <2>1. tx_record' >= 1 /\ tx_active'
    BY <1>2 DEF Records, SendStep
  <2>2. QED
    BY <1>4, <1>6, <2>1 DEF TxInv
<1>9. ClosedOnce'
  <2>1. tx_active' /\ UNCHANGED <<acked, failed>>
    BY DEF SendStep
  <2>2. tx_record \in Nat /\ tx_record' = IF tx_active THEN tx_record ELSE tx_record + 1
    BY <1>1 DEF SendStep, TypeOK
  <2>3. (IF tx_active' THEN tx_record' - 1 ELSE tx_record')
          = IF tx_active THEN tx_record - 1 ELSE tx_record
    BY <2>1, <2>2
  <2>4. QED
    BY <2>1, <2>3 DEF IInv, ClosedOnce
<1>10. AckInv'
  <2>1. ASSUME NEW a \in acks
        PROVE  /\ a.rec <= tx_record'
               /\ a.status = OK => a.rec \in stored'
               /\ tx_record' - a.rec < TidMod =>
                    tx_transaction_id' = Wrap(a.tid + (tx_record' - a.rec))
    <3>1. /\ a.rec \in 1..MaxEvents /\ a.tid \in 0..(TidMod - 1)
          /\ tx_record \in 0..MaxEvents /\ tx_transaction_id \in 0..(TidMod - 1)
      BY <1>1 DEF TypeOK, Records
    <3>2. tx_record # 0
      BY <1>1 DEF AckInv
    <3>3. /\ a.rec <= tx_record
          /\ tx_record - a.rec < TidMod =>
               tx_transaction_id = Wrap(a.tid + (tx_record - a.rec))
      BY <1>1 DEF AckInv
    <3>4. a.status = OK => a.rec \in stored'
      BY <1>1, <1>5 DEF AckInv
    <3>5. CASE UNCHANGED <<tx_record, tx_transaction_id>>
      BY <3>3, <3>4, <3>5
    <3>6. CASE tx_record' = tx_record + 1 /\
               (tx_record > 0 => tx_transaction_id' = NextTid(tx_transaction_id))
      <4>1. tx_transaction_id' = NextTid(tx_transaction_id)
        BY <3>1, <3>2, <3>6
      <4>2. a.rec <= tx_record'
        BY <3>1, <3>3, <3>6
      <4>3. ASSUME tx_record' - a.rec < TidMod
            PROVE  tx_transaction_id' = Wrap(a.tid + (tx_record' - a.rec))
        <5>1. a.rec \in Nat /\ tx_record \in Nat
          BY <3>1
        <5>2. NextTid(tx_transaction_id) = Wrap(a.tid + ((tx_record + 1) - a.rec))
          BY <3>1, <3>3, <3>6, <4>3, <5>1, NextTidDistance
        <5>3. QED
          BY <3>6, <4>1, <5>2
      <4>4. QED
        BY <3>4, <4>2, <4>3
    <3>7. QED
      BY <3>5, <3>6 DEF SendStep
  <2>2. ASSUME NEW a \in acks' \ acks
        PROVE  /\ a.rec <= tx_record'
               /\ a.status = OK => a.rec \in stored'
               /\ tx_record' - a.rec < TidMod =>
                    tx_transaction_id' = Wrap(a.tid + (tx_record' - a.rec))
    BY <1>2, <1>5, EventLogAssumption DEF Wrap, Records
  <2>3. tx_record' # 0 /\ next_transaction_id' = NextTid(tx_transaction_id')
    BY <1>2 DEF Records, SendStep
  <2>4. QED
    BY <2>1, <2>2, <2>3 DEF AckInv
<1>11. AckedWasStored'
  <2>1. acked' = acked
    BY DEF SendStep
  <2>2. QED
    BY <1>5, <2>1 DEF IInv, AckedWasStored
<1>12. QED
  BY <1>4, <1>7, <1>8, <1>9, <1>10, <1>11 DEF IInv

LEMMA ProcessTxKeeps ==
  ASSUME IInv, NEW took \in BOOLEAN, ProcessTx(took)
  PROVE  IInv'
<1> USE EventLogAssumption
<1>1. /\ UNCHANGED <<records, head, data_logger_queue_full_count, pushed, acked,
                     failed, system_ms>>
      /\ mid_task' \in BOOLEAN
      /\ TypeOK /\ RingHoldsPending
  BY DEF ProcessTx, IInv
<1>2. CASE LoadAndSend(took)
  <2>1. /\ RingHoldsPending'
        /\ tx_record' = tx_record + 1
        /\ tx_record' <= pushed
        /\ tail' \in Slots
    BY <1>1, <1>2, PopKeepsRing, NextIndexFacts DEF LoadAndSend, TypeOK
  <2>2. /\ tx_active' /\ ~tx_active
        /\ tx_record' = records[tail]
        /\ tx_retry_count' = 0
        /\ tx_transaction_id' = next_transaction_id
        /\ next_transaction_id' = NextTid(next_transaction_id)
        /\ SendFragment(tx_record', 0, tx_transaction_id', tx_retry_count', took)
    BY <1>2 DEF LoadAndSend
  <2>3. tx_record' \in Records
    BY <1>1, <2>1 DEF TypeOK, Records
  <2>4. tx_record > 0 => tx_transaction_id' = NextTid(tx_transaction_id)
    BY <2>2 DEF IInv, AckInv
  <2>5. /\ tx_transaction_id' \in 0..(TidMod - 1)
        /\ tx_retry_count' \in 0..MaxRetries
        /\ next_transaction_id' = NextTid(tx_transaction_id')
    BY <1>1, <2>2 DEF TypeOK
  <2>6. SendStep(0, took)
    BY <1>1, <2>1, <2>2, <2>3, <2>4, <2>5 DEF SendStep
  <2>7. QED
    BY <2>1, <2>6, SendKeeps
<1>3. CASE SendNext(took)
  <2>1. /\ tx_active /\ ~tx_waiting_ack
        /\ UNCHANGED <<tx_active, tx_record, tail, tx_retry_count, tx_transaction_id,
                       next_transaction_id>>
        /\ SendFragment(tx_record, tx_fragment_index, tx_transaction_id, attempts, took)
    BY <1>3 DEF SendNext
  <2>2. attempts = tx_retry_count /\ tx_record \in Records
    BY <2>1 DEF IInv, TypeOK, TxInv, Records
  <2>3. next_transaction_id = NextTid(tx_transaction_id)
    BY <2>2 DEF IInv, AckInv, Records
  <2>4. RingHoldsPending'
    BY <1>1, <2>1 DEF RingHoldsPending, QueueCount, SlotOf
  <2>5. SendFragment(tx_record', tx_fragment_index, tx_transaction_id', tx_retry_count', took)
    BY <2>1, <2>2
  <2>6. /\ tail' \in Slots /\ tx_fragment_index \in Nat
        /\ tx_transaction_id' \in 0..(TidMod - 1)
        /\ tx_retry_count' \in 0..MaxRetries
    BY <1>1, <2>1 DEF TypeOK
  <2>7. SendStep(tx_fragment_index, took)
    BY <1>1, <2>1, <2>2, <2>3, <2>5, <2>6 DEF SendStep
  <2>8. QED
    BY <2>4, <2>6, <2>7, SendKeeps
<1>4. CASE NothingToSend
  <2>1. UNCHANGED <<tail, txVars, cardVars, age>>
    BY <1>4 DEF NothingToSend
  <2>2. TypeOK'
    BY <1>1, <2>1 DEF TypeOK, txVars, cardVars
  <2>3. QED
    BY <1>1, <2>1, <2>2 DEF IInv, txVars, cardVars, RingHoldsPending, QueueCount, SlotOf,
         TxInv, TimeInv, ElapsedTime, ClosedOnce, AckInv, AckedWasStored
<1>5. QED
  BY <1>2, <1>3, <1>4 DEF ProcessTx

-----------------------------------------------------------------------------
(* The theorems *)

LEMMA StepInv == IInv /\ [Next]_vars => IInv'
<1> SUFFICES ASSUME IInv, [Next]_vars PROVE IInv'
  OBVIOUS
<1>1. CASE QueuePush
  BY <1>1, QueuePushKeeps
<1>2. CASE ProcessAck
  BY <1>2, ProcessAckKeeps
<1>3. CASE \E took \in BOOLEAN : ProcessTx(took)
  BY <1>3, ProcessTxKeeps
<1>4. CASE \E a \in acks : AckReceived(a) \/ LoseAck(a)
  BY <1>4, AckReceivedKeeps, LoseAckKeeps
<1>5. CASE Tick
  BY <1>5, TickKeeps
<1>6. CASE UNCHANGED vars
  BY <1>6 DEF vars, queueVars, txVars, cardVars, IInv, TypeOK, RingHoldsPending,
              QueueCount, SlotOf, TxInv, TimeInv, ElapsedTime, ClosedOnce, AckInv,
              AckedWasStored
<1>7. QED
  BY <1>1, <1>2, <1>3, <1>4, <1>5, <1>6 DEF Next

\* The inductive invariant holds in every reachable state.
THEOREM Invariance == Spec => []IInv
BY InitInv, StepInv, PTL DEF Spec

\* Every variable of the logger keeps its type; no counter leaves its range.
THEOREM TypeCorrect == Spec => []TypeOK
<1>1. IInv => TypeOK
  BY DEF IInv
<1>2. QED
  BY <1>1, Invariance, PTL

\* The ring of Drivers/datalogging.c loses, overwrites and reorders nothing.
THEOREM RingCorrect == Spec => []RingHoldsPending
<1>1. IInv => RingHoldsPending
  BY DEF IInv
<1>2. QED
  BY <1>1, Invariance, PTL

\* Every record is closed exactly once, in order.
THEOREM ClosedOnceCorrect == Spec => []ClosedOnce
<1>1. IInv => ClosedOnce
  BY DEF IInv
<1>2. QED
  BY <1>1, Invariance, PTL

\* EventLog_AckReceived never confirms a record the card does not have, as
\* long as no ACK outlives TidMod records.
THEOREM NoFalseConfirmation == Spec => []AckedWasStored
<1>1. IInv => AckedWasStored
  BY DEF IInv
<1>2. QED
  BY <1>1, Invariance, PTL

\* No record is repeated or given up before its timeout has truly passed,
\* whatever the value of system_ms.
THEOREM NoEarlyTimeoutCorrect == Spec => NoEarlyTimeout
<1>1. ASSUME IInv, [Next]_vars
      PROVE  tx_retry_count' > tx_retry_count \/ failed' # failed => age >= AckTimeout
  <2>1. tx_retry_count \in Nat
    <3>1. tx_retry_count \in 0..MaxRetries
      BY <1>1 DEF IInv, TypeOK
    <3>2. QED
      BY <3>1
  <2>2. CASE ProcessAck /\ TimedOut
    <3>1. tx_waiting_ack /\ ElapsedTime >= AckTimeout
      BY <2>2 DEF TimedOut
    <3>2. age = ElapsedTime
      BY <1>1, <3>1 DEF IInv, TimeInv
    <3>3. age >= AckTimeout
      BY <3>1, <3>2, Zenon
    <3>4. QED
      BY <3>3
  <2>3. CASE ProcessAck /\ ~TimedOut
    <3>1. failed' = failed /\ tx_retry_count' = tx_retry_count
      BY <2>3 DEF ProcessAck
    <3>2. QED
      BY <2>1, <3>1
  <2>4. CASE \E took \in BOOLEAN : ProcessTx(took)
    <3>1. failed' = failed /\ (tx_retry_count' = 0 \/ tx_retry_count' = tx_retry_count)
      BY <2>4 DEF ProcessTx, LoadAndSend, SendNext, NothingToSend, txVars
    <3>2. QED
      BY <2>1, <3>1
  <2>5. CASE \E a \in acks : AckReceived(a) \/ LoseAck(a)
    <3>1. failed' = failed /\ (tx_retry_count' = 0 \/ tx_retry_count' = tx_retry_count)
      BY <2>5 DEF AckReceived, LoseAck, txVars
    <3>2. QED
      BY <2>1, <3>1
  <2>6. CASE QueuePush \/ Tick \/ UNCHANGED vars
    <3>1. failed' = failed /\ tx_retry_count' = tx_retry_count
      BY <2>6 DEF QueuePush, Tick, txVars, vars
    <3>2. QED
      BY <2>1, <3>1
  <2>7. QED
    BY <1>1, <2>2, <2>3, <2>4, <2>5, <2>6 DEF Next
<1>2. IInv /\ [Next]_vars
        => [tx_retry_count' > tx_retry_count \/ failed' # failed => age >= AckTimeout]_vars
  BY <1>1
<1>3. QED
  BY <1>2, Invariance, PTL DEF Spec, NoEarlyTimeout

\* The step on which a record is given up.
LEMMA FailedStep ==
  ASSUME [Next]_vars, failed' # failed
  PROVE  TimedOut /\ tx_retry_count >= MaxRetries
<1>1. CASE ProcessAck
  BY <1>1 DEF ProcessAck, RestartRecord
<1>2. CASE \E took \in BOOLEAN : ProcessTx(took)
  BY <1>2 DEF ProcessTx
<1>3. CASE \E a \in acks : AckReceived(a) \/ LoseAck(a)
  BY <1>3 DEF AckReceived, LoseAck
<1>4. CASE QueuePush \/ Tick \/ UNCHANGED vars
  BY <1>4 DEF QueuePush, Tick, vars
<1>5. QED
  BY <1>1, <1>2, <1>3, <1>4 DEF Next

\* EventLog_ProcessAck gives a record up only after all its transmissions,
\* and no record is transmitted more often.
THEOREM RetriesCorrect == Spec => GivesUpAfterAllRetries
<1>1. ASSUME IInv, [Next]_vars
      PROVE  /\ attempts' <= MaxRetries + 1
             /\ failed' # failed => attempts = MaxRetries + 1
  <2>1. attempts' <= MaxRetries + 1
    BY <1>1, StepInv DEF IInv, TxInv
  <2>2. ASSUME failed' # failed
        PROVE  attempts = MaxRetries + 1
    <3>1. TimedOut /\ tx_retry_count >= MaxRetries
      BY <1>1, <2>2, FailedStep
    <3>2. attempts = tx_retry_count + 1
      BY <1>1, <3>1 DEF IInv, TxInv, TimedOut
    <3>3. tx_retry_count \in 0..MaxRetries
      BY <1>1 DEF IInv, TypeOK
    <3>4. tx_retry_count >= MaxRetries
      BY <3>1
    <3>5. QED
      BY <3>2, <3>3, <3>4, EventLogAssumption
  <2>3. QED
    BY <2>1, <2>2
<1>2. IInv /\ [Next]_vars => [/\ attempts' <= MaxRetries + 1
                              /\ failed' # failed => attempts = MaxRetries + 1]_vars
  BY <1>1
<1>3. QED
  BY <1>2, Invariance, PTL DEF Spec, GivesUpAfterAllRetries

\* Consecutive transaction ids differ.
LEMMA NextTidDiffers ==
  ASSUME NEW t \in 0..(TidMod - 1)
  PROVE  NextTid(t) # t
BY EventLogAssumption DEF NextTid

\* A retry keeps the transaction id, a new record changes it.
THEOREM TidCorrect == Spec => TidFollowsRecord
<1>1. ASSUME IInv, [Next]_vars, tx_record > 0
      PROVE  tx_transaction_id' # tx_transaction_id <=> tx_record' # tx_record
  <2>1. CASE UNCHANGED <<tx_record, tx_transaction_id>>
    BY <2>1
  <2>2. ASSUME NEW took \in BOOLEAN, LoadAndSend(took), ProcessTx(took)
        PROVE  tx_transaction_id' # tx_transaction_id /\ tx_record' # tx_record
    <3>1. tx_record' = tx_record + 1
      BY <1>1, <2>2, PopKeepsRing DEF IInv, ProcessTx
    <3>2. tx_transaction_id' = NextTid(tx_transaction_id)
      BY <1>1, <2>2 DEF IInv, AckInv, LoadAndSend
    <3>3. tx_record \in 0..MaxEvents /\ tx_transaction_id \in 0..(TidMod - 1)
      BY <1>1 DEF IInv, TypeOK
    <3>4. tx_record' # tx_record
      BY <3>1, <3>3
    <3>5. QED
      BY <3>2, <3>3, <3>4, NextTidDiffers
  <2>3. CASE \E took \in BOOLEAN : ProcessTx(took)
    <3>1. PICK took \in BOOLEAN : ProcessTx(took)
      BY <2>3
    <3>2. CASE LoadAndSend(took)
      BY <2>2, <3>1, <3>2
    <3>3. CASE SendNext(took) \/ NothingToSend
      BY <2>1, <3>3 DEF SendNext, NothingToSend, txVars
    <3>4. QED
      BY <3>1, <3>2, <3>3 DEF ProcessTx
  <2>4. CASE ~ \E took \in BOOLEAN : ProcessTx(took)
    BY <1>1, <2>1, <2>4 DEF Next, QueuePush, ProcessAck, AckReceived, LoseAck, Tick, txVars, vars
  <2>5. QED
    BY <2>3, <2>4
<1>2. IInv /\ [Next]_vars =>
        [tx_record > 0 =>
           (tx_transaction_id' # tx_transaction_id <=> tx_record' # tx_record)]_vars
  BY <1>1
<1>3. QED
  BY <1>2, Invariance, PTL DEF Spec, TidFollowsRecord

-----------------------------------------------------------------------------
(* The logger implements OrderedService, but for its liveness *)

\* The records that are closed are 1..Settled.
Settled == IF tx_active THEN tx_record - 1 ELSE tx_record

Upto(n, m) == [k \in 1..(m - n) |-> n + k]

Ending(r) == IF r \in acked THEN "acked" ELSE "failed"

\* The state of the service: the records after the closed ones are pending.
ServiceState ==
  /\ Settled \in Nat /\ pushed \in Nat /\ Settled <= pushed
  /\ pushed - Settled <= QueueCount + 1
  /\ acked \cup failed = 1..Settled /\ acked \cap failed = {}
  /\ InHand \o [k \in 1..QueueCount |-> records[SlotOf(k - 1)]] = Upto(Settled, pushed)

LEMMA UptoFacts ==
  ASSUME NEW n \in Nat, NEW m \in Nat, n <= m
  PROVE  /\ Upto(n, m) \in Seq(Nat) /\ Len(Upto(n, m)) = m - n
         /\ \A k \in 1..(m - n) : Upto(n, m)[k] = n + k
<1>1. m - n \in Nat /\ \A k \in 1..(m - n) : n + k \in Nat
  OBVIOUS
<1>2. QED
  BY <1>1 DEF Upto

LEMMA UptoGrows ==
  ASSUME NEW n \in Nat, NEW m \in Nat, n <= m
  PROVE  Upto(n, m + 1) = Append(Upto(n, m), m + 1)
<1> DEFINE s == Append(Upto(n, m), m + 1)
           t == Upto(n, m + 1)
<1>1. /\ Upto(n, m) \in Seq(Nat) /\ Len(Upto(n, m)) = m - n
      /\ \A k \in 1..(m - n) : Upto(n, m)[k] = n + k
  BY UptoFacts
<1>2. /\ s \in Seq(Nat) /\ Len(s) = m - n + 1
      /\ \A k \in 1..(m - n) : s[k] = n + k
      /\ s[m - n + 1] = m + 1
  <2> DEFINE u == Upto(n, m)
             e == m + 1
  <2>1. e \in Nat
    OBVIOUS
  <2> HIDE DEF u, e
  <2>2. /\ Append(u, e) \in Seq(Nat) /\ Len(Append(u, e)) = Len(u) + 1
        /\ \A k \in 1..Len(u) : Append(u, e)[k] = u[k]
        /\ Append(u, e)[Len(u) + 1] = e
    BY <1>1, <2>1, AppendProperties DEF u
  <2>3. QED
    BY <1>1, <2>2 DEF u, e
<1>3. t \in Seq(Nat) /\ Len(t) = m + 1 - n /\ \A k \in 1..(m + 1 - n) : t[k] = n + k
  BY UptoFacts
<1> HIDE DEF s, t
<1>4. Len(s) = Len(t)
  BY <1>2, <1>3
<1>5. \A k \in 1..Len(s) : s[k] = t[k]
  BY <1>2, <1>3
<1>6. s = t
  BY <1>2, <1>3, <1>4, <1>5, SeqEqual
<1>7. QED
  BY <1>6 DEF s, t

LEMMA UptoShrinks ==
  ASSUME NEW n \in Nat, NEW m \in Nat, n < m
  PROVE  Upto(n, m) # <<>> /\ Tail(Upto(n, m)) = Upto(n + 1, m)
<1> DEFINE s == Upto(n, m)
           t == Upto(n + 1, m)
<1>1. s \in Seq(Nat) /\ Len(s) = m - n /\ \A k \in 1..(m - n) : s[k] = n + k
  BY UptoFacts
<1>2. /\ t \in Seq(Nat) /\ Len(t) = m - (n + 1)
      /\ \A k \in 1..(m - (n + 1)) : t[k] = n + 1 + k
  BY UptoFacts
<1> HIDE DEF s, t
<1>3. s # <<>>
  BY <1>1, EmptySeq
<1>4. /\ Tail(s) \in Seq(Nat) /\ Len(Tail(s)) = Len(s) - 1
      /\ \A k \in 1..Len(Tail(s)) : Tail(s)[k] = s[k + 1]
  BY <1>1, <1>3, HeadTailProperties
<1>5. Len(Tail(s)) = Len(t)
  BY <1>1, <1>2, <1>4
<1>6. \A k \in 1..Len(Tail(s)) : Tail(s)[k] = t[k]
  BY <1>1, <1>2, <1>4
<1>7. Tail(s) = t
  BY <1>2, <1>4, <1>5, <1>6, SeqEqual
<1>8. QED
  BY <1>3, <1>7 DEF s, t

\* The record in hand and those in the ring are the ones after the closed.
LEMMA ServiceView == IInv => ServiceState
<1> SUFFICES ASSUME IInv PROVE ServiceState
  OBVIOUS
<1> DEFINE ring == [k \in 1..QueueCount |-> records[SlotOf(k - 1)]]
<1>1. /\ tx_record \in Nat /\ pushed \in Nat /\ QueueCount = pushed - tx_record
      /\ QueueCount \in 0..(QueueSize - 1) /\ QueueCount \in Nat /\ QueueSize \in Nat
      /\ tx_active \in BOOLEAN
  <2>1. TypeOK /\ RingHoldsPending
    BY DEF IInv
  <2>2. QED
    BY <2>1, SlotFacts, EventLogAssumption DEF TypeOK, RingHoldsPending
<1>2. tx_active => tx_record >= 1
  BY DEF IInv, TxInv
<1>3. /\ Settled \in Nat /\ Settled <= pushed /\ pushed - Settled <= QueueCount + 1
      /\ tx_active => Settled + 1 = tx_record /\ Settled < pushed
      /\ ~tx_active => Settled = tx_record
  BY <1>1, <1>2 DEF Settled
<1>4. acked \cup failed = 1..Settled /\ acked \cap failed = {}
  BY DEF IInv, ClosedOnce, Settled
<1>6. ring = Upto(tx_record, pushed)
  <2>1. \A k \in 1..QueueCount : records[SlotOf(k - 1)] = tx_record + k
    BY <1>1 DEF IInv, RingHoldsPending
  <2>2. QED
    BY <1>1, <2>1 DEF Upto
<1> HIDE DEF ring
<1>7. InHand \o ring = Upto(Settled, pushed)
  <2>1. /\ ring \in Seq(Nat) /\ Len(ring) = pushed - tx_record
        /\ \A k \in 1..(pushed - tx_record) : ring[k] = tx_record + k
    <3>1. tx_record <= pushed
      BY <1>1
    <3>2. QED
      BY <1>1, <1>6, <3>1, UptoFacts
  <2>2. CASE ~tx_active
    BY <1>3, <1>6, <2>1, <2>2, ConcatEmptySeq DEF InHand
  <2>3. CASE tx_active
    <3> DEFINE s == <<tx_record>> \o ring
               t == Upto(Settled, pushed)
    <3>1. InHand = <<tx_record>> /\ <<tx_record>> \in Seq(Nat) /\ Len(<<tx_record>>) = 1
      BY <1>1, <2>3 DEF InHand
    <3>2. /\ s \in Seq(Nat) /\ Len(s) = 1 + (pushed - tx_record)
          /\ \A k \in 1..(1 + (pushed - tx_record)) :
               s[k] = IF k <= 1 THEN <<tx_record>>[k] ELSE ring[k - 1]
      BY <2>1, <3>1, ConcatProperties
    <3>3. /\ t \in Seq(Nat) /\ Len(t) = pushed - Settled
          /\ \A k \in 1..(pushed - Settled) : t[k] = Settled + k
      BY <1>1, <1>3, UptoFacts
    <3> HIDE DEF s, t
    <3>4. Len(s) = Len(t)
      BY <1>1, <1>3, <2>3, <3>2, <3>3
    <3>5. ASSUME NEW k \in 1..Len(s)
          PROVE  s[k] = t[k]
      <4>1. /\ Settled + 1 = tx_record /\ Settled \in Nat
            /\ tx_record \in Nat /\ pushed \in Nat /\ tx_record <= pushed
        BY <1>1, <1>3, <2>3
      <4>2. k \in 1..(1 + (pushed - tx_record)) /\ k \in 1..(pushed - Settled)
        BY <3>2, <3>5, <4>1
      <4>3. t[k] = Settled + k
        BY <3>3, <4>2
      <4>4. CASE k = 1
        BY <3>2, <4>1, <4>2, <4>3, <4>4
      <4>5. CASE k # 1
        <5>1. k - 1 \in 1..(pushed - tx_record) /\ ~(k <= 1)
          BY <4>1, <4>2, <4>5
        <5>2. s[k] = ring[k - 1] /\ ring[k - 1] = tx_record + (k - 1)
          BY <2>1, <3>2, <4>2, <5>1
        <5>3. QED
          BY <4>1, <4>2, <4>3, <5>2
      <4>6. QED
        BY <4>4, <4>5
    <3>6. s = t
      BY <3>2, <3>3, <3>4, <3>5, SeqEqual
    <3>7. QED
      BY <3>1, <3>6 DEF s, t
  <2>4. QED
    BY <1>1, <2>2, <2>3
<1>8. QED
  BY <1>1, <1>3, <1>4, <1>7 DEF ServiceState, ring

\* What the service sees of a step: a record more, a record closed, or nothing.
LEMMA ServiceSteps ==
  ASSUME IInv, [Next]_vars
  PROVE  \/ UNCHANGED <<acked, failed, pushed>>
         \/ ~RingIsFull /\ pushed' = pushed + 1 /\ UNCHANGED <<acked, failed>>
         \/ /\ tx_active /\ UNCHANGED pushed
            /\ \/ acked' = acked \cup {tx_record} /\ failed' = failed
               \/ failed' = failed \cup {tx_record} /\ acked' = acked
<1>1. CASE QueuePush
  BY <1>1 DEF QueuePush
<1>2. CASE ProcessAck
  BY <1>2 DEF ProcessAck, TimedOut, RestartRecord, GiveUp, queueVars
<1>3. CASE \E took \in BOOLEAN : ProcessTx(took)
  BY <1>3 DEF ProcessTx
<1>4. CASE \E a \in acks : AckReceived(a) \/ LoseAck(a)
  BY <1>4 DEF AckReceived, LoseAck, IsAnswer, queueVars
<1>5. CASE Tick \/ UNCHANGED vars
  BY <1>5 DEF Tick, vars, queueVars
<1>6. QED
  BY <1>1, <1>2, <1>3, <1>4, <1>5 DEF Next

LEMMA ServiceStep ==
  ASSUME IInv, ServiceState, ServiceState', [Next]_vars
  PROVE  [Service!Next]_(Service!vars)
<1> DEFINE pend == InHand \o [k \in 1..QueueCount |-> records[SlotOf(k - 1)]]
           out == [r \in acked \cup failed |-> Ending(r)]
<1>1. /\ Settled \in Nat /\ pushed \in Nat /\ Settled <= pushed
      /\ pushed - Settled <= QueueCount + 1
      /\ acked \cup failed = 1..Settled /\ acked \cap failed = {}
      /\ pend = Upto(Settled, pushed)
  BY DEF ServiceState
<1>2. /\ Settled' \in Nat /\ pushed' \in Nat /\ Settled' <= pushed' /\ pushed' \in 0..MaxEvents
      /\ acked' \cup failed' = 1..Settled' /\ acked' \cap failed' = {}
      /\ pend' = Upto(Settled', pushed')
  <2>1. pushed' \in 0..MaxEvents
    BY StepInv DEF IInv, TypeOK
  <2>2. QED
    BY <2>1 DEF ServiceState, Upto
<1>3. /\ DOMAIN out = 1..Settled /\ out = [r \in 1..Settled |-> Ending(r)]
      /\ out' = [r \in 1..Settled' |-> Ending(r)']
  BY <1>1, <1>2
<1> SUFFICES \/ out' = out /\ pend' = pend
             \/ /\ Len(pend) < QueueSize
                /\ \E i \in Records : /\ \A k \in DOMAIN pend : pend[k] < i
                                      /\ \A k \in DOMAIN out : k < i
                                      /\ pend' = Append(pend, i)
                /\ out' = out
             \/ /\ pend # <<>> /\ pend' = Tail(pend)
                /\ \E e \in {"acked", "failed"} :
                     out' = [r \in DOMAIN out \cup {Head(pend)} |->
                               IF r = Head(pend) THEN e ELSE out[r]]
  BY DEF Service!Next, Service!Accept, Service!Close, Service!vars, Ending
<1>4. ASSUME UNCHANGED <<acked, failed>>
      PROVE  Settled' = Settled /\ out' = out
  <2>1. 1..Settled' = 1..Settled
    BY <1>1, <1>2, <1>4
  <2>2. Settled' = Settled
    BY <1>1, <1>2, <2>1
  <2>3. QED
    BY <1>4, <2>2 DEF Ending
<1> HIDE DEF pend, out
<1>5. /\ Len(pend) = pushed - Settled /\ DOMAIN pend = 1..(pushed - Settled)
      /\ \A k \in 1..(pushed - Settled) : pend[k] = Settled + k
  <2>1. /\ pend \in Seq(Nat) /\ Len(pend) = pushed - Settled
        /\ \A k \in 1..(pushed - Settled) : pend[k] = Settled + k
    BY <1>1, UptoFacts
  <2>2. QED
    BY <2>1
<1>6. CASE UNCHANGED <<acked, failed, pushed>>
  BY <1>1, <1>2, <1>4, <1>6
<1>7. CASE ~RingIsFull /\ pushed' = pushed + 1 /\ UNCHANGED <<acked, failed>>
  <2>1. Settled' = Settled /\ out' = out
    BY <1>4, <1>7
  <2>2. pend' = Append(pend, pushed + 1)
    BY <1>1, <1>2, <1>7, <2>1, UptoGrows
  <2>3. QueueCount \in 0..(QueueSize - 1) /\ QueueCount # QueueSize - 1
    BY <1>7, SlotFacts, EventLogAssumption DEF IInv, TypeOK, RingIsFull, NextIndex, QueueCount,
       Slots
  <2>4. Len(pend) < QueueSize
    BY <1>1, <1>5, <2>3, EventLogAssumption
  <2>5. pushed + 1 \in Records
    BY <1>1, <1>2, <1>7, EventLogAssumption DEF Records
  <2>6. /\ \A k \in DOMAIN pend : pend[k] < pushed + 1
        /\ \A k \in DOMAIN out : k < pushed + 1
    BY <1>1, <1>3, <1>5
  <2>7. QED
    BY <2>1, <2>2, <2>4, <2>5, <2>6
<1>8. CASE /\ tx_active /\ UNCHANGED pushed
           /\ \/ acked' = acked \cup {tx_record} /\ failed' = failed
              \/ failed' = failed \cup {tx_record} /\ acked' = acked
  <2>1. tx_record = Settled + 1
    BY <1>1, <1>8 DEF Settled, IInv, TypeOK
  <2>2. 1..Settled' = 1..(Settled + 1)
    <3>1. acked' \cup failed' = (1..Settled) \cup {Settled + 1}
      BY <1>1, <1>8, <2>1
    <3>2. (1..Settled) \cup {Settled + 1} = 1..(Settled + 1)
      BY <1>1
    <3>3. acked' \cup failed' = 1..Settled'
      BY <1>2
    <3>4. QED
      BY <3>1, <3>2, <3>3
  <2>3. Settled' = Settled + 1
    BY <1>1, <1>2, <2>2
  <2>4. pend # <<>> /\ pend' = Tail(pend)
    BY <1>1, <1>2, <1>8, <2>3, UptoShrinks
  <2>5. Head(pend) = tx_record
    <3>1. pend \in Seq(Nat) /\ 1 \in 1..(pushed - Settled)
      BY <1>1, <1>2, <1>8, <2>3, UptoFacts
    <3>2. Head(pend) = pend[1]
      BY <2>4, <3>1, HeadTailProperties
    <3>3. QED
      BY <1>1, <1>5, <2>1, <3>1, <3>2
  <2>6. \A r \in 1..Settled : Ending(r)' = out[r]
    <3>1. \A r \in 1..Settled : r # tx_record
      BY <1>1, <2>1
    <3>2. \A r \in 1..Settled : Ending(r)' = Ending(r)
      BY <1>8, <3>1 DEF Ending
    <3>3. QED
      BY <1>3, <3>2
  <2>7. Ending(tx_record)' \in {"acked", "failed"} /\ tx_record' \in Nat
    BY StepInv DEF Ending, IInv, TypeOK, Records
  <2>8. \E e \in {"acked", "failed"} :
          out' = [r \in DOMAIN out \cup {Head(pend)} |->
                    IF r = Head(pend) THEN e ELSE out[r]]
    <3> DEFINE e == IF tx_record \in acked' THEN "acked" ELSE "failed"
    <3>1. out' = [r \in 1..Settled' |-> IF r \in acked' THEN "acked" ELSE "failed"]
      BY <1>3 DEF Ending
    <3>2. 1..Settled' = DOMAIN out \cup {Head(pend)}
      BY <1>1, <1>2, <1>3, <2>1, <2>3, <2>5
    <3>3. \A r \in 1..Settled : (IF r \in acked' THEN "acked" ELSE "failed") = out[r]
      BY <2>6 DEF Ending
    <3>4. \A r \in 1..Settled' : (IF r \in acked' THEN "acked" ELSE "failed")
                                   = (IF r = Head(pend) THEN e ELSE out[r])
      BY <1>3, <2>5, <3>2, <3>3
    <3> HIDE DEF e
    <3>5. out' = [r \in DOMAIN out \cup {Head(pend)} |->
                    IF r = Head(pend) THEN e ELSE out[r]]
      BY <3>1, <3>2, <3>4
    <3>6. e \in {"acked", "failed"}
      BY DEF e
    <3>7. QED
      BY <3>5, <3>6
  <2>9. QED
    BY <2>4, <2>8
<1>9. QED
  BY <1>6, <1>7, <1>8, ServiceSteps

\* Drivers/datalogging.c is a first-in first-out service: whatever the ring,
\* the fragments and the retries do, each step accepts a record as the last
\* one, closes the first one, once and in its turn, or changes nothing that a
\* caller sees.
THEOREM ImplementsService == Spec => Service!Spec
<1>1. Init => Service!Init
  <2> SUFFICES ASSUME Init PROVE Service!Init
    OBVIOUS
  <2>1. tx_active = FALSE /\ head = tail /\ acked = {} /\ failed = {}
    BY DEF Init
  <2>2. InHand = <<>> /\ QueueCount = 0 /\ acked \cup failed = {}
    BY <2>1, EventLogAssumption DEF Init, InHand, QueueCount, Slots
  <2>3. InHand \o [k \in 1..QueueCount |-> records[SlotOf(k - 1)]] = <<>>
    BY <2>2
  <2>4. QED
    BY <2>2, <2>3 DEF Service!Init
<1>2. IInv /\ ServiceState /\ ServiceState' /\ [Next]_vars => [Service!Next]_(Service!vars)
  BY ServiceStep
<1>3. QED
  BY <1>1, <1>2, Invariance, ServiceView, PTL DEF Spec, Service!Spec

=============================================================================
