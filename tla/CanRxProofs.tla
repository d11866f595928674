----------------------------- MODULE CanRxProofs -----------------------------
(***************************************************************************)
(* Reception of CAN frames, for every size of the ring, every limit of one *)
(* call, all controllers with all their message boxes and any number of    *)
(* frames.                                                                 *)
(***************************************************************************)
EXTENDS CanRx, FiniteSetTheorems, TLAPS

\* The slot n behind the tail, and how many entries there are from the tail on.
Place(tail, n) == IF tail + n >= QueueSize THEN tail + n - QueueSize ELSE tail + n

InFlight == Len(published) - Len(dispatched)

Stored(i) == Entry(can_rx_id[i], can_rx_source[i], can_rx_data[i])

\* What is published and not yet dispatched lies in the ring, from the tail
\* to the head; an interrupt that fills the slot of the head has a free one.
RingInv ==
  /\ InFlight \in 0..(QueueSize - 1)
  /\ can_rx_head = Place(can_rx_tail, InFlight)
  /\ \A n \in 0..(InFlight - 1) :
       published[Len(dispatched) + 1 + n] = Stored(Place(can_rx_tail, n))
  /\ isr_pc \in {"id", "data"} => InFlight < QueueSize - 1

\* The fields that the main loop has copied so far are of the oldest entry.
CopyInv ==
  LET oldest == published[Len(dispatched) + 1]
  IN /\ main_pc \in {"id", "source", "data", "advance"} => InFlight > 0 /\ count < ProcessLimit
     /\ main_pc \in {"source", "data", "advance"} => pop_id = oldest.id
     /\ main_pc \in {"data", "advance"} => pop_source = oldest.source
     /\ main_pc = "advance" => pop_data = oldest.data

\* A box is in the hands of the interrupt.
Handling(b) == isr_pc # "idle" /\ isr_box = b

\* A box that is requested or handled without new data, and one that is
\* requested while it is handled, has lost a frame.
RequestInv == \A b \in Boxes :
  /\ int_pnd[b] \/ Handling(b) => new_dat[b] \/ msg_lst[b]
  /\ int_pnd[b] /\ Handling(b) => msg_lst[b]

\* The frames that wait in the boxes differ, and none has been read before;
\* what a slot holds has.  An identifier that was read without a loss still
\* is that of the data.
FrameInv ==
  /\ ReadFrames \subseteq 0..received
  /\ \A b \in Boxes : new_dat[b] => frame[b] \in 1..received /\ frame[b] \notin ReadFrames
  /\ \A b, c \in Boxes : new_dat[b] /\ new_dat[c] /\ frame[b] = frame[c] => b = c
  /\ \A i \in Slots : can_rx_data[i] \in ReadFrames \cup {0}
  /\ isr_pc = "data" /\ new_dat[isr_box] /\ ~msg_lst[isr_box] =>
       can_rx_id[can_rx_head] = frame[isr_box]

IInv ==
  /\ DispatchedAsPublished /\ RingInv /\ CopyInv
  /\ NoFrameForgotten /\ RequestInv /\ FrameInv
  /\ DamageIsCounted

-----------------------------------------------------------------------------
(* The ring *)

LEMMA PlaceFacts ==
  ASSUME NEW tail \in Slots, NEW n \in 0..(QueueSize - 1)
  PROVE  /\ Place(tail, n) \in Slots
         /\ n = 0 <=> Place(tail, n) = tail
         /\ n < QueueSize - 1 => NextIndex(Place(tail, n)) = Place(tail, n + 1)
         /\ n > 0 => Place(NextIndex(tail), n - 1) = Place(tail, n)
         /\ \A m \in 0..(QueueSize - 1) : Place(tail, m) = Place(tail, n) => m = n
  BY CanRxAssumption DEF Place, Slots, NextIndex

\* The ring is full if all slots but one are used.
LEMMA FullFacts ==
  ASSUME NEW tail \in Slots, NEW n \in 0..(QueueSize - 1)
  PROVE  NextIndex(Place(tail, n)) = tail <=> n = QueueSize - 1
  BY CanRxAssumption DEF Place, Slots, NextIndex

\* What an entry adds to the frames read.
LEMMA ReadFacts ==
  ASSUME NEW e \in Entries, published \in Seq(Entries), published' = Append(published, e)
  PROVE  ReadFrames' = ReadFrames \cup {e.data}
<1>1. /\ Len(published') = Len(published) + 1 /\ Len(published) \in Nat
      /\ \A k \in 1..Len(published) : published'[k] = published[k]
      /\ published'[Len(published) + 1] = e
  OBVIOUS
<1>2. ASSUME NEW x \in ReadFrames'
      PROVE  x \in ReadFrames \cup {e.data}
  <2>1. PICK k \in 1..Len(published') : x = published'[k].data
    BY DEF ReadFrames
  <2>2. CASE k \in 1..Len(published)
    BY <1>1, <2>1, <2>2 DEF ReadFrames
  <2>3. CASE k = Len(published) + 1
    BY <1>1, <2>1, <2>3
  <2>4. QED
    BY <1>1, <2>2, <2>3
<1>3. ASSUME NEW x \in ReadFrames
      PROVE  x \in ReadFrames'
  <2>1. PICK k \in 1..Len(published) : x = published[k].data
    BY DEF ReadFrames
  <2>2. k \in 1..Len(published') /\ published'[k] = published[k]
    BY <1>1
  <2>3. QED
    BY <2>1, <2>2 DEF ReadFrames
<1>4. e.data \in ReadFrames'
  <2>1. Len(published) + 1 \in 1..Len(published')
    BY <1>1
  <2>2. QED
    BY <1>1, <2>1 DEF ReadFrames
<1>5. QED
  BY <1>2, <1>3, <1>4

-----------------------------------------------------------------------------
(* Types *)

LEMMA TypesOfCanGetData ==
  ASSUME TypeOK, CanGetData
  PROVE  /\ new_dat' \in [Boxes -> BOOLEAN] /\ if2_msg_lst' \in [Nodes -> BOOLEAN]
         /\ can_rx_message_lost' \in Nat /\ can_rx_read_failures' \in Nat
         /\ NodeOf[isr_box] \in Nodes
<1>1. isr_box \in Boxes /\ NodeOf[isr_box] \in Nodes
  BY CanRxAssumption DEF TypeOK
<1>2. MsgLstSeen \in BOOLEAN
  BY <1>1 DEF TypeOK, MsgLstSeen
<1>3. new_dat' \in [Boxes -> BOOLEAN] /\ if2_msg_lst' \in [Nodes -> BOOLEAN]
  BY <1>1, <1>2 DEF TypeOK, CanGetData
<1>4. can_rx_message_lost' \in Nat /\ can_rx_read_failures' \in Nat
  BY DEF TypeOK, CanGetData
<1>5. QED
  BY <1>1, <1>3, <1>4

\* What the interrupt publishes is an entry.
LEMMA PublishedEntry ==
  ASSUME TypeOK, GetDataAndPublish
  PROVE  /\ can_rx_data' \in [Slots -> Frames]
         /\ Entry(can_rx_id[can_rx_head], can_rx_source[can_rx_head], can_rx_data'[can_rx_head])
              \in Entries
<1>1. can_rx_data' \in [Slots -> Frames]
  BY DEF TypeOK, GetDataAndPublish
<1>2. QED
  BY <1>1 DEF TypeOK, Entry, Entries

LEMMA TypeKeeps == TypeOK /\ CopyInv /\ [Next]_vars => TypeOK'
<1> SUFFICES ASSUME TypeOK, CopyInv, [Next]_vars PROVE TypeOK'
  OBVIOUS
<1> USE DEF ringVars, counters, popVars, boxVars
<1>0. ASSUME NEW i \in Slots
      PROVE  NextIndex(i) \in Slots
  BY CanRxAssumption DEF NextIndex, Slots
<1>1. ASSUME NEW b \in Boxes, Receive(b)
      PROVE  TypeOK'
  <2>1. received' \in Frames /\ frame[b] \in Frames
    BY <1>1, CanRxAssumption DEF TypeOK, Receive, Frames
  <2>2. frame' \in [Boxes -> Frames] /\ overwritten' \subseteq Frames
    BY <1>1, <2>1 DEF TypeOK, Receive
  <2>3. /\ new_dat' \in [Boxes -> BOOLEAN] /\ msg_lst' \in [Boxes -> BOOLEAN]
        /\ int_pnd' \in [Boxes -> BOOLEAN]
    BY <1>1 DEF TypeOK, Receive
  <2>4. QED
    BY <1>1, <2>1, <2>2, <2>3, Zenon DEF TypeOK, Receive
<1>2. ASSUME NEW b \in Boxes, Interrupt(b)
      PROVE  TypeOK'
  <2>1. /\ int_pnd' \in [Boxes -> BOOLEAN] /\ isr_box' \in Boxes
        /\ isr_pc' \in {"idle", "id", "data", "discard"}
    BY <1>2 DEF TypeOK, Interrupt
  <2>2. QED
    BY <1>2, <2>1, Zenon DEF TypeOK, Interrupt
<1>3. CASE GetId
  <2>1. NodeOf[isr_box] \in Nodes /\ frame[isr_box] \in Frames
    BY CanRxAssumption DEF TypeOK
  <2>2. /\ can_rx_id' \in [Slots -> Frames] /\ can_rx_source' \in [Slots -> Nodes]
        /\ isr_pc' \in {"idle", "id", "data", "discard"}
    BY <1>3, <2>1 DEF TypeOK, GetId
  <2>3. QED
    BY <1>3, <2>2, Zenon DEF TypeOK, GetId
<1>4. CASE GetDataAndPublish
  <2>1. CanGetData
    BY <1>4 DEF GetDataAndPublish
  <2>2. can_rx_head' \in Slots
    BY <1>0, <1>4 DEF TypeOK, GetDataAndPublish
  <2>3. isr_pc' \in {"idle", "id", "data", "discard"}
    BY <1>4 DEF GetDataAndPublish
  <2>4. published' \in Seq(Entries)
    <3>1. published \in Seq(Entries)
      BY DEF TypeOK
    <3>2. \/ published' = published
          \/ published' = Append(published, Entry(can_rx_id[can_rx_head],
                                                 can_rx_source[can_rx_head],
                                                 can_rx_data'[can_rx_head]))
      BY <1>4, Zenon DEF GetDataAndPublish
    <3> DEFINE e == Entry(can_rx_id[can_rx_head], can_rx_source[can_rx_head],
                          can_rx_data'[can_rx_head])
    <3>3. e \in Entries
      BY <1>4, PublishedEntry
    <3> HIDE DEF e
    <3>4. published' = published \/ published' = Append(published, e)
      BY <3>2, Zenon DEF e
    <3>5. QED
      BY <3>1, <3>3, <3>4
  <2>5. QED
    <3>1. /\ new_dat' \in [Boxes -> BOOLEAN] /\ if2_msg_lst' \in [Nodes -> BOOLEAN]
          /\ can_rx_message_lost' \in Nat /\ can_rx_read_failures' \in Nat
      BY <2>1, TypesOfCanGetData
    <3>2. can_rx_data' \in [Slots -> Frames]
      BY <1>4, PublishedEntry
    <3>3. UNCHANGED <<can_rx_id, can_rx_source, can_rx_queue_overflow, main_pc, count,
                      pop_id, pop_source, pop_data, can_rx_tail, dispatched, frame, msg_lst,
                      int_pnd, received, overwritten, isr_box>>
      BY <1>4 DEF GetDataAndPublish, CanGetData
    <3>4. QED
      BY <2>2, <2>3, <2>4, <3>1, <3>2, <3>3, Zenon DEF TypeOK
<1>5. CASE Discard
  <2>1. CanGetData /\ isr_pc' \in {"idle", "id", "data", "discard"}
    BY <1>5 DEF Discard
  <2>2. can_rx_queue_overflow' \in Nat
    BY <1>5 DEF TypeOK, Discard
  <2>3. QED
    <3>1. /\ new_dat' \in [Boxes -> BOOLEAN] /\ if2_msg_lst' \in [Nodes -> BOOLEAN]
          /\ can_rx_message_lost' \in Nat /\ can_rx_read_failures' \in Nat
      BY <2>1, TypesOfCanGetData
    <3>2. UNCHANGED <<can_rx_id, can_rx_source, can_rx_data, can_rx_head, main_pc, count,
                      pop_id, pop_source, pop_data, can_rx_tail, dispatched, frame, msg_lst,
                      int_pnd, received, overwritten, isr_box, published>>
      BY <1>5 DEF Discard, CanGetData
    <3>3. QED
      BY <2>1, <2>2, <3>1, <3>2, Zenon DEF TypeOK
<1>6. ASSUME BeginCall \/ CheckEmpty
      PROVE  TypeOK'
  <2>1. /\ main_pc' \in {"away", "check", "id", "source", "data", "advance"}
        /\ count' \in 0..ProcessLimit
    BY <1>6, CanRxAssumption DEF TypeOK, BeginCall, CheckEmpty
  <2>2. QED
    BY <1>6, <2>1, Zenon DEF TypeOK, BeginCall, CheckEmpty, MainStep
<1>7. ASSUME PopId \/ PopSource \/ PopData
      PROVE  TypeOK'
  <2>1. /\ main_pc' \in {"away", "check", "id", "source", "data", "advance"}
        /\ pop_id' \in Frames /\ pop_source' \in Nodes /\ pop_data' \in Frames
    BY <1>7 DEF TypeOK, PopId, PopSource, PopData
  <2>2. QED
    BY <1>7, <2>1, Zenon DEF TypeOK, PopId, PopSource, PopData, MainStep
<1>8. CASE AdvanceAndDispatch
  <2>1. can_rx_tail' \in Slots
    BY <1>0, <1>8 DEF TypeOK, AdvanceAndDispatch
  <2>2. count' \in 0..ProcessLimit
    BY <1>8, CanRxAssumption DEF TypeOK, AdvanceAndDispatch, CopyInv
  <2>3. Entry(pop_id, pop_source, pop_data) \in Entries
    BY DEF TypeOK, Entry, Entries
  <2>4. dispatched' \in Seq(Entries)
    BY <1>8, <2>3 DEF TypeOK, AdvanceAndDispatch
  <2>5. main_pc' \in {"away", "check", "id", "source", "data", "advance"}
    BY <1>8 DEF AdvanceAndDispatch
  <2>6. QED
    BY <1>8, <2>1, <2>2, <2>4, <2>5, Zenon DEF TypeOK, AdvanceAndDispatch, MainStep
<1>9. CASE UNCHANGED vars
  BY <1>9, Zenon DEF TypeOK, vars
<1>10. QED
  BY <1>1, <1>2, <1>3, <1>4, <1>5, <1>6, <1>7, <1>8, <1>9 DEF Next, Isr, Main

-----------------------------------------------------------------------------
(* The entries in the ring *)

RingPart == DispatchedAsPublished /\ RingInv /\ CopyInv

\* Steps that leave the ring, its indices and the copy alone.
LEMMA RingUntouched ==
  ASSUME RingPart, TypeOK',
         UNCHANGED <<published, dispatched, ringVars, can_rx_tail, main_pc, count,
                     pop_id, pop_source, pop_data>>,
         isr_pc' \in {"id", "data"} => InFlight < QueueSize - 1
  PROVE  RingPart'
BY DEF RingPart, DispatchedAsPublished, RingInv, CopyInv, InFlight, Stored, Entry, ringVars

\* The slot of the head holds no entry.
LEMMA HeadIsFree ==
  ASSUME RingPart
  PROVE  /\ can_rx_head \in Slots /\ can_rx_tail \in Slots
         /\ \A n \in 0..(InFlight - 1) :
              Place(can_rx_tail, n) \in Slots /\ Place(can_rx_tail, n) # can_rx_head
<1>1. /\ can_rx_head \in Slots /\ can_rx_tail \in Slots
      /\ InFlight \in 0..(QueueSize - 1) /\ can_rx_head = Place(can_rx_tail, InFlight)
  BY DEF RingPart, DispatchedAsPublished, TypeOK, RingInv
<1>2. ASSUME NEW n \in 0..(InFlight - 1)
      PROVE  Place(can_rx_tail, n) \in Slots /\ Place(can_rx_tail, n) # can_rx_head
  <2>1. n \in 0..(QueueSize - 1) /\ n # InFlight
    BY <1>1, CanRxAssumption
  <2>2. QED
    BY <1>1, <2>1, PlaceFacts
<1>3. QED
  BY <1>1, <1>2

\* canGetID writes the slot of the head, which holds no entry.
LEMMA GetIdKeepsRing ==
  ASSUME RingPart, TypeOK', GetId
  PROVE  RingPart'
<1>1. /\ UNCHANGED <<published, dispatched, can_rx_data, can_rx_head, can_rx_tail, main_pc, count,
                     pop_id, pop_source, pop_data>>
      /\ isr_pc = "id"
      /\ can_rx_id' = [can_rx_id EXCEPT ![can_rx_head] = frame[isr_box]]
      /\ can_rx_source' = [can_rx_source EXCEPT ![can_rx_head] = NodeOf[isr_box]]
  BY DEF GetId, popVars
<1>2. DispatchedAsPublished' /\ CopyInv' /\ InFlight' = InFlight
  BY <1>1 DEF RingPart, DispatchedAsPublished, CopyInv, InFlight
<1>3. ASSUME NEW n \in 0..(InFlight - 1)
      PROVE  Stored(Place(can_rx_tail, n))' = Stored(Place(can_rx_tail, n))
  <2>1. Place(can_rx_tail, n) # can_rx_head /\ Place(can_rx_tail, n) \in Slots
    BY HeadIsFree
  <2>2. /\ can_rx_id'[Place(can_rx_tail, n)] = can_rx_id[Place(can_rx_tail, n)]
        /\ can_rx_source'[Place(can_rx_tail, n)] = can_rx_source[Place(can_rx_tail, n)]
    BY <1>1, <2>1 DEF RingPart, DispatchedAsPublished, TypeOK
  <2>3. Place(can_rx_tail, n)' = Place(can_rx_tail, n)
    BY <1>1 DEF Place
  <2>4. QED
    BY <1>1, <2>2, <2>3 DEF Stored
<1>4. RingInv'
  BY <1>1, <1>2, <1>3 DEF RingPart, RingInv, Place
<1>5. QED
  BY <1>2, <1>4 DEF RingPart

\* The entry of the head is complete when it is published.
LEMMA PublishKeepsRing ==
  ASSUME RingPart, TypeOK', GetDataAndPublish
  PROVE  RingPart'
<1> DEFINE e == Entry(can_rx_id[can_rx_head], can_rx_source[can_rx_head], can_rx_data'[can_rx_head])
<1>1. /\ UNCHANGED <<dispatched, can_rx_id, can_rx_source, can_rx_tail, main_pc, count,
                     pop_id, pop_source, pop_data>>
      /\ isr_pc = "data" /\ isr_pc' = "idle"
  BY DEF GetDataAndPublish, CanGetData, popVars
<1>2. /\ TypeOK /\ InFlight \in 0..(QueueSize - 1) /\ InFlight < QueueSize - 1
      /\ can_rx_head = Place(can_rx_tail, InFlight)
      /\ Len(published) \in Nat /\ Len(dispatched) \in Nat
  BY <1>1 DEF RingPart, DispatchedAsPublished, TypeOK, RingInv
<1>3. ASSUME NEW n \in 0..(InFlight - 1)
      PROVE  Stored(Place(can_rx_tail, n))' = Stored(Place(can_rx_tail, n))
  <2>1. Place(can_rx_tail, n) # can_rx_head /\ Place(can_rx_tail, n) \in Slots
    BY HeadIsFree
  <2>2. can_rx_data'[Place(can_rx_tail, n)] = can_rx_data[Place(can_rx_tail, n)]
    BY <1>2, <2>1 DEF GetDataAndPublish, TypeOK
  <2>3. Place(can_rx_tail, n)' = Place(can_rx_tail, n)
    BY <1>1 DEF Place
  <2>4. QED
    BY <1>1, <2>2, <2>3 DEF Stored
<1>4. CASE ReadStatus = 0
  <2>1. UNCHANGED <<published, can_rx_head>>
    BY <1>4 DEF GetDataAndPublish
  <2>2. DispatchedAsPublished' /\ CopyInv' /\ InFlight' = InFlight
    BY <1>1, <2>1 DEF RingPart, DispatchedAsPublished, CopyInv, InFlight
  <2>3. RingInv'
    BY <1>1, <1>3, <2>1, <2>2 DEF RingPart, RingInv, Place
  <2>4. QED
    BY <2>2, <2>3 DEF RingPart
<1>5. CASE ReadStatus # 0
  <2>1. published' = Append(published, e) /\ can_rx_head' = NextIndex(can_rx_head)
    BY <1>5 DEF GetDataAndPublish
  <2>2. published \in Seq(Entries) /\ e \in Entries
    BY <1>2, PublishedEntry DEF TypeOK
  <2> HIDE DEF e
  <2>3. /\ Len(published') = Len(published) + 1
        /\ \A k \in 1..Len(published) : published'[k] = published[k]
        /\ published'[Len(published) + 1] = e
    BY <2>1, <2>2
  <2>4. InFlight' = InFlight + 1 /\ InFlight' \in 0..(QueueSize - 1)
    BY <1>1, <1>2, <2>3, CanRxAssumption DEF InFlight
  <2>5. Len(dispatched) <= Len(published)
    BY DEF RingPart, DispatchedAsPublished
  <2>6. DispatchedAsPublished'
    <3>1. \A k \in 1..Len(dispatched) : dispatched[k] = published'[k]
      BY <1>2, <2>3, <2>5 DEF RingPart, DispatchedAsPublished
    <3>2. QED
      BY <1>1, <1>2, <2>3, <2>5, <3>1 DEF DispatchedAsPublished
  <2>7. CopyInv'
    <3>1. InFlight > 0 => published'[Len(dispatched) + 1] = published[Len(dispatched) + 1]
      BY <1>2, <2>3 DEF InFlight
    <3>2. QED
      BY <1>1, <1>2, <2>4, <3>1 DEF RingPart, CopyInv
  <2>8. can_rx_head' = Place(can_rx_tail', InFlight')
    <3>1. can_rx_tail \in Slots
      BY <1>2 DEF TypeOK
    <3>2. QED
      BY <1>1, <1>2, <2>1, <2>4, <3>1, PlaceFacts
  <2>9. ASSUME NEW n \in 0..(InFlight' - 1)
        PROVE  published'[Len(dispatched') + 1 + n] = Stored(Place(can_rx_tail, n))'
    <3>1. CASE n \in 0..(InFlight - 1)
      <4>1. Len(dispatched) + 1 + n \in 1..Len(published)
        BY <1>2, <3>1 DEF InFlight
      <4>2. published[Len(dispatched) + 1 + n] = Stored(Place(can_rx_tail, n))
        BY <3>1 DEF RingPart, RingInv
      <4>3. QED
        BY <1>1, <1>3, <2>3, <3>1, <4>1, <4>2
    <3>2. CASE n = InFlight
      <4>1. Len(dispatched) + 1 + n = Len(published) + 1
        BY <1>2, <3>2 DEF InFlight
      <4>2. Place(can_rx_tail, n)' = can_rx_head
        BY <1>1, <1>2, <3>2 DEF Place
      <4>3. Stored(Place(can_rx_tail, n))' = e
        BY <1>1, <4>2 DEF Stored, e
      <4>4. QED
        BY <1>1, <2>3, <4>1, <4>3
    <3>3. QED
      BY <1>2, <2>4, <3>1, <3>2
  <2>10. RingInv'
    BY <1>1, <2>4, <2>8, <2>9 DEF RingInv
  <2>11. QED
    BY <2>6, <2>7, <2>10 DEF RingPart
<1>6. QED
  BY <1>4, <1>5

\* The oldest entry is in the slot of the tail.
LEMMA OldestIsAtTail ==
  ASSUME RingPart, InFlight > 0
  PROVE  published[Len(dispatched) + 1] = Stored(can_rx_tail)
<1>1. can_rx_tail \in Slots /\ InFlight \in 0..(QueueSize - 1) /\ Len(dispatched) \in Nat
  BY DEF RingPart, DispatchedAsPublished, TypeOK, RingInv
<1>2. 0 \in 0..(InFlight - 1) /\ Place(can_rx_tail, 0) = can_rx_tail
  BY <1>1, PlaceFacts, CanRxAssumption
<1>3. published[Len(dispatched) + 1 + 0] = Stored(Place(can_rx_tail, 0))
  BY <1>2 DEF RingPart, RingInv
<1>4. QED
  BY <1>1, <1>2, <1>3

\* can_rx_queue_pop copies the oldest entry, field by field.
LEMMA PopKeepsRing ==
  ASSUME RingPart, TypeOK', BeginCall \/ CheckEmpty \/ PopId \/ PopSource \/ PopData
  PROVE  RingPart'
<1>1. UNCHANGED <<published, dispatched, can_rx_id, can_rx_source, can_rx_data, can_rx_head,
                  can_rx_tail, isr_pc>>
  BY DEF BeginCall, CheckEmpty, PopId, PopSource, PopData, MainStep, ringVars
<1>2. DispatchedAsPublished' /\ RingInv' /\ InFlight' = InFlight
  BY <1>1 DEF RingPart, DispatchedAsPublished, RingInv, InFlight, Stored, Place
<1>3. InFlight > 0 => published[Len(dispatched) + 1] = Stored(can_rx_tail)
  BY OldestIsAtTail
<1>4. CopyInv'
  <2>1. ASSUME BeginCall \/ CheckEmpty
        PROVE  CopyInv'
    <3>1. can_rx_tail # can_rx_head => InFlight > 0
      BY PlaceFacts DEF RingPart, RingInv, DispatchedAsPublished, TypeOK
    <3>2. main_pc' \in {"away", "check", "id"} /\ (main_pc' = "id" => count' < ProcessLimit)
          /\ (main_pc' = "id" => can_rx_tail # can_rx_head)
      BY <2>1 DEF BeginCall, CheckEmpty
    <3>3. QED
      BY <1>2, <3>1, <3>2 DEF CopyInv
  <2>2. CASE PopId
    BY <1>1, <1>2, <1>3, <2>2 DEF RingPart, CopyInv, PopId, Stored, Entry
  <2>3. CASE PopSource
    BY <1>1, <1>2, <1>3, <2>3 DEF RingPart, CopyInv, PopSource, Stored, Entry
  <2>4. CASE PopData
    BY <1>1, <1>2, <1>3, <2>4 DEF RingPart, CopyInv, PopData, Stored, Entry
  <2>5. QED
    BY <2>1, <2>2, <2>3, <2>4
<1>5. QED
  BY <1>2, <1>4 DEF RingPart

\* The copy is the entry that the handler gets, and its slot is free then.
LEMMA DispatchKeepsRing ==
  ASSUME RingPart, TypeOK', AdvanceAndDispatch
  PROVE  RingPart'
<1> DEFINE e == Entry(pop_id, pop_source, pop_data)
<1>1. /\ UNCHANGED <<published, can_rx_id, can_rx_source, can_rx_data, can_rx_head, isr_pc>>
      /\ main_pc = "advance" /\ main_pc' = "check" /\ isr_pc = "idle"
      /\ can_rx_tail' = NextIndex(can_rx_tail) /\ dispatched' = Append(dispatched, e)
  BY DEF AdvanceAndDispatch, MainStep, ringVars
<1>2. /\ TypeOK /\ InFlight \in 1..(QueueSize - 1)
      /\ can_rx_head = Place(can_rx_tail, InFlight)
      /\ Len(published) \in Nat /\ Len(dispatched) \in Nat /\ can_rx_tail \in Slots
  BY <1>1 DEF RingPart, DispatchedAsPublished, TypeOK, RingInv, CopyInv
<1>3. e = published[Len(dispatched) + 1]
  <2>1. published[Len(dispatched) + 1] = Stored(can_rx_tail)
    BY <1>2, OldestIsAtTail
  <2>2. QED
    BY <1>1, <2>1 DEF RingPart, CopyInv, Stored, Entry
<1>4. dispatched \in Seq(Entries) /\ e \in Entries
  BY <1>2 DEF TypeOK, Entry, Entries
<1> HIDE DEF e
<1>5. /\ Len(dispatched') = Len(dispatched) + 1
      /\ \A k \in 1..Len(dispatched) : dispatched'[k] = dispatched[k]
      /\ dispatched'[Len(dispatched) + 1] = e
  BY <1>1, <1>4
<1>6. InFlight' = InFlight - 1 /\ InFlight' \in 0..(QueueSize - 1)
  BY <1>1, <1>2, <1>5, CanRxAssumption DEF InFlight
<1>7. DispatchedAsPublished'
  <2>1. \A k \in 1..Len(dispatched') : dispatched'[k] = published[k]
    BY <1>2, <1>3, <1>5 DEF RingPart, DispatchedAsPublished
  <2>2. Len(dispatched') <= Len(published)
    BY <1>2, <1>5 DEF InFlight
  <2>3. QED
    BY <1>1, <2>1, <2>2 DEF DispatchedAsPublished
<1>8. can_rx_head' = Place(can_rx_tail', InFlight')
  BY <1>1, <1>2, <1>6, PlaceFacts, CanRxAssumption
<1>9. ASSUME NEW n \in 0..(InFlight' - 1)
      PROVE  published'[Len(dispatched') + 1 + n] = Stored(Place(can_rx_tail, n))'
  <2>1. n + 1 \in 0..(InFlight - 1) /\ n + 1 \in 0..(QueueSize - 1)
    BY <1>2, <1>6, CanRxAssumption
  <2>2. published[Len(dispatched) + 1 + (n + 1)] = Stored(Place(can_rx_tail, n + 1))
    BY <2>1 DEF RingPart, RingInv
  <2>3. Place(can_rx_tail, n)' = Place(can_rx_tail, n + 1)
    <3>1. Place(NextIndex(can_rx_tail), (n + 1) - 1) = Place(can_rx_tail, n + 1)
      BY <1>2, <2>1, PlaceFacts
    <3>2. (n + 1) - 1 = n
      OBVIOUS
    <3>3. QED
      BY <1>1, <3>1, <3>2 DEF Place
  <2>4. Len(dispatched') + 1 + n = Len(dispatched) + 1 + (n + 1)
    BY <1>2, <1>5
  <2>5. QED
    BY <1>1, <2>2, <2>3, <2>4 DEF Stored
<1>10. RingInv'
  BY <1>1, <1>6, <1>8, <1>9 DEF RingInv
<1>11. CopyInv'
  BY <1>1 DEF CopyInv
<1>12. QED
  BY <1>7, <1>10, <1>11 DEF RingPart

LEMMA RingKeeps == RingPart /\ [Next]_vars => RingPart'
<1> SUFFICES ASSUME RingPart, [Next]_vars PROVE RingPart'
  OBVIOUS
<1>0. TypeOK'
  BY TypeKeeps DEF RingPart, DispatchedAsPublished
<1>1. ASSUME NEW b \in Boxes, Receive(b)
      PROVE  RingPart'
  <2>1. UNCHANGED <<published, dispatched, ringVars, can_rx_tail, main_pc, count,
                    pop_id, pop_source, pop_data, isr_pc>>
    BY <1>1 DEF Receive, popVars
  <2>2. isr_pc' \in {"id", "data"} => InFlight < QueueSize - 1
    BY <2>1 DEF RingPart, RingInv
  <2>3. QED
    BY <1>0, <2>1, <2>2, RingUntouched
<1>2. ASSUME NEW b \in Boxes, Interrupt(b)
      PROVE  RingPart'
  <2>1. UNCHANGED <<published, dispatched, ringVars, can_rx_tail, main_pc, count,
                    pop_id, pop_source, pop_data>>
    BY <1>2 DEF Interrupt, popVars
  <2>2. isr_pc' \in {"id", "data"} => ~RingIsFull
    BY <1>2 DEF Interrupt
  <2>3. ~RingIsFull => InFlight < QueueSize - 1
    BY FullFacts, CanRxAssumption
    DEF RingIsFull, RingPart, RingInv, DispatchedAsPublished, TypeOK
  <2>4. QED
    BY <1>0, <2>1, <2>2, <2>3, RingUntouched
<1>3. CASE Discard
  <2>1. UNCHANGED <<published, dispatched, ringVars, can_rx_tail, main_pc, count,
                    pop_id, pop_source, pop_data>> /\ isr_pc' = "idle"
    BY <1>3 DEF Discard, CanGetData, popVars
  <2>2. QED
    BY <1>0, <2>1, RingUntouched
<1>4. CASE UNCHANGED vars
  <2>1. UNCHANGED <<published, dispatched, ringVars, can_rx_tail, main_pc, count,
                    pop_id, pop_source, pop_data, isr_pc>>
    BY <1>4 DEF vars, popVars
  <2>2. isr_pc' \in {"id", "data"} => InFlight < QueueSize - 1
    BY <2>1 DEF RingPart, RingInv
  <2>3. QED
    BY <1>0, <2>1, <2>2, RingUntouched
<1>5. QED
  BY <1>0, <1>1, <1>2, <1>3, <1>4, GetIdKeepsRing, PublishKeepsRing, PopKeepsRing,
     DispatchKeepsRing
  DEF Next, Isr, Main

-----------------------------------------------------------------------------
(* The message boxes *)

BoxPart == NoFrameForgotten /\ RequestInv /\ FrameInv

\* What the main loop does touches neither the boxes nor what was read.
lossVars == <<boxVars, isr_pc, isr_box, published, received, overwritten, counters,
              can_rx_id, can_rx_data, can_rx_head>>

LEMMA BoxesUntouched ==
  ASSUME BoxPart, DamageIsCounted, UNCHANGED lossVars
  PROVE  BoxPart' /\ DamageIsCounted'
<1>1. UNCHANGED <<frame, new_dat, msg_lst, int_pnd, isr_pc, isr_box, published, received,
                  overwritten, can_rx_queue_overflow, can_rx_message_lost, can_rx_id,
                  can_rx_data, can_rx_head>>
  BY DEF lossVars, boxVars, counters
<1>2. ReadFrames' = ReadFrames /\ WaitingFrames' = WaitingFrames
  BY <1>1 DEF ReadFrames, WaitingFrames
<1>3. BoxPart'
  BY <1>1, <1>2 DEF BoxPart, NoFrameForgotten, RequestInv, FrameInv, Handling
<1>4. DamageIsCounted'
  BY <1>1, <1>2 DEF DamageIsCounted, LossIsCounted, WrongEntryIsCounted, WrongEntry
<1>5. QED
  BY <1>3, <1>4

\* A new frame waits in its box; one that it overwrites leaves MsgLst behind.
LEMMA ReceiveKeepsBoxes ==
  ASSUME TypeOK, BoxPart, NEW b \in Boxes, Receive(b)
  PROVE  BoxPart'
<1>1. /\ UNCHANGED <<isr_pc, isr_box, published, can_rx_id, can_rx_data, can_rx_head>>
      /\ received' = received + 1 /\ received \in Nat
      /\ frame' = [frame EXCEPT ![b] = received + 1]
      /\ new_dat' = [new_dat EXCEPT ![b] = TRUE]
      /\ msg_lst' = [msg_lst EXCEPT ![b] = @ \/ new_dat[b]]
      /\ int_pnd' = [int_pnd EXCEPT ![b] = TRUE]
  BY CanRxAssumption DEF Receive, ringVars, TypeOK, Frames
<1>2. frame'[b] = received + 1 /\ new_dat'[b] = TRUE /\ int_pnd'[b] = TRUE
      /\ msg_lst'[b] = (msg_lst[b] \/ new_dat[b])
  BY <1>1, Zenon DEF TypeOK
<1>3. ASSUME NEW c \in Boxes, c # b
      PROVE  /\ frame'[c] = frame[c] /\ new_dat'[c] = new_dat[c]
             /\ int_pnd'[c] = int_pnd[c] /\ msg_lst'[c] = msg_lst[c]
  BY <1>1, <1>3, Zenon DEF TypeOK
<1>4. NoFrameForgotten' /\ RequestInv'
  <2>1. ASSUME NEW c \in Boxes
        PROVE  /\ new_dat'[c] => int_pnd'[c] \/ (isr_pc' # "idle" /\ isr_box' = c)
               /\ int_pnd'[c] \/ Handling(c)' => new_dat'[c] \/ msg_lst'[c]
               /\ int_pnd'[c] /\ Handling(c)' => msg_lst'[c]
    <3>1. Handling(c)' <=> Handling(c)
      BY <1>1 DEF Handling
    <3>2. CASE c = b
      BY <1>2, <3>1, <3>2, Zenon DEF BoxPart, RequestInv
    <3>3. CASE c # b
      BY <1>1, <1>3, <3>1, <3>3, Zenon DEF BoxPart, NoFrameForgotten, RequestInv
    <3>4. QED
      BY <3>2, <3>3
  <2>2. QED
    BY <2>1 DEF NoFrameForgotten, RequestInv
<1>5. ReadFrames' = ReadFrames
  BY <1>1 DEF ReadFrames
<1>6. FrameInv'
  <2>1. ReadFrames' \subseteq 0..received'
    BY <1>1, <1>5 DEF BoxPart, FrameInv
  <2>2. ASSUME NEW c \in Boxes, new_dat'[c]
        PROVE  frame'[c] \in 1..received' /\ frame'[c] \notin ReadFrames'
    <3>1. CASE c = b
      <4>1. received + 1 \in 1..received' /\ received + 1 \notin ReadFrames
        BY <1>1 DEF BoxPart, FrameInv
      <4>2. QED
        BY <1>2, <1>5, <3>1, <4>1, Zenon
    <3>2. CASE c # b
      <4>1. frame[c] \in 1..received /\ frame[c] \notin ReadFrames
        BY <1>3, <2>2, <3>2, Zenon DEF BoxPart, FrameInv
      <4>2. frame[c] \in 1..received'
        BY <1>1, <4>1
      <4>3. QED
        BY <1>3, <1>5, <3>2, <4>1, <4>2
    <3>3. QED
      BY <3>1, <3>2
  <2>3. ASSUME NEW c \in Boxes, NEW d \in Boxes, new_dat'[c], new_dat'[d], frame'[c] = frame'[d]
        PROVE  c = d
    <3>1. \A x \in Boxes : new_dat[x] => frame[x] # received + 1
      BY <1>1 DEF BoxPart, FrameInv
    <3>2. CASE c # b /\ d # b
      BY <1>3, <2>3, <3>2, Zenon DEF BoxPart, FrameInv
    <3>3. CASE c = b /\ d # b
      BY <1>2, <1>3, <2>3, <3>1, <3>3, Zenon
    <3>4. CASE c # b /\ d = b
      BY <1>2, <1>3, <2>3, <3>1, <3>4, Zenon
    <3>5. QED
      BY <3>2, <3>3, <3>4
  <2>4. \A i \in Slots : can_rx_data'[i] \in ReadFrames' \cup {0}
    BY <1>1, <1>5 DEF BoxPart, FrameInv
  <2>5. isr_pc' = "data" /\ new_dat'[isr_box'] /\ ~msg_lst'[isr_box'] =>
          can_rx_id'[can_rx_head'] = frame'[isr_box']
    <3>1. isr_box \in Boxes
      BY DEF TypeOK
    <3>2. CASE isr_box = b
      <4>1. isr_pc = "data" => new_dat[b] \/ msg_lst[b]
        BY <3>2 DEF BoxPart, RequestInv, Handling
      <4>2. msg_lst'[b] = TRUE \/ isr_pc # "data"
        BY <1>2, <4>1, Zenon
      <4>3. QED
        BY <1>1, <3>2, <4>2
    <3>3. CASE isr_box # b
      BY <1>1, <1>3, <3>1, <3>3, Zenon DEF BoxPart, FrameInv
    <3>4. QED
      BY <3>2, <3>3
  <2>6. QED
    BY <2>1, <2>2, <2>3, <2>4, <2>5 DEF FrameInv
<1>7. QED
  BY <1>4, <1>6 DEF BoxPart

\* The interrupt takes a request over from its box.
LEMMA InterruptKeepsBoxes ==
  ASSUME TypeOK, BoxPart, NEW b \in Boxes, Interrupt(b)
  PROVE  BoxPart'
<1>1. /\ UNCHANGED <<published, received, can_rx_id, can_rx_data, can_rx_head, frame, new_dat,
                     msg_lst>>
      /\ isr_pc = "idle" /\ isr_pc' \in {"discard", "id"} /\ isr_box' = b /\ int_pnd[b]
      /\ int_pnd' = [int_pnd EXCEPT ![b] = FALSE]
  BY DEF Interrupt, ringVars
<1>2. int_pnd'[b] = FALSE /\ \A c \in Boxes : c # b => int_pnd'[c] = int_pnd[c]
  BY <1>1, Zenon DEF TypeOK
<1>3. isr_pc' # "idle" /\ isr_pc' # "data"
  BY <1>1
<1>4. NoFrameForgotten'
  BY <1>1, <1>2, <1>3, Zenon DEF BoxPart, NoFrameForgotten
<1>5. RequestInv'
  <2>1. ASSUME NEW c \in Boxes
        PROVE  /\ int_pnd'[c] \/ Handling(c)' => new_dat'[c] \/ msg_lst'[c]
               /\ ~(int_pnd'[c] /\ Handling(c)')
    <3>1. CASE c = b
      <4>1. new_dat[b] \/ msg_lst[b]
        BY <1>1, Zenon DEF BoxPart, RequestInv
      <4>2. QED
        BY <1>1, <1>2, <3>1, <4>1, Zenon
    <3>2. CASE c # b
      BY <1>1, <1>2, <3>2, Zenon DEF BoxPart, RequestInv, Handling
    <3>3. QED
      BY <3>1, <3>2
  <2>2. QED
    BY <2>1, Zenon DEF RequestInv
<1>6. FrameInv'
  BY <1>1, <1>3 DEF BoxPart, FrameInv, ReadFrames
<1>7. QED
  BY <1>4, <1>5, <1>6 DEF BoxPart

\* canGetID reads the identifier of the frame in the box.
LEMMA GetIdKeepsBoxes ==
  ASSUME TypeOK, BoxPart, GetId
  PROVE  BoxPart'
<1>1. /\ UNCHANGED <<published, received, can_rx_data, can_rx_head, frame, new_dat, msg_lst,
                     int_pnd, isr_box>>
      /\ isr_pc = "id" /\ isr_pc' = "data"
      /\ can_rx_id' = [can_rx_id EXCEPT ![can_rx_head] = frame[isr_box]]
  BY DEF GetId, boxVars
<1>2. can_rx_id'[can_rx_head] = frame[isr_box]
  BY <1>1 DEF TypeOK
<1>3. NoFrameForgotten' /\ RequestInv'
  BY <1>1 DEF BoxPart, NoFrameForgotten, RequestInv, Handling
<1>4. FrameInv'
  BY <1>1, <1>2 DEF BoxPart, FrameInv, ReadFrames
<1>5. QED
  BY <1>3, <1>4 DEF BoxPart

\* canGetData leaves the box without new data, and the interrupt is over.
LEMMA ReadKeepsRequests ==
  ASSUME TypeOK, BoxPart, CanGetData, isr_pc # "idle", isr_pc' = "idle"
  PROVE  /\ NoFrameForgotten' /\ RequestInv'
         /\ \A c \in Boxes : new_dat'[c] <=> new_dat[c] /\ c # isr_box
         /\ UNCHANGED <<frame, msg_lst, int_pnd, received, overwritten>>
<1>1. /\ UNCHANGED <<frame, msg_lst, int_pnd, received, overwritten, isr_box>>
      /\ new_dat' = [new_dat EXCEPT ![isr_box] = FALSE]
  BY DEF CanGetData
<1>2. \A c \in Boxes : new_dat'[c] <=> new_dat[c] /\ c # isr_box
  BY <1>1, Zenon DEF TypeOK
<1>3. NoFrameForgotten'
  BY <1>1, <1>2, Zenon DEF BoxPart, NoFrameForgotten
<1>4. RequestInv'
  BY <1>1, <1>2, Zenon DEF BoxPart, RequestInv, Handling
<1>5. QED
  BY <1>1, <1>2, <1>3, <1>4

\* What the interrupt reads and publishes: the frame of the box, or, without
\* new data, one that was read before.
LEMMA PublishKeepsFrames ==
  ASSUME TypeOK, BoxPart, GetDataAndPublish
  PROVE  /\ FrameInv'
         /\ ReadFrames \subseteq ReadFrames'
         /\ new_dat[isr_box] => frame[isr_box] \in ReadFrames'
<1> DEFINE e == Entry(can_rx_id[can_rx_head], can_rx_source[can_rx_head], can_rx_data'[can_rx_head])
<1>1. /\ CanGetData /\ isr_pc = "data" /\ isr_pc' = "idle" /\ isr_box \in Boxes
      /\ can_rx_head \in Slots /\ e \in Entries /\ published \in Seq(Entries)
  BY PublishedEntry DEF GetDataAndPublish, TypeOK
<1>2. /\ \A c \in Boxes : new_dat'[c] <=> new_dat[c] /\ c # isr_box
      /\ frame' = frame /\ received' = received
  BY <1>1, ReadKeepsRequests
<1>3. new_dat[isr_box] => ReadStatus # 0
  BY DEF ReadStatus
<1>4. /\ new_dat[isr_box] => e.data = frame[isr_box]
      /\ ~new_dat[isr_box] => e.data \in ReadFrames \cup {0}
  BY <1>1 DEF GetDataAndPublish, TypeOK, Entry, BoxPart, FrameInv
<1>5. CASE ReadStatus = 0
  <2>1. published' = published /\ can_rx_data' = can_rx_data /\ ~new_dat[isr_box]
    BY <1>3, <1>5 DEF GetDataAndPublish
  <2>2. ReadFrames' = ReadFrames
    BY <2>1 DEF ReadFrames
  <2>3. FrameInv'
    <3>1. \A c \in Boxes : new_dat'[c] => new_dat[c]
      BY <1>2
    <3>2. isr_pc' # "data"
      BY <1>1
    <3>3. QED
      BY <1>2, <2>1, <2>2, <3>1, <3>2 DEF BoxPart, FrameInv
  <2>4. QED
    BY <2>1, <2>2, <2>3
<1>6. CASE ReadStatus # 0
  <2>1. published' = Append(published, e)
    BY <1>6 DEF GetDataAndPublish
  <2> HIDE DEF e
  <2>2. ReadFrames' = ReadFrames \cup {e.data}
    BY <1>1, <2>1, ReadFacts
  <2>3. e.data \in 0..received
    <3>1. CASE new_dat[isr_box]
      BY <1>1, <1>4, <3>1 DEF BoxPart, FrameInv
    <3>2. CASE ~new_dat[isr_box]
      <4>1. 0 \in 0..received
        BY CanRxAssumption DEF TypeOK, Frames
      <4>2. QED
        BY <1>4, <3>2, <4>1 DEF BoxPart, FrameInv
    <3>3. QED
      BY <3>1, <3>2
  <2>4. ASSUME NEW c \in Boxes, new_dat'[c]
        PROVE  frame'[c] \in 1..received' /\ frame'[c] \notin ReadFrames'
    <3>1. new_dat[c] /\ c # isr_box /\ frame[c] \in 1..received /\ frame[c] \notin ReadFrames
      BY <1>2, <2>4 DEF BoxPart, FrameInv
    <3>2. frame[c] # e.data
      BY <1>1, <1>4, <3>1 DEF BoxPart, FrameInv
    <3>3. QED
      BY <1>2, <2>2, <3>1, <3>2
  <2>5. \A c, d \in Boxes : new_dat'[c] /\ new_dat'[d] /\ frame'[c] = frame'[d] => c = d
    BY <1>2 DEF BoxPart, FrameInv
  <2>6. ASSUME NEW i \in Slots
        PROVE  can_rx_data'[i] \in ReadFrames' \cup {0}
    <3>1. CASE new_dat[isr_box]
      <4>1. can_rx_data'[i] = can_rx_data[i] \/ can_rx_data'[i] = frame[isr_box]
        BY <1>1, <3>1 DEF GetDataAndPublish, TypeOK
      <4>2. QED
        BY <1>4, <2>2, <3>1, <4>1 DEF BoxPart, FrameInv
    <3>2. CASE ~new_dat[isr_box]
      <4>1. can_rx_data' = can_rx_data
        BY <3>2, Zenon DEF GetDataAndPublish
      <4>2. QED
        BY <2>2, <4>1 DEF BoxPart, FrameInv
    <3>3. QED
      BY <3>1, <3>2
  <2>7. ReadFrames' \subseteq 0..received'
    BY <1>2, <2>2, <2>3 DEF BoxPart, FrameInv
  <2>8. FrameInv'
    BY <1>1, <2>4, <2>5, <2>6, <2>7 DEF FrameInv
  <2>9. QED
    BY <1>4, <2>2, <2>8
<1>7. QED
  BY <1>5, <1>6

-----------------------------------------------------------------------------
(* The counters *)

LostFrames == (1..received) \ (ReadFrames \cup WaitingFrames \cup overwritten)

WrongEntries == {k \in 1..Len(published) : WrongEntry(k)}

LossIsNoticed ==
  overwritten # {} => \/ can_rx_message_lost > 0
                      \/ \E b \in Boxes : new_dat[b] /\ msg_lst[b]

LEMMA DamageFacts ==
  DamageIsCounted <=> /\ Cardinality(LostFrames) <= can_rx_queue_overflow
                      /\ LossIsNoticed
                      /\ Cardinality(WrongEntries) <= can_rx_message_lost
BY DEF DamageIsCounted, LossIsCounted, WrongEntryIsCounted, LostFrames, LossIsNoticed, WrongEntries

\* Both sets are finite.
LEMMA FiniteFacts ==
  ASSUME TypeOK
  PROVE  /\ IsFiniteSet(LostFrames) /\ Cardinality(LostFrames) \in Nat
         /\ IsFiniteSet(WrongEntries) /\ Cardinality(WrongEntries) \in Nat
<1>1. received \in Int /\ Len(published) \in Int
  BY CanRxAssumption DEF TypeOK, Frames
<1>2. IsFiniteSet(1..received) /\ IsFiniteSet(1..Len(published))
  BY <1>1, FS_Interval
<1>3. LostFrames \subseteq 1..received /\ WrongEntries \subseteq 1..Len(published)
  BY DEF LostFrames, WrongEntries
<1>4. IsFiniteSet(LostFrames) /\ IsFiniteSet(WrongEntries)
  BY <1>2, <1>3, FS_Subset
<1>5. QED
  BY <1>4, FS_CardinalityType

\* A set that grows by at most one element has at most one element more.
LEMMA OneMore ==
  ASSUME NEW S, IsFiniteSet(S), NEW T, NEW x, T \subseteq S \cup {x}
  PROVE  Cardinality(T) <= Cardinality(S) + 1
<1>0. Cardinality(S) \in Nat
  BY FS_CardinalityType
<1>1. /\ IsFiniteSet(S \cup {x})
      /\ Cardinality(S \cup {x}) <= Cardinality(S) + 1
  <2>1. /\ IsFiniteSet(S \cup {x})
        /\ Cardinality(S \cup {x}) = IF x \in S THEN Cardinality(S) ELSE Cardinality(S) + 1
    BY FS_AddElement
  <2>2. QED
    BY <1>0, <2>1
<1>2. /\ IsFiniteSet(T) /\ Cardinality(T) <= Cardinality(S \cup {x})
  BY <1>1, FS_Subset
<1>3. Cardinality(T) \in Nat /\ Cardinality(S \cup {x}) \in Nat
  BY <1>1, <1>2, FS_CardinalityType
<1>4. QED
  BY <1>0, <1>1, <1>2, <1>3

\* The frame that a new one replaces is in "overwritten", and MsgLst is set.
LEMMA ReceiveKeepsCounts ==
  ASSUME TypeOK, DamageIsCounted, NEW b \in Boxes, Receive(b)
  PROVE  DamageIsCounted'
<1>1. /\ UNCHANGED <<published, can_rx_message_lost, can_rx_queue_overflow>>
      /\ received' = received + 1 /\ received \in Nat
      /\ frame' = [frame EXCEPT ![b] = received + 1]
      /\ new_dat' = [new_dat EXCEPT ![b] = TRUE]
      /\ msg_lst' = [msg_lst EXCEPT ![b] = @ \/ new_dat[b]]
      /\ overwritten' = IF new_dat[b] THEN overwritten \cup {frame[b]} ELSE overwritten
  BY CanRxAssumption DEF Receive, counters, TypeOK, Frames
<1>2. frame'[b] = received + 1 /\ new_dat'[b] = TRUE /\ msg_lst'[b] = (msg_lst[b] \/ new_dat[b])
  BY <1>1, Zenon DEF TypeOK
<1>3. \A c \in Boxes : c # b => frame'[c] = frame[c] /\ new_dat'[c] = new_dat[c]
                               /\ msg_lst'[c] = msg_lst[c]
  BY <1>1, Zenon DEF TypeOK
<1>4. overwritten \subseteq overwritten' /\ (new_dat[b] => frame[b] \in overwritten')
      /\ (~new_dat[b] => overwritten' = overwritten)
  BY <1>1
<1>5. ASSUME NEW x \in WaitingFrames
      PROVE  x \in WaitingFrames' \cup overwritten'
  <2>1. PICK c \in Boxes : new_dat[c] /\ x = frame[c]
    BY DEF WaitingFrames
  <2>2. CASE c = b
    BY <1>4, <2>1, <2>2
  <2>3. CASE c # b
    BY <1>3, <2>1, <2>3, Zenon DEF WaitingFrames
  <2>4. QED
    BY <2>2, <2>3
<1>6. LostFrames' \subseteq LostFrames
  <2>1. received + 1 \in WaitingFrames'
    BY <1>2, Zenon DEF WaitingFrames
  <2>2. ReadFrames' = ReadFrames
    BY <1>1 DEF ReadFrames
  <2>3. QED
    BY <1>1, <1>4, <1>5, <2>1, <2>2 DEF LostFrames
<1>7. LossIsNoticed'
  <2>1. CASE new_dat[b]
    BY <1>2, <2>1, Zenon DEF LossIsNoticed
  <2>2. CASE ~new_dat[b] /\ overwritten # {} /\ ~(can_rx_message_lost > 0)
    <3>1. PICK c \in Boxes : new_dat[c] /\ msg_lst[c]
      BY <2>2, DamageFacts, Zenon DEF LossIsNoticed
    <3>2. c # b
      BY <2>2, <3>1
    <3>3. QED
      BY <1>3, <3>1, <3>2, Zenon DEF LossIsNoticed
  <2>3. CASE ~new_dat[b] /\ (overwritten = {} \/ can_rx_message_lost > 0)
    BY <1>1, <1>4, <2>3, Zenon DEF LossIsNoticed
  <2>4. QED
    BY <2>1, <2>2, <2>3
<1>8. Cardinality(LostFrames') <= Cardinality(LostFrames)
  BY <1>6, FiniteFacts, FS_Subset
<1>9. IsFiniteSet(LostFrames') /\ Cardinality(LostFrames') \in Nat
  BY <1>6, FiniteFacts, FS_Subset, FS_CardinalityType
<1>10. Cardinality(LostFrames)' <= can_rx_queue_overflow'
  BY <1>1, <1>8, <1>9, DamageFacts, FiniteFacts DEF TypeOK
<1>11. WrongEntries' = WrongEntries
  BY <1>1 DEF WrongEntries, WrongEntry
<1>12. Cardinality(WrongEntries)' <= can_rx_message_lost'
  BY <1>1, <1>11, DamageFacts
<1>13. QED
  BY <1>7, <1>10, <1>12 DEF DamageIsCounted, LossIsCounted, WrongEntryIsCounted, LostFrames,
                            LossIsNoticed, WrongEntries

\* canGetData counts a loss when it reads a box whose MsgLst is set.
LEMMA ReadNotices ==
  ASSUME TypeOK, LossIsNoticed, CanGetData
  PROVE  LossIsNoticed' /\ can_rx_message_lost' >= can_rx_message_lost
<1>1. /\ new_dat' = [new_dat EXCEPT ![isr_box] = FALSE] /\ msg_lst' = msg_lst
      /\ overwritten' = overwritten
      /\ can_rx_message_lost' = can_rx_message_lost + (IF ReadStatus = 3 THEN 1 ELSE 0)
  BY DEF CanGetData
<1>2. can_rx_message_lost \in Nat /\ can_rx_message_lost' \in Nat
      /\ can_rx_message_lost' >= can_rx_message_lost
      /\ (ReadStatus = 3 => can_rx_message_lost' > 0)
  BY <1>1 DEF TypeOK
<1>3. CASE can_rx_message_lost > 0
  <2>1. can_rx_message_lost' > 0
    BY <1>2, <1>3
  <2>2. QED
    BY <1>2, <2>1 DEF LossIsNoticed
<1>4. CASE \E b \in Boxes : new_dat[b] /\ msg_lst[b]
  <2>1. PICK b \in Boxes : new_dat[b] /\ msg_lst[b]
    BY <1>4
  <2>2. CASE b = isr_box
    <3>1. ReadStatus = 3
      BY <2>1, <2>2 DEF ReadStatus, MsgLstSeen
    <3>2. QED
      BY <1>2, <3>1 DEF LossIsNoticed
  <2>3. CASE b # isr_box
    <3>1. new_dat'[b] = new_dat[b]
      BY <1>1, <2>3, Zenon DEF TypeOK
    <3>2. QED
      BY <1>1, <1>2, <2>1, <3>1, Zenon DEF LossIsNoticed
  <2>4. QED
    BY <2>2, <2>3
<1>5. CASE overwritten = {}
  BY <1>1, <1>2, <1>5 DEF LossIsNoticed
<1>6. QED
  BY <1>3, <1>4, <1>5 DEF LossIsNoticed

\* Waiting frames other than that of the box that is read keep waiting.
LEMMA OthersWait ==
  ASSUME TypeOK, CanGetData, NEW x \in WaitingFrames,
         ~(new_dat[isr_box] /\ x = frame[isr_box])
  PROVE  x \in WaitingFrames'
<1>1. new_dat' = [new_dat EXCEPT ![isr_box] = FALSE] /\ frame' = frame
  BY DEF CanGetData
<1>2. PICK c \in Boxes : new_dat[c] /\ x = frame[c]
  BY DEF WaitingFrames
<1>3. new_dat'[c] = new_dat[c]
  BY <1>1, <1>2, Zenon DEF TypeOK
<1>4. QED
  BY <1>1, <1>2, <1>3, Zenon DEF WaitingFrames

\* A frame that is thrown away is counted.
LEMMA DiscardKeepsCounts ==
  ASSUME TypeOK, DamageIsCounted, Discard
  PROVE  DamageIsCounted'
<1>1. /\ CanGetData /\ UNCHANGED <<received, overwritten, published>>
      /\ can_rx_queue_overflow' = can_rx_queue_overflow + 1
      /\ can_rx_queue_overflow \in Nat /\ can_rx_message_lost \in Nat
  BY DEF Discard, CanGetData, TypeOK
<1>2. LossIsNoticed' /\ can_rx_message_lost' >= can_rx_message_lost /\ can_rx_message_lost' \in Nat
  BY <1>1, DamageFacts, ReadNotices, TypesOfCanGetData
<1>3. LostFrames' \subseteq LostFrames \cup {frame[isr_box]}
  <2>1. WaitingFrames \subseteq WaitingFrames' \cup {frame[isr_box]}
    BY <1>1, OthersWait
  <2>2. ReadFrames' = ReadFrames
    BY <1>1 DEF ReadFrames
  <2>3. QED
    BY <1>1, <2>1, <2>2 DEF LostFrames
<1>4. Cardinality(LostFrames') <= Cardinality(LostFrames) + 1
  BY <1>3, FiniteFacts, OneMore
<1>5. Cardinality(LostFrames') \in Nat
  BY <1>3, FiniteFacts, FS_AddElement, FS_Subset, FS_CardinalityType
<1>6. Cardinality(LostFrames)' <= can_rx_queue_overflow'
  BY <1>1, <1>4, <1>5, DamageFacts, FiniteFacts
<1>7. WrongEntries' = WrongEntries
  BY <1>1 DEF WrongEntries, WrongEntry
<1>8. Cardinality(WrongEntries)' <= can_rx_message_lost'
  BY <1>1, <1>2, <1>7, DamageFacts, FiniteFacts
<1>9. QED
  BY <1>2, <1>6, <1>8 DEF DamageIsCounted, LossIsCounted, WrongEntryIsCounted,
                         LostFrames, LossIsNoticed, WrongEntries

\* A published entry is right, or the loss that made it wrong is counted.
LEMMA PublishKeepsCounts ==
  ASSUME TypeOK, BoxPart, DamageIsCounted, GetDataAndPublish
  PROVE  DamageIsCounted'
<1> DEFINE e == Entry(can_rx_id[can_rx_head], can_rx_source[can_rx_head], can_rx_data'[can_rx_head])
<1>1. /\ CanGetData /\ UNCHANGED <<received, overwritten, can_rx_queue_overflow>>
      /\ can_rx_message_lost \in Nat /\ can_rx_queue_overflow \in Nat
      /\ isr_pc = "data" /\ isr_box \in Boxes
      /\ can_rx_message_lost' = can_rx_message_lost + (IF ReadStatus = 3 THEN 1 ELSE 0)
      /\ published \in Seq(Entries) /\ e \in Entries
  BY PublishedEntry DEF GetDataAndPublish, CanGetData, TypeOK
<1>2. LossIsNoticed' /\ can_rx_message_lost' >= can_rx_message_lost /\ can_rx_message_lost' \in Nat
  BY <1>1, DamageFacts, ReadNotices, TypesOfCanGetData
<1>3. LostFrames' \subseteq LostFrames
  <2>1. ReadFrames \subseteq ReadFrames' /\ (new_dat[isr_box] => frame[isr_box] \in ReadFrames')
    BY PublishKeepsFrames
  <2>2. WaitingFrames \subseteq WaitingFrames' \cup ReadFrames'
    BY <1>1, <2>1, OthersWait
  <2>3. QED
    BY <1>1, <2>1, <2>2 DEF LostFrames
<1>4. Cardinality(LostFrames)' <= can_rx_queue_overflow'
  <2>1. Cardinality(LostFrames') <= Cardinality(LostFrames) /\ Cardinality(LostFrames') \in Nat
    BY <1>3, FiniteFacts, FS_Subset, FS_CardinalityType
  <2>2. QED
    BY <1>1, <2>1, DamageFacts, FiniteFacts
<1>5. CASE ReadStatus = 0
  <2>1. published' = published
    BY <1>5 DEF GetDataAndPublish
  <2>2. WrongEntries' = WrongEntries
    BY <2>1 DEF WrongEntries, WrongEntry
  <2>3. Cardinality(WrongEntries)' <= can_rx_message_lost'
    BY <1>1, <1>2, <2>2, DamageFacts, FiniteFacts
  <2>4. QED
    BY <1>2, <1>4, <2>3 DEF DamageIsCounted, LossIsCounted, WrongEntryIsCounted,
                           LostFrames, LossIsNoticed, WrongEntries
<1>6. CASE ReadStatus # 0
  <2>1. published' = Append(published, e)
    BY <1>6 DEF GetDataAndPublish
  <2>2. e.id = can_rx_id[can_rx_head] /\ e.data = can_rx_data'[can_rx_head]
    BY DEF Entry
  <2> HIDE DEF e
  <2>3. /\ Len(published) \in Nat /\ Len(published') = Len(published) + 1
        /\ \A k \in 1..Len(published) : published'[k] = published[k]
        /\ published'[Len(published) + 1] = e
    BY <1>1, <2>1
  <2>4. ASSUME NEW k \in 1..Len(published)
        PROVE  WrongEntry(k)' <=> WrongEntry(k)
    BY <2>3 DEF WrongEntry
  <2>5. WrongEntries' \subseteq WrongEntries \cup {Len(published) + 1}
    BY <2>3, <2>4 DEF WrongEntries
  <2>6. CASE ReadStatus = 3
    <3>1. Cardinality(WrongEntries') <= Cardinality(WrongEntries) + 1
      BY <2>5, FiniteFacts, OneMore
    <3>2. Cardinality(WrongEntries') \in Nat
      BY <2>5, FiniteFacts, FS_AddElement, FS_Subset, FS_CardinalityType
    <3>3. Cardinality(WrongEntries)' <= can_rx_message_lost'
      BY <1>1, <2>6, <3>1, <3>2, DamageFacts, FiniteFacts
    <3>4. QED
      BY <1>2, <1>4, <3>3 DEF DamageIsCounted, LossIsCounted, WrongEntryIsCounted,
                             LostFrames, LossIsNoticed, WrongEntries
  <2>7. CASE ReadStatus # 3
    <3>1. new_dat[isr_box] /\ ~msg_lst[isr_box]
      BY <1>6, <2>7 DEF ReadStatus, MsgLstSeen
    <3>2. e.id = frame[isr_box] /\ e.data = frame[isr_box]
      <4>1. can_rx_id[can_rx_head] = frame[isr_box]
        BY <1>1, <3>1 DEF BoxPart, FrameInv
      <4>2. can_rx_data'[can_rx_head] = frame[isr_box]
        BY <3>1 DEF GetDataAndPublish, TypeOK
      <4>3. QED
        BY <2>2, <4>1, <4>2
    <3>3. \A j \in 1..Len(published) : published[j].data # frame[isr_box]
      BY <1>1, <3>1 DEF BoxPart, FrameInv, ReadFrames
    <3>4. ASSUME NEW k \in 1..Len(published'), k = Len(published) + 1
          PROVE  ~WrongEntry(k)'
      BY <2>3, <3>2, <3>3, <3>4 DEF WrongEntry
    <3>5. WrongEntries' \subseteq WrongEntries
      BY <2>5, <3>4 DEF WrongEntries
    <3>6. Cardinality(WrongEntries') <= Cardinality(WrongEntries) /\ Cardinality(WrongEntries') \in Nat
      BY <3>5, FiniteFacts, FS_Subset, FS_CardinalityType
    <3>7. Cardinality(WrongEntries)' <= can_rx_message_lost'
      BY <1>1, <1>2, <3>6, DamageFacts, FiniteFacts
    <3>8. QED
      BY <1>2, <1>4, <3>7 DEF DamageIsCounted, LossIsCounted, WrongEntryIsCounted,
                             LostFrames, LossIsNoticed, WrongEntries
  <2>8. QED
    BY <2>6, <2>7
<1>7. QED
  BY <1>5, <1>6

LEMMA LossKeeps == TypeOK /\ BoxPart /\ DamageIsCounted /\ [Next]_vars => BoxPart' /\ DamageIsCounted'
<1> SUFFICES ASSUME TypeOK, BoxPart, DamageIsCounted, [Next]_vars
             PROVE  BoxPart' /\ DamageIsCounted'
  OBVIOUS
<1>1. ASSUME NEW b \in Boxes, Receive(b)
      PROVE  BoxPart' /\ DamageIsCounted'
  BY <1>1, ReceiveKeepsBoxes, ReceiveKeepsCounts
<1>2. ASSUME NEW b \in Boxes, Interrupt(b)
      PROVE  BoxPart' /\ DamageIsCounted'
  <2>1. UNCHANGED <<frame, new_dat, msg_lst, published, received, overwritten,
                    can_rx_queue_overflow, can_rx_message_lost>>
    BY <1>2 DEF Interrupt, counters
  <2>2. DamageIsCounted'
    BY <2>1 DEF DamageIsCounted, LossIsCounted, WrongEntryIsCounted, WrongEntry, ReadFrames,
                WaitingFrames
  <2>3. QED
    BY <1>2, <2>2, InterruptKeepsBoxes
<1>3. CASE GetId
  <2>1. UNCHANGED <<frame, new_dat, msg_lst, published, received, overwritten,
                    can_rx_queue_overflow, can_rx_message_lost>>
    BY <1>3 DEF GetId, counters, boxVars
  <2>2. DamageIsCounted'
    BY <2>1 DEF DamageIsCounted, LossIsCounted, WrongEntryIsCounted, WrongEntry, ReadFrames,
                WaitingFrames
  <2>3. QED
    BY <1>3, <2>2, GetIdKeepsBoxes
<1>4. CASE GetDataAndPublish
  <2>1. CanGetData /\ isr_pc # "idle" /\ isr_pc' = "idle"
    BY <1>4 DEF GetDataAndPublish
  <2>2. NoFrameForgotten' /\ RequestInv'
    BY <2>1, ReadKeepsRequests
  <2>3. QED
    BY <1>4, <2>2, PublishKeepsFrames, PublishKeepsCounts DEF BoxPart
<1>5. CASE Discard
  <2>1. CanGetData /\ isr_pc # "idle" /\ isr_pc' = "idle" /\ published' = published
        /\ can_rx_data' = can_rx_data
    BY <1>5 DEF Discard, ringVars
  <2>2. NoFrameForgotten' /\ RequestInv'
        /\ \A c \in Boxes : new_dat'[c] <=> new_dat[c] /\ c # isr_box
    BY <2>1, ReadKeepsRequests
  <2>3. frame' = frame /\ received' = received
    BY <2>1 DEF CanGetData
  <2>4. FrameInv'
    <3>1. ReadFrames' = ReadFrames
      BY <2>1 DEF ReadFrames
    <3>2. \A c \in Boxes : new_dat'[c] => new_dat[c]
      BY <2>2
    <3>3. isr_pc' # "data"
      BY <2>1
    <3>4. QED
      BY <2>1, <2>3, <3>1, <3>2, <3>3 DEF BoxPart, FrameInv
  <2>5. QED
    BY <1>5, <2>2, <2>4, DiscardKeepsCounts DEF BoxPart
<1>6. CASE Main
  <2>1. MainStep
    BY <1>6 DEF Main, BeginCall, CheckEmpty, PopId, PopSource, PopData, AdvanceAndDispatch
  <2>2. UNCHANGED lossVars
    BY <2>1 DEF MainStep, lossVars, ringVars
  <2>3. QED
    BY <2>2, BoxesUntouched
<1>7. CASE UNCHANGED vars
  <2>1. UNCHANGED lossVars
    BY <1>7 DEF vars, lossVars, ringVars
  <2>2. QED
    BY <2>1, BoxesUntouched
<1>8. QED
  BY <1>1, <1>2, <1>3, <1>4, <1>5, <1>6, <1>7 DEF Next, Isr

-----------------------------------------------------------------------------
(* The theorems *)

LEMMA InitHolds == Init => IInv
<1> SUFFICES ASSUME Init PROVE IInv
  OBVIOUS
<1>1. TypeOK
  <2>1. 0 \in Slots /\ 0 \in Frames /\ 0 \in 0..ProcessLimit
    BY CanRxAssumption DEF Slots, Frames
  <2>2. PICK n \in Nodes : can_rx_source = [i \in Slots |-> n]
    BY DEF Init
  <2>3. can_rx_source \in [Slots -> Nodes] /\ pop_source \in Nodes
    BY <2>1, <2>2 DEF Init
  <2>4. published \in Seq(Entries) /\ dispatched \in Seq(Entries)
    BY DEF Init
  <2>5. /\ new_dat \in [Boxes -> BOOLEAN] /\ msg_lst \in [Boxes -> BOOLEAN]
        /\ int_pnd \in [Boxes -> BOOLEAN] /\ if2_msg_lst \in [Nodes -> BOOLEAN]
    BY DEF Init
  <2>6. QED
    BY <2>1, <2>3, <2>4, <2>5 DEF Init, TypeOK
<1>2. Len(published) = 0 /\ Len(dispatched) = 0
  BY DEF Init
<1>3. DispatchedAsPublished
  BY <1>1, <1>2 DEF DispatchedAsPublished
<1>4. RingInv
  <2>1. InFlight = 0 /\ Place(0, 0) = 0
    BY <1>2, CanRxAssumption DEF InFlight, Place
  <2>2. InFlight \in 0..(QueueSize - 1) /\ 0..(InFlight - 1) = {}
    BY <2>1, CanRxAssumption
  <2>3. QED
    BY <2>1, <2>2 DEF RingInv, Init
<1>5. CopyInv
  BY DEF Init, CopyInv
<1>6. NoFrameForgotten /\ RequestInv
  BY DEF Init, NoFrameForgotten, RequestInv, Handling
<1>7. ReadFrames = {} /\ received = 0 /\ overwritten = {}
  BY <1>2 DEF Init, ReadFrames
<1>8. FrameInv
  BY <1>7 DEF Init, FrameInv
<1>9. DamageIsCounted
  <2>1. LostFrames = {} /\ WrongEntries = {}
    BY <1>2, <1>7 DEF LostFrames, WrongEntries
  <2>2. LossIsNoticed
    BY <1>7 DEF LossIsNoticed
  <2>3. can_rx_queue_overflow = 0 /\ can_rx_message_lost = 0
    BY DEF Init
  <2>4. QED
    BY <2>1, <2>2, <2>3, DamageFacts, FS_EmptySet
<1>10. QED
  BY <1>3, <1>4, <1>5, <1>6, <1>8, <1>9 DEF IInv

LEMMA NextKeeps == IInv /\ [Next]_vars => IInv'
BY RingKeeps, LossKeeps DEF IInv, RingPart, BoxPart, DispatchedAsPublished

\* The invariant that carries both properties.
THEOREM Invariance == Spec => []IInv
BY InitHolds, NextKeeps, PTL DEF Spec

\* can_rx_queue_pop and its handlers get every entry as can_rx_queue_push_isr
\* published it, whole and in order, for rings of every size.
THEOREM EntriesArriveWhole == Spec => []DispatchedAsPublished
<1>1. IInv => DispatchedAsPublished
  BY DEF IInv
<1>2. QED
  BY Invariance, <1>1, PTL

\* The receive interrupt forgets no frame, and counts every frame that is lost
\* and every entry that mixes two frames.
THEOREM LossIsNeverSilent == Spec => []NoFrameIsLostUnnoticed
<1>1. IInv => NoFrameIsLostUnnoticed
  BY DEF IInv, NoFrameIsLostUnnoticed
<1>2. QED
  BY Invariance, <1>1, PTL
=============================================================================
