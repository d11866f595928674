------------------------------- MODULE CanRx -------------------------------
(***************************************************************************)
(* Reception of CAN frames (Drivers/can_if.c): the receive interrupt reads *)
(* a message box of the CAN controller into a ring, and the main loop      *)
(* takes the entries out and hands them to their handlers.                 *)
(*                                                                         *)
(* Three parties run concurrently.  The controller (external) stores       *)
(* frames into its message boxes at any time.  The interrupt, which is not *)
(* interrupted itself, reads the identifier and the data of a box in two   *)
(* transfers.  The main loop, which the interrupt may preempt anywhere,    *)
(* copies an entry field by field before it advances the tail.             *)
(*                                                                         *)
(* A frame is its number in the order of arrival.  An entry should have    *)
(* the identifier, the source bus and the data of one frame.               *)
(***************************************************************************)
EXTENDS Naturals, Sequences, FiniteSets

CONSTANTS
  QueueSize,     \* CAN_RX_QUEUE_SIZE: slots of the ring, one kept empty
  ProcessLimit,  \* CAN_RX_PROCESS_LIMIT: entries handled in one call
  Nodes,         \* the CAN controllers, one for each bus
  Boxes,         \* the message boxes that receive
  NodeOf,        \* the controller of each box
  MaxFrames      \* bound: frames on the buses in a behaviour

ASSUME CanRxAssumption ==
  /\ QueueSize \in Nat /\ QueueSize >= 2
  /\ ProcessLimit \in Nat \ {0}
  /\ NodeOf \in [Boxes -> Nodes]
  /\ MaxFrames \in Nat

Slots == 0..(QueueSize - 1)
Frames == 0..MaxFrames   \* 0: no frame yet

VARIABLES
  can_rx_id, can_rx_source, can_rx_data,   \* can_rx_queue, by field
  can_rx_head, can_rx_tail,
  can_rx_queue_overflow, can_rx_message_lost, can_rx_read_failures,
  isr_pc, isr_box,                         \* the receive interrupt
  main_pc, count, pop_id, pop_source, pop_data,   \* can_if_process_rx_pending
  \* The controllers (external).
  frame,        \* the frame each box holds
  new_dat,      \* NewDat: it has not been read
  msg_lst,      \* MsgLst: a frame was overwritten unread; nothing clears it
  int_pnd,      \* IntPnd: the box requests an interrupt
  if2_msg_lst,  \* MsgLst in IF2MCTL of each controller: as of the last read
  \* History.
  received,     \* number of frames so far
  overwritten,  \* frames replaced in their box before they were read
  published,    \* the entries the interrupt published, in order
  dispatched    \* the entries handed to can_if_process_rx, in order

ringVars == <<can_rx_id, can_rx_source, can_rx_data, can_rx_head>>
counters == <<can_rx_queue_overflow, can_rx_message_lost, can_rx_read_failures>>
popVars == <<main_pc, count, pop_id, pop_source, pop_data, can_rx_tail, dispatched>>
boxVars == <<frame, new_dat, msg_lst, int_pnd>>
vars == <<ringVars, counters, popVars, boxVars, if2_msg_lst, isr_pc, isr_box,
          received, overwritten, published>>

\* What a step of the main loop leaves alone.
MainStep == UNCHANGED <<ringVars, counters, boxVars, if2_msg_lst, isr_pc, isr_box,
                        received, overwritten, published>>

Entry(id, source, data) == [id |-> id, source |-> source, data |-> data]

(***************************************************************************)
(* Slips a programmer could make in the definitions below.  Nothing uses   *)
(* them: put in the place of the originals, they make the properties fail. *)
(***************************************************************************)

\* A frame that is thrown away and not counted.
DiscardUncounted ==
  /\ isr_pc = "discard"
  /\ isr_pc' = "idle"
  /\ new_dat' = [new_dat EXCEPT ![isr_box] = FALSE]
  /\ UNCHANGED <<ringVars, counters, popVars, frame, msg_lst, int_pnd, if2_msg_lst,
                 isr_box, received, overwritten, published>>

\* A copy that takes the data from the slot behind.
PopDataOfNext ==
  /\ isr_pc = "idle" /\ main_pc = "data"
  /\ pop_data' = can_rx_data[IF can_rx_tail + 1 = QueueSize THEN 0 ELSE can_rx_tail + 1]
  /\ main_pc' = "advance"
  /\ UNCHANGED <<count, pop_id, pop_source, can_rx_tail, dispatched>>
  /\ MainStep

\* A call that does not start counting afresh.
BeginCallCountingOn ==
  /\ isr_pc = "idle" /\ main_pc = "away"
  /\ main_pc' = "check"
  /\ UNCHANGED <<count, pop_id, pop_source, pop_data, can_rx_tail, dispatched>>
  /\ MainStep

(***************************************************************************)
(* The ring                                                                *)
(***************************************************************************)

\* (index + 1U) % CAN_RX_QUEUE_SIZE
NextIndex(i) == IF i + 1 = QueueSize THEN 0 ELSE i + 1

RingIsFull == NextIndex(can_rx_head) = can_rx_tail

-----------------------------------------------------------------------------
Init ==
  /\ can_rx_id = [i \in Slots |-> 0]
  /\ can_rx_source \in {[i \in Slots |-> n] : n \in Nodes}
  /\ can_rx_data = [i \in Slots |-> 0]
  /\ can_rx_head = 0 /\ can_rx_tail = 0
  /\ can_rx_queue_overflow = 0 /\ can_rx_message_lost = 0 /\ can_rx_read_failures = 0
  /\ isr_pc = "idle" /\ isr_box \in Boxes
  /\ main_pc = "away" /\ count = 0
  /\ pop_id = 0 /\ pop_source = can_rx_source[0] /\ pop_data = 0
  /\ frame = [b \in Boxes |-> 0]
  /\ new_dat = [b \in Boxes |-> FALSE]
  /\ msg_lst = [b \in Boxes |-> FALSE]
  /\ int_pnd = [b \in Boxes |-> FALSE]
  /\ if2_msg_lst = [n \in Nodes |-> FALSE]
  /\ received = 0 /\ overwritten = {}
  /\ published = <<>> /\ dispatched = <<>>

(***************************************************************************)
(* The controller stores a frame into a box that accepts it (external).    *)
(***************************************************************************)
Receive(b) ==
  /\ received < MaxFrames
  /\ received' = received + 1
  /\ frame' = [frame EXCEPT ![b] = received + 1]
  /\ new_dat' = [new_dat EXCEPT ![b] = TRUE]
  /\ msg_lst' = [msg_lst EXCEPT ![b] = @ \/ new_dat[b]]
  /\ int_pnd' = [int_pnd EXCEPT ![b] = TRUE]
  /\ overwritten' = IF new_dat[b] THEN overwritten \cup {frame[b]} ELSE overwritten
  /\ UNCHANGED <<ringVars, counters, popVars, if2_msg_lst, isr_pc, isr_box, published>>

(***************************************************************************)
(* can1HighLevelInterrupt, can2HighLevelInterrupt: clear IntPnd of the box *)
(* and call canMessageNotification, which calls can_rx_queue_push_isr.     *)
(***************************************************************************)
Interrupt(b) ==
  /\ isr_pc = "idle"
  /\ int_pnd[b]
  /\ int_pnd' = [int_pnd EXCEPT ![b] = FALSE]
  /\ isr_box' = b
  /\ isr_pc' = IF RingIsFull THEN "discard" ELSE "id"
  /\ UNCHANGED <<ringVars, counters, popVars, frame, new_dat, msg_lst, if2_msg_lst,
                 received, overwritten, published>>

\* canGetID, and the source of the entry.
GetId ==
  /\ isr_pc = "id"
  /\ isr_pc' = "data"
  /\ can_rx_id' = [can_rx_id EXCEPT ![can_rx_head] = frame[isr_box]]
  /\ can_rx_source' = [can_rx_source EXCEPT ![can_rx_head] = NodeOf[isr_box]]
  /\ UNCHANGED <<can_rx_data, can_rx_head, counters, popVars, boxVars, if2_msg_lst,
                 isr_box, received, overwritten, published>>

(***************************************************************************)
(* canGetData reads the box and clears NewDat, but only if NewDat is set;  *)
(* the MsgLst it then looks at is that of the last box read on this        *)
(* controller.  It returns 0 (no data), 1 (data) or 3 (a frame was lost).  *)
(***************************************************************************)
MsgLstSeen == IF new_dat[isr_box] THEN msg_lst[isr_box] ELSE if2_msg_lst[NodeOf[isr_box]]

ReadStatus == IF MsgLstSeen THEN 3 ELSE IF new_dat[isr_box] THEN 1 ELSE 0

CanGetData ==
  /\ new_dat' = [new_dat EXCEPT ![isr_box] = FALSE]
  /\ if2_msg_lst' = [if2_msg_lst EXCEPT ![NodeOf[isr_box]] = MsgLstSeen]
  /\ can_rx_message_lost' = can_rx_message_lost + (IF ReadStatus = 3 THEN 1 ELSE 0)
  /\ can_rx_read_failures' = can_rx_read_failures + (IF ReadStatus = 0 THEN 1 ELSE 0)
  /\ UNCHANGED <<frame, msg_lst, int_pnd, received, overwritten, isr_box, popVars>>

\* The data goes into the slot of the head, which is then published.
GetDataAndPublish ==
  /\ isr_pc = "data"
  /\ isr_pc' = "idle"
  /\ CanGetData
  /\ can_rx_data' = IF new_dat[isr_box]
                    THEN [can_rx_data EXCEPT ![can_rx_head] = frame[isr_box]]
                    ELSE can_rx_data
  /\ IF ReadStatus = 0
     THEN UNCHANGED <<can_rx_head, published>>
     ELSE /\ can_rx_head' = NextIndex(can_rx_head)
          /\ published' = Append(published, Entry(can_rx_id[can_rx_head],
                                                  can_rx_source[can_rx_head],
                                                  can_rx_data'[can_rx_head]))
  /\ UNCHANGED <<can_rx_id, can_rx_source, can_rx_queue_overflow>>

\* The ring is full: the frame is read and thrown away.
Discard ==
  /\ isr_pc = "discard"
  /\ isr_pc' = "idle"
  /\ CanGetData
  /\ can_rx_queue_overflow' = can_rx_queue_overflow + 1
  /\ UNCHANGED <<ringVars, published>>

(***************************************************************************)
(* can_if_process_rx_pending in the main loop, preempted anywhere: up to   *)
(* ProcessLimit times can_rx_queue_pop and can_if_process_rx.              *)
(***************************************************************************)
BeginCall ==
  /\ isr_pc = "idle" /\ main_pc = "away"
  /\ main_pc' = "check" /\ count' = 0
  /\ UNCHANGED <<pop_id, pop_source, pop_data, can_rx_tail, dispatched>>
  /\ MainStep

CheckEmpty ==
  /\ isr_pc = "idle" /\ main_pc = "check"
  /\ main_pc' = IF count < ProcessLimit /\ can_rx_tail # can_rx_head THEN "id" ELSE "away"
  /\ UNCHANGED <<count, pop_id, pop_source, pop_data, can_rx_tail, dispatched>>
  /\ MainStep

PopId ==
  /\ isr_pc = "idle" /\ main_pc = "id"
  /\ pop_id' = can_rx_id[can_rx_tail]
  /\ main_pc' = "source"
  /\ UNCHANGED <<count, pop_source, pop_data, can_rx_tail, dispatched>>
  /\ MainStep

PopSource ==
  /\ isr_pc = "idle" /\ main_pc = "source"
  /\ pop_source' = can_rx_source[can_rx_tail]
  /\ main_pc' = "data"
  /\ UNCHANGED <<count, pop_id, pop_data, can_rx_tail, dispatched>>
  /\ MainStep

PopData ==
  /\ isr_pc = "idle" /\ main_pc = "data"
  /\ pop_data' = can_rx_data[can_rx_tail]
  /\ main_pc' = "advance"
  /\ UNCHANGED <<count, pop_id, pop_source, can_rx_tail, dispatched>>
  /\ MainStep

\* Free the slot and handle the entry.
AdvanceAndDispatch ==
  /\ isr_pc = "idle" /\ main_pc = "advance"
  /\ can_rx_tail' = NextIndex(can_rx_tail)
  /\ dispatched' = Append(dispatched, Entry(pop_id, pop_source, pop_data))
  /\ count' = count + 1
  /\ main_pc' = "check"
  /\ UNCHANGED <<pop_id, pop_source, pop_data>>
  /\ MainStep

Isr == (\E b \in Boxes : Interrupt(b)) \/ GetId \/ GetDataAndPublish \/ Discard
Main == BeginCall \/ CheckEmpty \/ PopId \/ PopSource \/ PopData \/ AdvanceAndDispatch

Next == (\E b \in Boxes : Receive(b)) \/ Isr \/ Main

Spec == Init /\ [][Next]_vars

(***************************************************************************)
(* A requested interrupt is taken and finishes; frames do not come so fast *)
(* that the main loop never runs.                                          *)
(***************************************************************************)
FairSpec == Spec /\ WF_vars(Isr) /\ WF_vars(Main)

-----------------------------------------------------------------------------
(* Properties *)

Entries == [id : Frames, source : Nodes, data : Frames]

TypeOK ==
  /\ can_rx_id \in [Slots -> Frames]
  /\ can_rx_source \in [Slots -> Nodes]
  /\ can_rx_data \in [Slots -> Frames]
  /\ can_rx_head \in Slots /\ can_rx_tail \in Slots
  /\ can_rx_queue_overflow \in Nat
  /\ can_rx_message_lost \in Nat
  /\ can_rx_read_failures \in Nat
  /\ isr_pc \in {"idle", "id", "data", "discard"} /\ isr_box \in Boxes
  /\ main_pc \in {"away", "check", "id", "source", "data", "advance"}
  /\ count \in 0..ProcessLimit
  /\ pop_id \in Frames /\ pop_source \in Nodes /\ pop_data \in Frames
  /\ frame \in [Boxes -> Frames]
  /\ new_dat \in [Boxes -> BOOLEAN]
  /\ msg_lst \in [Boxes -> BOOLEAN]
  /\ int_pnd \in [Boxes -> BOOLEAN]
  /\ if2_msg_lst \in [Nodes -> BOOLEAN]
  /\ received \in Frames /\ overwritten \subseteq Frames
  /\ published \in Seq(Entries) /\ dispatched \in Seq(Entries)

\* What the interrupt publishes is what the handlers get, complete and in
\* order, wherever the interrupt preempts the copy and however the indices
\* have wrapped.
DispatchedAsPublished ==
  /\ TypeOK
  /\ Len(dispatched) <= Len(published)
  /\ \A k \in 1..Len(dispatched) : dispatched[k] = published[k]

\* The order "clear IntPnd, then read" loses no frame: one that nobody has
\* read yet has a request pending or is in the hands of the interrupt.
NoFrameForgotten == \A b \in Boxes :
  new_dat[b] => int_pnd[b] \/ (isr_pc # "idle" /\ isr_box = b)

\* A frame is read into the ring, thrown away and counted in
\* can_rx_queue_overflow, or overwritten and, when its box is next read,
\* noticed in can_rx_message_lost.
ReadFrames == {published[k].data : k \in 1..Len(published)}
WaitingFrames == {frame[b] : b \in {c \in Boxes : new_dat[c]}}

LossIsCounted ==
  /\ Cardinality((1..received) \ (ReadFrames \cup WaitingFrames \cup overwritten))
       <= can_rx_queue_overflow
  /\ overwritten # {} => \/ can_rx_message_lost > 0
                         \/ \E b \in Boxes : new_dat[b] /\ msg_lst[b]

\* An entry can combine two frames or repeat an old one only if frames came
\* too fast, and then can_rx_message_lost has counted it.
WrongEntry(k) ==
  \/ published[k].id # published[k].data
  \/ \E j \in 1..(k - 1) : published[j].data = published[k].data

WrongEntryIsCounted ==
  Cardinality({k \in 1..Len(published) : WrongEntry(k)}) <= can_rx_message_lost

\* Neither kind of damage goes unnoticed.
DamageIsCounted == LossIsCounted /\ WrongEntryIsCounted

\* A frame that comes in is neither forgotten by the interrupt nor damaged
\* without a trace (can_rx_queue_push_isr).
NoFrameIsLostUnnoticed == NoFrameForgotten /\ DamageIsCounted

\* Every published entry reaches its handler, however few a call handles.
EveryEntryDispatched == \A n \in 1..MaxFrames :
  Len(published) >= n ~> Len(dispatched) >= n

\* can_if.c:397: "Publish the entry only after all fields have been written."
\* The data of an entry that is published is what the box held unread.
PublishedAfterWritten ==
  [][published' # published => new_dat[isr_box]]_vars

=============================================================================
