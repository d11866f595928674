------------------------------- MODULE CanBus -------------------------------
(***************************************************************************)
(* The program at the interface registers of the CAN controllers: it       *)
(* prepares them (the end of canInit), gives its transmit boxes their      *)
(* identifiers (can_configure_device_ids) and then sends on both buses     *)
(* (can_transmit_redundant).                                               *)
(*                                                                         *)
(* A transfer takes several writes: a command, the values and at last the  *)
(* number of the box, which starts it.  The receive interrupt may come     *)
(* between any two, and uses both register sets for itself.  The           *)
(* controllers (external) transfer, and send what is requested, in any     *)
(* order of the boxes.                                                     *)
(***************************************************************************)
EXTENDS CanIds, Sequences

CONSTANTS
  Configured,    \* the identifiers that are configured, in order
  Used,          \* the boxes that are sent from
  OffsetOfCpu,   \* of this CPU among the four
  MaxCalls,      \* bound: calls of can_transmit_redundant
  MaxInterrupts  \* bound: receive interrupts

VARIABLES
  if1_cmd, if1_data,       \* IF1CMD and IF1DAT of each controller
  if2_cmd, if2_arb,        \* IF2CMD and IF2ARB
  msg_id, msg_data,        \* the message objects of the transmit boxes
  txrq,                    \* TxRqst of each box
  pc, node, update,        \* the program: canUpdateID of an entry of Configured,
  box, data, mask,         \* or can_transmit_redundant
  can1_tx_reject_count, can2_tx_reject_count, can_dual_tx_reject_count,
  interrupts,
  \* History.
  accepted, wire           \* what each box was given to send, and has sent

ifVars == <<if1_cmd, if1_data, if2_cmd, if2_arb>>
objectVars == <<msg_id, msg_data, txrq>>
rejectCounts == <<can1_tx_reject_count, can2_tx_reject_count, can_dual_tx_reject_count>>
callVars == <<node, update, box, data, mask>>
busVars == <<ifVars, objectVars, pc, callVars, rejectCounts, interrupts, accepted, wire>>

TxBoxes == {b \in BoxNumbers : BoxOf(1, b).dir = "tx"}

ASSUME CanBusAssumption == Used \subseteq TxBoxes

\* IF1CMD and IF2CMD, by what the transfer does.
CONFIGURE == "0xF8: write all of a box"
SEND == "0x87: write data, request transmission"
CLEAR_INT_PND == "0x08: clear IntPnd"
READ_DATA == "0x17: read data and control"
WRITE_ID == "0xA0: write arbitration"

RxArb == 0   \* the arbitration of a receive box

-----------------------------------------------------------------------------
BusInit ==
  /\ if1_cmd = [n \in Controllers |-> CONFIGURE] /\ if1_data = [n \in Controllers |-> 0]
  /\ if2_cmd = [n \in Controllers |-> CONFIGURE] /\ if2_arb = [n \in Controllers |-> RxArb]
  /\ msg_id = [n \in Controllers |-> [b \in TxBoxes |-> BoxOf(n, b).id]]
  /\ msg_data = [n \in Controllers |-> [b \in TxBoxes |-> 0]]
  /\ txrq = [n \in Controllers |-> {}]
  /\ pc = "interface" /\ node = 1 /\ update = 1
  /\ box = 0 /\ data = 0 /\ mask = {}
  /\ can1_tx_reject_count = 0 /\ can2_tx_reject_count = 0 /\ can_dual_tx_reject_count = 0
  /\ interrupts = 0
  /\ accepted = [n \in Controllers |-> [b \in TxBoxes |-> <<>>]]
  /\ wire = [n \in Controllers |-> [b \in TxBoxes |-> <<>>]]

(***************************************************************************)
(* The end of canInit for each controller: the commands for sending and    *)
(* reading, the bit timing and the pins.  Until then it is on no bus.      *)
(***************************************************************************)
PrepareInterface(n) ==
  /\ pc = "interface" /\ node = n
  /\ if1_cmd' = [if1_cmd EXCEPT ![n] = SEND]
  /\ if2_cmd' = [if2_cmd EXCEPT ![n] = READ_DATA]
  /\ node' = 3 - n
  /\ pc' = IF n = 1 THEN pc ELSE "update"
  /\ UNCHANGED <<if1_data, if2_arb, objectVars, update, box, data, mask, rejectCounts, interrupts,
                 accepted, wire>>

Can1InterfaceInit == PrepareInterface(1)
Can2InterfaceInit == PrepareInterface(2)

OnBus(n) == pc # "interface" \/ n < node

(***************************************************************************)
(* canUpdateID                                                             *)
(***************************************************************************)
CommandId ==
  /\ pc = "update" /\ update <= Len(Configured)
  /\ if2_cmd' = [if2_cmd EXCEPT ![node] = WRITE_ID]
  /\ pc' = "arbitration"
  /\ UNCHANGED <<if1_cmd, if1_data, if2_arb, objectVars, callVars, rejectCounts, interrupts,
                 accepted, wire>>

\* 0x60000000 | (base + device_offset)
WriteArbitration ==
  /\ pc = "arbitration"
  /\ if2_arb' = [if2_arb EXCEPT ![node] = Configured[update].base + OffsetOfCpu]
  /\ pc' = "id"
  /\ UNCHANGED <<if1_cmd, if1_data, if2_cmd, objectVars, callVars, rejectCounts, interrupts,
                 accepted, wire>>

\* The number of the box starts the transfer that IF2CMD says.
TransferId ==
  /\ pc = "id"
  /\ msg_id' = IF if2_cmd[node] = WRITE_ID
               THEN [msg_id EXCEPT ![node][Configured[update].box] = if2_arb[node]]
               ELSE msg_id
  /\ pc' = "update"
  /\ IF node = 1 THEN node' = 2 /\ UNCHANGED update
                 ELSE node' = 1 /\ update' = update + 1
  /\ UNCHANGED <<ifVars, msg_data, txrq, box, data, mask, rejectCounts, interrupts, accepted, wire>>

StartSending ==
  /\ pc = "update" /\ update > Len(Configured)
  /\ pc' = "idle"
  /\ UNCHANGED <<ifVars, objectVars, callVars, rejectCounts, interrupts, accepted, wire>>

(***************************************************************************)
(* Slips a programmer could make in the definitions below.  Nothing uses   *)
(* them: put in the place of the originals, they make the properties fail. *)
(***************************************************************************)

\* An interrupt that leaves the command register as it used it.
InterruptUnrestored(n) ==
  /\ OnBus(n) /\ interrupts < MaxInterrupts
  /\ interrupts' = interrupts + 1
  /\ if1_cmd' = [if1_cmd EXCEPT ![n] = CLEAR_INT_PND]
  /\ if2_cmd' = [if2_cmd EXCEPT ![n] = READ_DATA]
  /\ if2_arb' = [if2_arb EXCEPT ![n] = RxArb]
  /\ UNCHANGED <<if1_data, objectVars, pc, callVars, rejectCounts, accepted, wire>>

(***************************************************************************)
(* can_transmit_redundant: canTransmit on CAN1, then on CAN2               *)
(***************************************************************************)
BeginTransmit(b) ==
  /\ pc = "idle" /\ data < MaxCalls
  /\ pc' = "check" /\ node' = 1 /\ mask' = {}
  /\ box' = b /\ data' = data + 1
  /\ UNCHANGED <<ifVars, objectVars, update, rejectCounts, interrupts, accepted, wire>>

\* After canTransmit on a controller: go on, or count and end the call.
AfterTransmit(result) ==
  /\ mask' = IF result THEN mask \cup {node} ELSE mask
  /\ can1_tx_reject_count' = can1_tx_reject_count + (IF node = 1 /\ ~result THEN 1 ELSE 0)
  /\ can2_tx_reject_count' = can2_tx_reject_count + (IF node = 2 /\ ~result THEN 1 ELSE 0)
  /\ can_dual_tx_reject_count' =
       can_dual_tx_reject_count + (IF node = 2 /\ mask' = {} THEN 1 ELSE 0)
  /\ node' = 3 - node
  /\ pc' = IF node = 1 THEN "check" ELSE "idle"
  /\ UNCHANGED <<update, box, data>>

Refuse ==
  /\ pc = "check" /\ box \in txrq[node]
  /\ AfterTransmit(FALSE)
  /\ UNCHANGED <<ifVars, objectVars, interrupts, accepted, wire>>

Check ==
  /\ pc = "check" /\ box \notin txrq[node]
  /\ pc' = "command"
  /\ UNCHANGED <<ifVars, objectVars, callVars, rejectCounts, interrupts, accepted, wire>>

CommandData ==
  /\ pc = "command"
  /\ if1_cmd' = [if1_cmd EXCEPT ![node] = SEND]
  /\ pc' = "data"
  /\ UNCHANGED <<if1_data, if2_cmd, if2_arb, objectVars, callVars, rejectCounts, interrupts,
                 accepted, wire>>

WriteData ==
  /\ pc = "data"
  /\ if1_data' = [if1_data EXCEPT ![node] = data]
  /\ pc' = "transfer"
  /\ UNCHANGED <<if1_cmd, if2_cmd, if2_arb, objectVars, callVars, rejectCounts, interrupts,
                 accepted, wire>>

TransferData ==
  /\ pc = "transfer"
  /\ IF if1_cmd[node] = SEND
     THEN /\ msg_data' = [msg_data EXCEPT ![node][box] = if1_data[node]]
          /\ txrq' = [txrq EXCEPT ![node] = @ \cup {box}]
     ELSE UNCHANGED <<msg_data, txrq>>
  /\ accepted' = [accepted EXCEPT ![node][box] = Append(@, data)]
  /\ AfterTransmit(TRUE)
  /\ UNCHANGED <<ifVars, msg_id, interrupts, wire>>

(***************************************************************************)
(* can1HighLevelInterrupt, can2HighLevelInterrupt with canGetID and        *)
(* canGetData, not interrupted themselves: IF1 clears the request and gets *)
(* the command for sending back, IF2 is left as the reading used it.       *)
(***************************************************************************)
ReceiveInterrupt(n) ==
  /\ OnBus(n) /\ interrupts < MaxInterrupts
  /\ interrupts' = interrupts + 1
  /\ if1_cmd' = [if1_cmd EXCEPT ![n] = SEND]
  /\ if2_cmd' = [if2_cmd EXCEPT ![n] = READ_DATA]
  /\ if2_arb' = [if2_arb EXCEPT ![n] = RxArb]
  /\ UNCHANGED <<if1_data, objectVars, pc, callVars, rejectCounts, accepted, wire>>

\* The controller sends the frame of a box.
SendFrame(n, b) ==
  /\ b \in txrq[n]
  /\ txrq' = [txrq EXCEPT ![n] = @ \ {b}]
  /\ wire' = [wire EXCEPT ![n][b] = Append(@, msg_data[n][b])]
  /\ UNCHANGED <<ifVars, msg_id, msg_data, pc, callVars, rejectCounts, interrupts, accepted>>

Program ==
  \/ Can1InterfaceInit \/ Can2InterfaceInit
  \/ CommandId \/ WriteArbitration \/ TransferId \/ StartSending
  \/ Refuse \/ Check \/ CommandData \/ WriteData \/ TransferData

BusNext ==
  \/ Program
  \/ \E b \in Used : BeginTransmit(b)
  \/ \E n \in Controllers : ReceiveInterrupt(n)
  \/ \E n \in Controllers, b \in Used : SendFrame(n, b)

BusSpec == BusInit /\ [][BusNext]_busVars

-----------------------------------------------------------------------------
(* Properties *)

\* What canTransmit accepts goes out on that bus, whole and in order, though
\* interrupts use the same registers meanwhile; a frame that is refused on
\* both buses is counted as such (can_transmit_redundant).
AcceptedIsSent ==
  /\ \A n \in Controllers, b \in TxBoxes :
       accepted[n][b] = wire[n][b] \o (IF b \in txrq[n] THEN <<msg_data[n][b]>> ELSE <<>>)
  /\ pc = "idle" =>
       can_dual_tx_reject_count =
         Cardinality({d \in 1..data : \A n \in Controllers, b \in Used :
                        \A k \in DOMAIN accepted[n][b] : accepted[n][b][k] # d})

\* can.c:1354: "if a CAN interrupt occurs, the values of the IF registers are
\* backup up and restored at the end of the ISR".  So the transfer of an
\* identifier does what its command says (canUpdateID).
IdTransferIsIntact ==
  pc \in {"arbitration", "id"} =>
    /\ if2_cmd[node] = WRITE_ID
    /\ pc = "id" => if2_arb[node] = Configured[update].base + OffsetOfCpu
=============================================================================
