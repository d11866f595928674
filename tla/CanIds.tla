------------------------------- MODULE CanIds -------------------------------
(***************************************************************************)
(* The identifiers on the CAN buses: the message boxes of the two          *)
(* controllers (canInit), which the program lays out twice by hand, the    *)
(* identifiers that this CPU sends with (can_configure_device_ids), and    *)
(* the handler that a received frame goes to (canMessageNotification and   *)
(* can_if_process_rx).                                                     *)
(*                                                                         *)
(* A mask is the number of low bits of the identifier that a box ignores.  *)
(***************************************************************************)
EXTENDS Naturals, FiniteSets

Controllers == {1, 2}     \* canREG1, canREG2
BoxNumbers == 1..25

TransmitBox(id) == [dir |-> "tx", id |-> id, free |-> 0]
ReceiveBox(id, free) == [dir |-> "rx", id |-> id, free |-> free]
Unused == [dir |-> "none", id |-> 0, free |-> 0]

(***************************************************************************)
(* Slips a programmer could make in the definitions below.  Nothing uses   *)
(* them: put in the place of the originals, they make the properties fail. *)
(***************************************************************************)

\* A mask of 0x7FF, with which the box of the KMS takes only its first
\* identifier, on the second bus.
Can2Boxes1To8OneKms ==
  << TransmitBox(\h100), TransmitBox(\h080), ReceiveBox(\h084, 6), TransmitBox(\h110),
     ReceiveBox(\h0C1, 6), ReceiveBox(\h120, 1), TransmitBox(\h130), ReceiveBox(\h134, 0) >>

-----------------------------------------------------------------------------
(* The message boxes of CAN1 *)

Can1Boxes1To8 ==
  << TransmitBox(\h100), TransmitBox(\h080), ReceiveBox(\h084, 6), TransmitBox(\h110),
     ReceiveBox(\h0C1, 6), ReceiveBox(\h120, 1), TransmitBox(\h130), ReceiveBox(\h134, 1) >>

Can1Boxes9To16 ==
  << TransmitBox(\h160), ReceiveBox(\h150, 4), Unused, TransmitBox(\h140),
     TransmitBox(\h144), ReceiveBox(\h148, 1), Unused, TransmitBox(\h210) >>

Can1Boxes17To25 ==
  << Unused, Unused, Unused, TransmitBox(\h220),
     TransmitBox(\h230), ReceiveBox(\h234, 0), Unused, ReceiveBox(\h214, 0), ReceiveBox(\h224, 0) >>

\* The line of a controller on which a box interrupts (INTMUX).
Can1Lines == [b \in BoxNumbers |-> 0]

(* The message boxes of CAN2 *)

Can2Boxes1To8 ==
  << TransmitBox(\h100), TransmitBox(\h080), ReceiveBox(\h084, 6), TransmitBox(\h110),
     ReceiveBox(\h0C1, 6), ReceiveBox(\h120, 1), TransmitBox(\h130), ReceiveBox(\h134, 1) >>

Can2Boxes9To16 ==
  << TransmitBox(\h160), ReceiveBox(\h150, 4), Unused, TransmitBox(\h140),
     TransmitBox(\h144), ReceiveBox(\h148, 1), Unused, TransmitBox(\h210) >>

Can2Boxes17To25 ==
  << Unused, Unused, Unused, TransmitBox(\h220),
     TransmitBox(\h230), ReceiveBox(\h234, 0), Unused, ReceiveBox(\h214, 0), ReceiveBox(\h224, 0) >>

Can2Lines == [b \in BoxNumbers |-> 0]

BoxOf(n, b) ==
  LET low == IF n = 1 THEN Can1Boxes1To8 ELSE Can2Boxes1To8
      middle == IF n = 1 THEN Can1Boxes9To16 ELSE Can2Boxes9To16
      high == IF n = 1 THEN Can1Boxes17To25 ELSE Can2Boxes17To25
  IN IF b <= 8 THEN low[b] ELSE IF b <= 16 THEN middle[b - 8] ELSE high[b - 16]

\* The boxes of a controller (external) that take a frame; the first does.
Accepting(n, id) ==
  {b \in BoxNumbers :
     LET box == BoxOf(n, b)
     IN box.dir = "rx" /\ id \div (2 ^ box.free) = box.id \div (2 ^ box.free)}

-----------------------------------------------------------------------------
(* What this CPU sends *)

\* can_configure_device_ids, can_get_local_tx_id
DeviceOffset(g_device_id) == IF g_device_id \in 1..4 THEN g_device_id - 1 ELSE 0

LocalTxId(g_device_id, base) == base + DeviceOffset(g_device_id)

\* The boxes whose identifiers can_configure_device_ids updates, in its order,
\* on CAN1 and then on CAN2, with the identifiers that it goes out from.
DeviceIds ==
  << [box |-> 1, base |-> \h100], [box |-> 2, base |-> \h080], [box |-> 4, base |-> \h110],
     [box |-> 9, base |-> \h160], [box |-> 7, base |-> \h130], [box |-> 12, base |-> \h140],
     [box |-> 13, base |-> \h144], [box |-> 16, base |-> \h210], [box |-> 20, base |-> \h220],
     [box |-> 21, base |-> \h230] >>

-----------------------------------------------------------------------------
(* What it receives *)

\* A payload as the routing reads it: a startup ACK, a heartbeat ACK, the ACK
\* of a frame (with that frame's identifier, and of SMOCIP data or not), or
\* none of these.
Payload(kind, of) == [kind |-> kind, of |-> of]

\* Of the two lines of a controller only line 0 has a handler that the vectors
\* name (canNHighLevelInterrupt), which tells canMessageNotification the box.
IsNotified(n, b) == (IF n = 1 THEN Can1Lines ELSE Can2Lines)[b] = 0

\* canMessageNotification
IsQueued(b) == b \in {3, 5, 6, 8, 10, 14, 22, 24, 25}

\* can_if_process_rx
Handler(g_device_id, starting, id, payload) ==
  LET AckOf(base) == payload = Payload("ack", LocalTxId(g_device_id, base))
      SmocipAck == payload = Payload("smocip ack", LocalTxId(g_device_id, \h230))
  IN CASE starting /\ id \in \h084..\h0B1 /\ payload.kind = "startup" -> "can_manager_handle_ack"
       [] id \in \h0C1..\h0F1 /\ payload.kind = "heartbeat" -> "can_manager_handle_hb_ack"
       [] id \in {\h120, \h121} -> "rfid_rx_handle"
       [] id \in {\h134, \h135} -> "kms_rx_handle"
       [] id \in \h150..\h15F -> "input_card_rx_handler"
       [] id = \h148 -> IF AckOf(\h140) THEN "radio_ack_rx_handle" ELSE "radio_rx_handle"
       [] id = \h149 -> IF AckOf(\h144) THEN "radio_ack_rx_handle" ELSE "radio_rx_handle"
       [] id = \h234 -> IF SmocipAck THEN "smocip_ack_rx_handle" ELSE "smocip_rx_handle"
       [] id = \h214 -> "data_logger_ack_rx_handle"
       [] id = \h224 -> "nms_ack_rx_handle"
       [] OTHER -> "none"

\* The handler that a frame on a bus comes to.
Reaches(n, g_device_id, starting, id, payload) ==
  LET boxes == Accepting(n, id)
      first == CHOOSE b \in boxes : \A c \in boxes : b <= c
  IN IF boxes = {} THEN "none"
     ELSE IF IsNotified(n, first) /\ IsQueued(first)
          THEN Handler(g_device_id, starting, id, payload) ELSE "none"

-----------------------------------------------------------------------------
(***************************************************************************)
(* What the cards send (external), and who is to get it.  An ACK that a    *)
(* card of the radio or of the SMOCIP sends to another CPU is left out: it *)
(* goes to the handler of the data.                                        *)
(***************************************************************************)
Sent(ids, payload, handler) == [id : ids, payload : {payload}, handler : {handler}]

\* can_devices: the identifiers of the ACKs of each card.
StartupAckIds == \h084..\h09E
HeartbeatAckIds == \h0C1..\h0DB

FramesOfCards(g_device_id, starting) ==
  LET AckOf(kind, base) == Payload(kind, LocalTxId(g_device_id, base))
      Data == Payload("data", 0)
  IN Sent(StartupAckIds, Payload("startup", 0), IF starting THEN "can_manager_handle_ack" ELSE "none")
     \cup Sent(HeartbeatAckIds, Payload("heartbeat", 0), "can_manager_handle_hb_ack")
     \cup Sent({\h120, \h121}, Data, "rfid_rx_handle")
     \cup Sent({\h134, \h135}, Data, "kms_rx_handle")
     \cup Sent(\h150..\h15F, Data, "input_card_rx_handler")
     \cup Sent({\h148, \h149}, Data, "radio_rx_handle")
     \cup Sent({\h148}, AckOf("ack", \h140), "radio_ack_rx_handle")
     \cup Sent({\h149}, AckOf("ack", \h144), "radio_ack_rx_handle")
     \cup Sent({\h234}, Data, "smocip_rx_handle")
     \cup Sent({\h234}, AckOf("smocip ack", \h230), "smocip_ack_rx_handle")
     \cup Sent({\h214}, AckOf("ack", \h210), "data_logger_ack_rx_handle")
     \cup Sent({\h224}, AckOf("ack", \h220), "nms_ack_rx_handle")

\* What the other CPUs send, which is not for this one.
FramesOfCpus(g_device_id) ==
  {[id |-> LocalTxId(other, DeviceIds[i].base), payload |-> Payload(kind, 0), handler |-> "none"] :
     other \in (1..4) \ {g_device_id}, i \in DOMAIN DeviceIds,
     kind \in {"data", "startup", "heartbeat"}}
=============================================================================
