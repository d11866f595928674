---------------------------- MODULE NmsMessages ----------------------------
(***************************************************************************)
(* The contents of the messages to the NMS (the builders of Drivers/NMS.c) *)
(* and the cycle of one of each type that a bench build sends              *)
(* (Drivers/nms_test.c).                                                   *)
(*                                                                         *)
(* A message is its type and the counts that its length depends on.  A     *)
(* payload is how many fields of how many octets follow each other: the    *)
(* properties depend on no value but message_length and the start of frame.*)
(* The buffer nms_ctx.payload, which a message is built in and at once     *)
(* copied from, is left out.  What becomes of a queued message is modelled *)
(* in NmsTx.                                                               *)
(***************************************************************************)
EXTENDS Naturals, Sequences

CONSTANTS
  Others,        \* more messages that are asked for, beyond those of the cycle
  NoMessage

VARIABLES
  nms_test,      \* its cycle_index and period_count
  \* History.
  asked,         \* the message of the last send_..._to_nms
  queued         \* what it gave to nms_ack_transaction_start, or NoMessage:
                 \* payload_len, sof, the value of message_length, and fields

messageVars == <<nms_test, asked, queued>>

NMS_SOF_E1 == 43690      \* 0xAAAA
NMS_SOF_GPRS == 48059    \* 0xBBBB

NMS_PAYLOAD_BYTES == 6
NMS_MAX_FRAGMENTS == 63
NMS_MAX_PAYLOAD_LEN == NMS_PAYLOAD_BYTES * NMS_MAX_FRAGMENTS

\* The most that the arrays of a message hold.
NMS_MAX_EMBEDDED_PACKET_LEN == 256
NMS_MAX_MA_SECTIONS == 32
NMS_MAX_RELAY_STATUS_BYTES == 128
NMS_MAX_RELAY_EVENTS == 64
NMS_MAX_FAULT_CODES == 10

\* The octets of fields, given as pairs of how many there are and their width.
Octets(fields) ==
  LET sum[i \in 0..Len(fields)] ==
        IF i = 0 THEN 0 ELSE sum[i - 1] + fields[i][1] * fields[i][2]
  IN sum[Len(fields)]

-----------------------------------------------------------------------------
(* Layouts *)

\* SOF; type; length, sequence, station, NMS; version, date, time.
StationaryHeader == << <<1, 2>>, <<1, 1>>, <<4, 2>>, <<7, 1>> >>

\* With a loco, of three octets, for the station.
OnboardHeader == << <<1, 2>>, <<1, 1>>, <<2, 2>>, <<1, 3>>, <<1, 2>>, <<7, 1>> >>

\* A built message: whether its counts are within its arrays, its SOF, the
\* value of message_length, and its fields.
Built(fits, sof, length, fields) ==
  [fits |-> fits, sof |-> sof, length |-> length, fields |-> fields]

BuildInfo(m) ==
  Built(m.len <= NMS_MAX_EMBEDDED_PACKET_LEN, NMS_SOF_E1, 23 + m.len,
        StationaryHeader \o << <<3, 1>>, <<m.len, 1>> >>)

BuildPosition(m) ==
  Built(m.len <= NMS_MAX_EMBEDDED_PACKET_LEN /\ m.count <= NMS_MAX_MA_SECTIONS,
        NMS_SOF_E1, 24 + m.len + 2 * m.count,
        StationaryHeader \o << <<3, 1>>, <<m.len, 1>>, <<1, 1>>, <<m.count, 2>> >>)

\* TSR and adjacent information.
BuildRawStationary(m) ==
  Built(m.len <= NMS_MAX_EMBEDDED_PACKET_LEN, NMS_SOF_E1, 20 + m.len,
        StationaryHeader \o << <<m.len, 1>> >>)

\* A bit for each relay.
ImageLen(relays) == (relays + 7) \div 8

BuildFieldInputStatus(m) ==
  Built(ImageLen(m.count) <= NMS_MAX_RELAY_STATUS_BYTES, NMS_SOF_E1,
        22 + ImageLen(m.count), StationaryHeader \o << <<1, 2>>, <<ImageLen(m.count), 1>> >>)

BuildFieldInputEvent(m) ==
  Built(m.count <= NMS_MAX_RELAY_EVENTS, NMS_SOF_E1, 21 + 3 * m.count,
        StationaryHeader \o << <<1, 1>>, <<m.count, 2 + 1>> >>)

BuildStationaryHealth(m) ==
  Built(TRUE, NMS_SOF_E1, 82,
        StationaryHeader \o
        << <<1, 1>>, <<1, 2>>, <<18, 1>>,                       \* the event, the radios
           <<2, 1>>, <<1, 2>>, <<1, 1>>, <<1, 2>>, <<3, 1>>,    \* keys, slots, packets
           <<9, 1>>, <<2, 1>>,                                  \* GPS, GSM
           <<5, 2>>, <<2, 4>>, <<1, 2>> >>)                     \* tags and TINs, SOS, modules

BuildOnboardHealth(m) ==
  Built(TRUE, NMS_SOF_GPRS, 108,
        OnboardHeader \o
        << <<1, 1>>, <<1, 2>>, <<16, 1>>, <<1, 2>>,             \* the event, the radios
           <<9, 1>>, <<2, 2>>, <<2, 1>>,                        \* GPS, GSM
           <<2, 1>>, <<1, 2>>, <<5, 2>>, <<2, 4>>,              \* keys, links, tags
           <<5, 1>>, <<2, 3>>, <<1, 4>>, <<6, 1>>,              \* the train, SOS
           <<2, 2>>, <<1, 4>> >>)                               \* modules, route, checksum

BuildLocoRssi(m) ==
  Built(TRUE, NMS_SOF_E1, 39, OnboardHeader \o << <<1, 2>>, <<2, 1 + 2 + 3 + 2>> >>)

BuildStationRssi(m) ==
  Built(TRUE, NMS_SOF_E1, 39, StationaryHeader \o << <<1, 3>>, <<2, 1 + 2 + 3 + 2>> >>)

\* A SOF that is neither of the two is taken for the one of E1.
BuildFault(m) ==
  Built(m.count <= NMS_MAX_FAULT_CODES,
        IF m.sof = NMS_SOF_GPRS THEN NMS_SOF_GPRS ELSE NMS_SOF_E1, 23 + 4 * m.count,
        OnboardHeader \o << <<2, 1>>, <<m.count, 1 + 1 + 2>> >>)

Build(m) ==
  CASE m.type = "INFO" -> BuildInfo(m)
    [] m.type = "POS_INFO" -> BuildPosition(m)
    [] m.type \in {"TSR_INFO", "ADJ_INFO"} -> BuildRawStationary(m)
    [] m.type = "FIELD_INPUT_STATUS" -> BuildFieldInputStatus(m)
    [] m.type = "FIELD_INPUT_EVENT" -> BuildFieldInputEvent(m)
    [] m.type = "HEALTH" -> BuildStationaryHealth(m)
    [] m.type = "ONBOARD_HEALTH" -> BuildOnboardHealth(m)
    [] m.type = "FAULT" -> BuildFault(m)
    [] m.type = "LOCO_RSSI" -> BuildLocoRssi(m)
    [] m.type = "STATION_RSSI" -> BuildStationRssi(m)

\* nms_writer_result, of a writer that takes no more than it has room for: a
\* message that is too long is as no message.
Written(fields) ==
  IF Octets(fields) > NMS_MAX_PAYLOAD_LEN THEN 0 ELSE Octets(fields)

-----------------------------------------------------------------------------
(* Sending *)

\* send_..._to_nms and nms_queue_built_message.
SendMessage(m) ==
  LET built == Build(m)
      len == Written(built.fields)
  IN /\ asked' = m
     /\ queued' = IF ~built.fits \/ len = 0 THEN NoMessage
                  ELSE [payload_len |-> len, sof |-> built.sof, length |-> built.length,
                        fields |-> built.fields]

\* nms_build_fragment: the octets of the payload that fragment k
\* carries, by their numbers, after two that say which fragment it is.
BuildFragment(transaction_id, seq_total, payload_len, k) ==
  [first |-> 16 * (seq_total % 16) + transaction_id,
   second |-> 4 * (k % 64) + ((seq_total \div 16) % 4),
   octets |-> [i \in 0..(NMS_PAYLOAD_BYTES - 1) |->
                 IF k * NMS_PAYLOAD_BYTES + i < payload_len THEN k * NMS_PAYLOAD_BYTES + i ELSE "padding"]]

NmsFragments(len) == (len + NMS_PAYLOAD_BYTES - 1) \div NMS_PAYLOAD_BYTES

\* The messages of NMS_Test_QueueMessage.
TestMessage(type) ==
  [type |-> type, sof |-> NMS_SOF_E1, len |-> 12,
   count |-> IF type = "FIELD_INPUT_STATUS" THEN 93 ELSE 3]

\* The messages of which KavachInit sets the contents before the cycle begins:
\* what is sent if they are asked for then.
Prepared(type, len, count) == [type |-> type, sof |-> NMS_SOF_E1, len |-> len, count |-> count]

PositionTestData == Prepared("POS_INFO", 10, 2)
TsrTestData == Prepared("TSR_INFO", 8, 0)
HealthTestData == Prepared("HEALTH", 0, 1)

TestTypes ==
  << "INFO", "POS_INFO", "TSR_INFO", "ADJ_INFO", "FIELD_INPUT_STATUS", "FIELD_INPUT_EVENT",
     "HEALTH", "ONBOARD_HEALTH", "FAULT", "LOCO_RSSI", "STATION_RSSI" >>

NMS_TEST_PERIOD_SEC == 5

\* NMS_Test_1sTask, in v_1sTasks.
TestSecond ==
  IF nms_test.period_count + 1 < NMS_TEST_PERIOD_SEC
  THEN /\ nms_test' = [nms_test EXCEPT !.period_count = @ + 1]
       /\ UNCHANGED <<asked, queued>>
  ELSE /\ SendMessage(TestMessage(TestTypes[nms_test.cycle_index + 1]))
       /\ nms_test' = [period_count |-> 0,
                       cycle_index |-> (nms_test.cycle_index + 1) % Len(TestTypes)]

Send(m) == SendMessage(m) /\ UNCHANGED nms_test

MessageInit ==
  /\ nms_test = [cycle_index |-> 0, period_count |-> 0]
  /\ asked = NoMessage
  /\ queued = NoMessage

MessageNext ==
  \/ TestSecond
  \/ \E m \in Others \cup {PositionTestData, TsrTestData, HealthTestData} : Send(m)

-----------------------------------------------------------------------------
(* Properties *)

\* What the arrays of a message hold, and the fields of the others.
Holds(m) ==
  CASE m.type \in {"INFO", "TSR_INFO", "ADJ_INFO"} -> m.len <= 256
    [] m.type = "POS_INFO" -> m.len <= 256 /\ m.count <= 32
    [] m.type = "FIELD_INPUT_STATUS" -> m.count <= 1024
    [] m.type = "FIELD_INPUT_EVENT" -> m.count <= 64
    [] m.type = "FAULT" -> m.count <= 10
    [] OTHER -> TRUE

\* Each fragment says to a receiver how many there are, which it is and of what
\* transaction, and its octets lie where the receiver puts them: all of the
\* payload, and beyond it padding.
FragmentsTell(seq_total, payload_len) ==
  \A id \in 0..15, k \in 0..(seq_total - 1) :
    LET f == BuildFragment(id, seq_total, payload_len, k)
    IN /\ 16 * (f.second % 4) + (f.first \div 16) = seq_total
       /\ f.second \div 4 = k /\ f.first % 16 = id
       /\ \A i \in DOMAIN f.octets :
            f.octets[i] = IF k * NMS_PAYLOAD_BYTES + i < payload_len
                          THEN k * NMS_PAYLOAD_BYTES + i ELSE "padding"

\* A message that its arrays hold is queued whole, in no more fragments than
\* there may be, and no other message is queued.  Its message_length is the
\* number of octets that follow the SOF and those of the CRC, which the
\* gateway adds: what a receiver needs to find its end.
MessagesReadBack ==
  asked # NoMessage =>
    /\ Holds(asked) <=> queued # NoMessage
    /\ queued # NoMessage =>
         /\ queued.length = (queued.payload_len - 2) + 4
         /\ queued.payload_len = Octets(queued.fields)
         /\ queued.payload_len <= NMS_PAYLOAD_BYTES * NMS_MAX_FRAGMENTS
         /\ queued.sof \in {NMS_SOF_E1, NMS_SOF_GPRS}
         /\ FragmentsTell(NmsFragments(queued.payload_len), queued.payload_len)
         /\ asked.type = "FAULT" => queued.sof = asked.sof
=============================================================================
