----------------------------- MODULE LogRecords -----------------------------
(***************************************************************************)
(* The records of the event log: what a call of the Log_Event_ and         *)
(* EventLog_Add functions puts into one, and what EventLog_Serialize makes *)
(* of it when it is taken from the ring to be sent, maybe much later       *)
(* (Drivers/datalogging.c).                                                *)
(*                                                                         *)
(* A record has a union, of which a call writes the member of its kind and *)
(* EventLog_Serialize reads the member of the record's format.  Here the   *)
(* data are a function from the member to the arguments written there: to  *)
(* read another member than was written would be to find nothing.  The     *)
(* ring is modelled in EventLog; here it is a queue.                       *)
(***************************************************************************)
EXTENDS Naturals, Sequences

CONSTANTS
  Calls,         \* the calls made: [kind, event, located, peer]
  QueueBound,    \* bound on the records that wait
  MaxSeconds     \* bound on the time of day

VARIABLES
  rtc_abs_seconds,
  cpu_time_valid,
  waiting,       \* the records logged and not yet serialised
  wire,          \* what EventLog_Serialize made of the last one
  \* History.
  calls          \* of the records that wait, and then of wire: the call, its time

recordVars == <<rtc_abs_seconds, cpu_time_valid, waiting, wire, calls>>

EVENT_LOG_MAX_RECORD_SIZE == 64
EVENT_LOG_LOCAL_SOURCE == "STATIONARY"

NoFields == <<>>

-----------------------------------------------------------------------------
(* Making a record *)

Located == << <<"reference_location", 4>>, <<"distance_from_rfid", 4>> >>

Communication(peer) ==
  << <<"target", 1>>, <<"channel", 1>>, <<"peer_id_valid", 1>> >>
  \o (IF peer THEN << <<"peer_id", 2>> >> ELSE NoFields)

\* The format of the record that a call makes; its kind is named so.
Format(call) ==
  IF call.kind = "COMMUNICATION" /\ call.located THEN "COMMUNICATION_WITH_LOCATION"
  ELSE call.kind

\* The calls that need a location fail without one.
NeedsLocation(kind) ==
  kind \notin {"NONE", "COMMUNICATION", "FIELD_INPUT", "PERIPHERAL", "STATIONARY_SNAPSHOT"}

\* The member of the union that a call writes: with a location, that of the
\* two together.
Member(call) ==
  IF call.kind = "COMMUNICATION" /\ call.located THEN "COMMUNICATION_WITH_LOCATION"
  ELSE call.kind

\* What a call writes into its member, with the octets of each.
Arguments(call) ==
  CASE call.kind = "NONE" -> NoFields
    [] call.kind = "LOCATION" -> Located
    [] call.kind = "SPAD_ONBOARD" ->
         Located \o << <<"stationary_kavach_id", 2>>, <<"signal_type", 1>> >>
    [] call.kind = "SPAD_STATIONARY" ->
         Located \o << <<"onboard_kavach_id", 2>>, <<"signal_name", 2>> >>
    [] call.kind = "HEAD_ON_ONBOARD" -> Located \o << <<"stationary_kavach_id", 2>> >>
    [] call.kind = "HEAD_ON_STATIONARY" ->
         Located \o << <<"onboard_kavach_l1_id", 2>>, <<"onboard_kavach_l2_id", 2>> >>
    [] call.kind = "REAR_END_ONBOARD" -> Located \o << <<"onboard_kavach_l2_id", 2>> >>
    [] call.kind = "REAR_END_STATIONARY" ->
         Located \o << <<"onboard_kavach_l1_id", 2>>, <<"onboard_kavach_l2_id", 2>>,
                       <<"distance_l1_l2", 4>> >>
    [] call.kind = "LOCO_SOS" -> Located \o << <<"source_onboard_kavach_id", 2>> >>
    [] call.kind = "COMMUNICATION" ->
         (IF call.located THEN Located ELSE NoFields) \o Communication(call.peer)
    [] call.kind = "FIELD_INPUT" ->
         << <<"relay_address", 2>>, <<"old_status", 1>>, <<"new_status", 1>> >>
    [] call.kind = "PERIPHERAL" -> << <<"device_index", 1>>, <<"mandatory", 1>> >>
    [] call.kind = "STATIONARY_SNAPSHOT" ->
         << <<"input_image", 12>>, <<"station_sos_active", 1>>, <<"system_fault_mask", 4>> >>

\* EventLog_GetCurrentContext and EventLog_RecordSetCommon.
Record(call) ==
  [event_id |-> call.event, source |-> EVENT_LOG_LOCAL_SOURCE, format_type |-> Format(call),
   epoch_time |-> IF cpu_time_valid THEN rtc_abs_seconds ELSE 0,
   member |-> Member(call), data |-> Arguments(call)]

Log(call) ==
  /\ Len(waiting) < QueueBound
  /\ NeedsLocation(call.kind) => call.located
  /\ waiting' = Append(waiting, Record(call))
  /\ calls' = Append(calls, [call |-> call, at |-> rtc_abs_seconds, valid |-> cpu_time_valid])
  /\ UNCHANGED <<rtc_abs_seconds, cpu_time_valid, wire>>

-----------------------------------------------------------------------------
(* Serialising a record *)

\* What is read of the member of a format.
Payload(record) ==
  IF record.member = record.format_type THEN record.data ELSE NoFields

EpochOf(record) == record.epoch_time

Width(fields) ==
  LET sum[i \in 0..Len(fields)] == IF i = 0 THEN 0 ELSE sum[i - 1] + fields[i][2]
  IN sum[Len(fields)]

HeaderLength == 9

\* The record as it is sent; of length 0, and dropped, if it is too long.
Serialize(record) ==
  LET length == HeaderLength + Width(Payload(record))
  IN [event_id |-> record.event_id, source |-> record.source,
      format_type |-> record.format_type, epoch_time |-> EpochOf(record),
      payload_length |-> Width(Payload(record)), payload |-> Payload(record),
      length |-> IF length > EVENT_LOG_MAX_RECORD_SIZE THEN 0 ELSE length]

\* EventLog_QueuePop and EventLog_Serialize, in EventLog_ProcessTx.
Take ==
  /\ waiting # <<>>
  /\ wire' = <<Serialize(Head(waiting)), Head(calls)>>
  /\ waiting' = Tail(waiting)
  /\ calls' = Tail(calls)
  /\ UNCHANGED <<rtc_abs_seconds, cpu_time_valid>>

\* The clock goes on, is set or is lost: modelled in GpsTime.
ClockChanges ==
  /\ rtc_abs_seconds' \in 1..MaxSeconds
  /\ cpu_time_valid' \in BOOLEAN
  /\ UNCHANGED <<waiting, wire, calls>>

RecordInit ==
  /\ rtc_abs_seconds \in 1..MaxSeconds
  /\ cpu_time_valid = FALSE
  /\ waiting = <<>>
  /\ wire = <<>>
  /\ calls = <<>>

RecordNext ==
  \/ \E call \in Calls : Log(call)
  \/ Take
  \/ ClockChanges

-----------------------------------------------------------------------------
(* EventLog_GetFormatForEvent, which the receivers' side of the format says: *)
(* events of the DMI are named DMI, those of communication COMM.             *)

FormatForEvent(event, source) ==
  CASE event = "SPAD" -> IF source = "ONBOARD" THEN "SPAD_ONBOARD" ELSE "SPAD_STATIONARY"
    [] event = "HEAD_ON_COLLISION" ->
         IF source = "ONBOARD" THEN "HEAD_ON_ONBOARD" ELSE "HEAD_ON_STATIONARY"
    [] event = "REAR_END_COLLISION" ->
         IF source = "ONBOARD" THEN "REAR_END_ONBOARD" ELSE "REAR_END_STATIONARY"
    [] event = "MANUAL_SOS" -> IF source = "ONBOARD" THEN "LOCO_SOS" ELSE "NONE"
    [] event = "COMM" -> "COMMUNICATION"
    [] event = "PERIPHERAL_COMM" -> "PERIPHERAL"
    [] event = "FIELD_INPUT_CHANGE" -> "FIELD_INPUT"
    [] event = "STATIONARY_SNAPSHOT" -> "STATIONARY_SNAPSHOT"
    [] event \in {"DMI", "TRAIN"} -> IF source = "ONBOARD" THEN "LOCATION" ELSE "NONE"
    [] OTHER -> "NONE"

-----------------------------------------------------------------------------
(* Properties *)

\* The names that a call is made with.
Given(call) ==
  (IF call.located THEN {"reference_location", "distance_from_rfid"} ELSE {})
  \cup CASE call.kind = "SPAD_ONBOARD" -> {"stationary_kavach_id", "signal_type"}
         [] call.kind = "SPAD_STATIONARY" -> {"onboard_kavach_id", "signal_name"}
         [] call.kind = "HEAD_ON_ONBOARD" -> {"stationary_kavach_id"}
         [] call.kind = "HEAD_ON_STATIONARY" -> {"onboard_kavach_l1_id", "onboard_kavach_l2_id"}
         [] call.kind = "REAR_END_ONBOARD" -> {"onboard_kavach_l2_id"}
         [] call.kind = "REAR_END_STATIONARY" ->
              {"onboard_kavach_l1_id", "onboard_kavach_l2_id", "distance_l1_l2"}
         [] call.kind = "LOCO_SOS" -> {"source_onboard_kavach_id"}
         [] call.kind = "COMMUNICATION" ->
              {"target", "channel", "peer_id_valid"} \cup (IF call.peer THEN {"peer_id"} ELSE {})
         [] call.kind = "FIELD_INPUT" -> {"relay_address", "old_status", "new_status"}
         [] call.kind = "PERIPHERAL" -> {"device_index", "mandatory"}
         [] call.kind = "STATIONARY_SNAPSHOT" ->
              {"input_image", "station_sos_active", "system_fault_mask"}
         [] OTHER -> {}

\* A record that is sent says all that its call was given, in the place that
\* its format and its length tell, and the time of the call, however late it
\* is sent: 0 if the time was not known then.  It fits into the buffer.  And
\* the format is the one that EventLog_GetFormatForEvent names for the event of
\* a station, but for the three that say more than it asks for.
RecordsReadBack ==
  wire # <<>> =>
    LET sent == wire[1]
        made == wire[2]
    IN /\ {sent.payload[i][1] : i \in DOMAIN sent.payload} = Given(made.call)
       /\ sent.length = 9 + sent.payload_length
       /\ sent.length <= EVENT_LOG_MAX_RECORD_SIZE
       /\ sent.epoch_time = (IF made.valid THEN made.at ELSE 0)
       /\ sent.event_id = made.call.event
       /\ \/ sent.format_type = FormatForEvent(sent.event_id, EVENT_LOG_LOCAL_SOURCE)
          \/ sent.format_type \in {"LOCATION", "LOCO_SOS", "COMMUNICATION_WITH_LOCATION"}
          \/ made.call.kind \in {"SPAD_ONBOARD", "HEAD_ON_ONBOARD", "REAR_END_ONBOARD"}
=============================================================================
