----------------------------- MODULE MCContents -----------------------------
(***************************************************************************)
(* What the program reads and writes, for TLC: the station configuration   *)
(* and the inputs that it describes, the four formats of what is sent and  *)
(* received, the clock, the display, and the bytes of the GPS receivers.   *)
(* They share nothing: a behaviour is of one of them.                      *)
(*                                                                         *)
(* The configurations are a small valid blob of four sections, every blob  *)
(* that differs from it in one or two places, another revision of it, one  *)
(* of another station, and the one of the bench build.                     *)
(***************************************************************************)
EXTENDS FieldInputs, Nawandgi, RadioPackets, GpsBytes

CONSTANTS
  Parts          \* the formats of which there are behaviours

VARIABLES
  part,
  nms_test, asked, queued,
  rtc_abs_seconds, cpu_time_valid, waiting, wire, calls,
  tag, prev_abs_loc_m, tag_read,
  rtc_set, start_rtc_write, rtc_write_count, rtc_raw, start_rtc_read, rtc_read_count,
  rtc_time, i2c, registers, times_set, writing, written, reading,
  gio, spi, spi_error, call, word, selected, control, dots

-----------------------------------------------------------------------------
(* Configurations *)

Base ==
  BlobOf(1, 1,
    << SectionOf(FIELD_INPUTS, 96,
         << InputEntry(1, 1, 0, SIGNAL_RELAY, 1), InputEntry(2, 1, 1, POINT_POSITION, 3),
            InputEntry(3, 2, 0, POINT_POSITION, 2), InputEntry(4, 2, 1, TRACK_CIRCUIT, 4) >>),
       SectionOf(POINTS, 224, << PointEntry(1, 2, 3) >>),
       SectionOf(TRACKS, 248, << TrackEntry(1, 4, 1), TrackEntry(2, 4, 1) >>),
       SectionOf(SIGNALS, 296, << SignalEntry(1, <<1, 0, 0, 0>>), SignalEntry(2, <<0, 0, 1, 1>>) >>)
    >>, 360)

\* The same inputs in another order, on other channels.
Revised ==
  BlobOf(1, 2, << SectionOf(FIELD_INPUTS, 48,
                    << InputEntry(4, 1, 0, TRACK_CIRCUIT, 4), InputEntry(2, 2, 0, POINT_POSITION, 3),
                       InputEntry(3, 2, 1, POINT_POSITION, 2), InputEntry(1, 1, 1, SIGNAL_RELAY, 5) >>)
               >>, 176)

\* Another station, with a card of its own.
Elsewhere ==
  BlobOf(2, 1, << SectionOf(FIELD_INPUTS, 48, << InputEntry(2, 2, 1, SIGNAL_RELAY, 1),
                                                 InputEntry(5, 1, 1, AXLE_COUNTER, 4) >>)
               >>, 112)

HeaderDeviations ==
  {<<"blob_size", 31>>, <<"blob_size", 131073>>, <<"blob_size", 359>>, <<"magic", "other">>,
   <<"major", 2>>, <<"minor", 0>>, <<"minor", 2>>, <<"header_size", 80>>,
   <<"total_size", 361>>, <<"station_id", 0>>, <<"revision", 0>>, <<"section_count", 0>>,
   <<"section_count", 3>>, <<"section_count", 17>>, <<"flags", 1>>, <<"reserved", 1>>,
   <<"crc", FALSE>>}

\* Of a section: its place, a field and a value.
SectionDeviations ==
  {<<1, "type", 0>>, <<1, "type", 2>>, <<2, "type", 1>>, <<2, "type", 5>>, <<3, "type", 5>>,
   <<1, "version", 0>>, <<1, "version", 1>>, <<2, "version", 2>>, <<4, "version", 0>>,
   <<1, "offset", 95>>, <<2, "offset", 223>>, <<4, "offset", 297>>, <<4, "offset", 1000000000>>,
   <<1, "length", 96>>, <<3, "length", 72>>, <<4, "length", 1000000000>>,
   <<1, "entry_count", 3>>, <<2, "entry_count", 0>>, <<3, "entry_size", 0>>,
   <<3, "entry_count", 1>>}

\* Of an entry: the place of its section and its own, a field and a value.
EntryDeviations ==
  {<<1, 1, "logical_id", 0>>, <<1, 3, "logical_id", 1>>, <<1, 2, "logical_id", 1>>,
   <<1, 1, "logical_id", 7>>, <<1, 1, "card_index", 0>>, <<1, 1, "card_index", 2>>,
   <<1, 1, "card_index", 17>>, <<1, 4, "channel_index", 32>>, <<1, 4, "channel_index", 0>>,
   <<1, 1, "type", 2>>, <<1, 4, "type", 0>>, <<1, 4, "type", 10>>, <<1, 4, "type", 4>>,
   <<1, 1, "encoding", 0>>, <<1, 2, "encoding", 6>>, <<1, 2, "name", <<0, 1, 0>> >>, <<1, 2, "flags", 1>>,
   <<2, 1, "point_id", 0>>, <<2, 1, "end_a_input_id", 0>>, <<2, 1, "end_a_input_id", 3>>,
   <<2, 1, "end_b_input_id", 4>>, <<2, 1, "end_b_input_id", 9>>, <<2, 1, "flags", 1>>,
   <<2, 1, "name", <<1, 1, 1>> >>, <<3, 2, "track_id", 1>>, <<3, 1, "track_id", 0>>,
   <<3, 2, "input_id", 0>>, <<3, 2, "input_id", 9>>, <<3, 2, "kind", 0>>, <<3, 2, "kind", 2>>,
   <<3, 2, "kind", 3>>, <<3, 1, "flags", 1>>, <<3, 2, "name", <<1, 1, 1>> >>, <<4, 2, "signal_id", 1>>,
   <<4, 2, "signal_id", 0>>, <<4, 1, "inputs", <<0, 0, 0, 0>> >>,
   <<4, 1, "inputs", <<1, 1, 0, 2>> >>, <<4, 2, "inputs", <<0, 0, 0, 9>> >>,
   <<4, 2, "flags", 1>>, <<4, 1, "name", <<1, 1, 1>> >>, <<4, 1, "name", <<1, 1, 0>> >>}

Deviations == HeaderDeviations \cup SectionDeviations \cup EntryDeviations

Deviate(b, d) ==
  CASE Len(d) = 2 -> [b EXCEPT ![d[1]] = d[2]]
    [] Len(d) = 3 -> [b EXCEPT !.sections[d[1]][d[2]] = d[3]]
    [] Len(d) = 4 -> [b EXCEPT !.sections[d[1]].entries[d[2]][d[3]] = d[4]]

\* A section that says that it has fewer entries has fewer.
Trimmed(s) == [s EXCEPT !.entries = SubSeq(@, 1, Min({Len(@), s.entry_count}))]

MCFirst ==
  {[Deviate(Deviate(Base, d), e) EXCEPT
      !.revision = IF @ = 0 THEN 0 ELSE 3,
      !.sections = [i \in DOMAIN @ |-> Trimmed(@[i])]] : d, e \in Deviations}
  \cup {NawandgiBlob}

\* A later revision that is not whole.
Broken == [Base EXCEPT !.revision = 4, !.crc = FALSE]

MCBlobs == {Base, Revised, Elsewhere, Broken}

\* The configuration of the bench build passes the validation, and has the inputs
\* that a snapshot of 93 needs (station_config_test_activate_nawandgi).
BenchIsServed ==
  /\ Validate(NawandgiBlob) = Ok
  /\ {NawandgiBlob.sections[1].entries[i].logical_id : i \in 1..93} = 1..93

ASSUME BenchIsServed

MCRecords == [card : {1, 2, 3}, on : SUBSET {0, 1}]

-----------------------------------------------------------------------------
(* Packets, messages, records and tags *)

MCSeconds == {0, 7, 40000, 86399}

\* An ORP of the usual length after a longer packet, and so on.
MCReceived ==
  LET Packet(type, fragments) == [type |-> type, fragments |-> fragments]
  IN << Packet(10, 5), Packet(0, 43), Packet(13, 4), Packet(13, 5), Packet(10, 2) >>

ASSUME RadioPacketsAssumption

Message(type, sof, len, count) == [type |-> type, sof |-> sof, len |-> len, count |-> count]

MCOthers ==
  {Message(type, 43690, len, count) :
     type \in {"INFO", "POS_INFO", "TSR_INFO", "ADJ_INFO"},
     len \in {0, 256, 257}, count \in {0, 32, 33}}
  \cup {Message("FIELD_INPUT_STATUS", 43690, 0, count) : count \in {0, 1, 8, 9, 1024, 1025}}
  \cup {Message("FIELD_INPUT_EVENT", 43690, 0, count) : count \in {0, 64, 65}}
  \cup {Message("FAULT", sof, 0, count) : sof \in {43690, 48059}, count \in {0, 10, 11}}

Messages == INSTANCE NmsMessages WITH Others <- MCOthers, NoMessage <- None

Call(kind, event, located, peer) ==
  [kind |-> kind, event |-> event, located |-> located, peer |-> peer]

MCCalls ==
  {Call("NONE", "STATIONARY_SOS", FALSE, FALSE), Call("LOCATION", "TRAIN", TRUE, FALSE),
   Call("SPAD_ONBOARD", "SPAD", TRUE, FALSE), Call("SPAD_STATIONARY", "SPAD", TRUE, FALSE),
   Call("SPAD_STATIONARY", "SPAD", FALSE, FALSE),
   Call("HEAD_ON_ONBOARD", "HEAD_ON_COLLISION", TRUE, FALSE),
   Call("HEAD_ON_STATIONARY", "HEAD_ON_COLLISION", TRUE, FALSE),
   Call("REAR_END_ONBOARD", "REAR_END_COLLISION", TRUE, FALSE),
   Call("REAR_END_STATIONARY", "REAR_END_COLLISION", TRUE, FALSE),
   Call("LOCO_SOS", "MANUAL_SOS", TRUE, FALSE),
   Call("FIELD_INPUT", "FIELD_INPUT_CHANGE", FALSE, FALSE),
   Call("PERIPHERAL", "PERIPHERAL_COMM", FALSE, FALSE),
   Call("STATIONARY_SNAPSHOT", "STATIONARY_SNAPSHOT", FALSE, FALSE)}
  \cup {Call("COMMUNICATION", "COMM", l, p) : l, p \in BOOLEAN}

LogOf == INSTANCE LogRecords WITH Calls <- MCCalls, QueueBound <- 1, MaxSeconds <- 2

\* Each field of a tag with every second of its bits set, all others 0 or 1.
MCTags ==
  {[type |-> type, field |-> field, value |-> IF rest = 0 THEN 5592405 ELSE 2796202,
    rest |-> rest] :
     type \in {2, 3, 4, 9}, rest \in {0, 1},
     field \in {"version", "tag_set_id", "abs_loc_m", "tin_nominal", "tin_reverse",
               "station_nominal", "station_reverse", "gate_id", "adj_tin_2", "abs_loc_2",
               "section_reverse", "is_duplicate"}}

TagsOf == INSTANCE RfidTags WITH Tags <- MCTags, NoTag <- None

-----------------------------------------------------------------------------
(* The clock: 1 January 2000, the end of a 29 February, and noon of the last *)
(* day of 2099; and all days of leap and of common years                     *)

MCTimes == {[day |-> 7300, second |-> 0], [day |-> 16125, second |-> 86399],
            [day |-> 43824, second |-> 45296]}

MCDays == 0..800 \cup 7299..8100 \cup 15700..16500 \cup 43800..43824

Clock == INSTANCE Rtc WITH
  Times <- MCTimes, MaxTimes <- 2, Days <- MCDays, NoTime <- None, rtc_abs_seconds <- rtc_time

ASSUME Clock!CalendarIsRight

Screen == INSTANCE Display WITH Released <- None

-----------------------------------------------------------------------------
(* GPS receivers: the second frame of the second ends as a header begins, and *)
(* the parser may then miss the third.  A byte of the other receiver comes in *)
(* between.                                                                   *)

MCFrameContents ==
  LET Ending(last) == [i \in {3} |-> last]
  IN << <<Ending("other")>>,
        <<Ending("other"), Ending("A5"), Ending("5A"), Ending("other"), Ending("other")>> >>

MCMaxBytes == <<1, 16>>

ASSUME GpsBytesAssumption

-----------------------------------------------------------------------------
(* A behaviour is of one part *)

packetVars == <<txVars, rxVars>>
messageVars == <<nms_test, asked, queued>>
recordVars == <<rtc_abs_seconds, cpu_time_valid, waiting, wire, calls>>
tagVars == <<tag, prev_abs_loc_m, tag_read>>
clockVars == <<rtc_set, start_rtc_write, rtc_write_count, rtc_raw, start_rtc_read, rtc_read_count,
               rtc_time, i2c, registers, times_set, writing, written, reading>>
screenVars == <<gio, spi, spi_error, call, word, selected, control, dots>>
deviceVars == <<clockVars, screenVars, lineVars>>
formatVars == <<packetVars, messageVars, recordVars, tagVars, clockVars, screenVars>>
otherVars == <<formatVars, lineVars>>
allVars == <<part, vars, otherVars>>

MCInit ==
  /\ part \in Parts
  /\ Init
  /\ PacketInit /\ (part # "packets" => second = 0)
  /\ Messages!MessageInit
  /\ LogOf!RecordInit /\ (part # "records" => rtc_abs_seconds = 1)
  /\ TagsOf!TagInit
  /\ Clock!RtcInit
  /\ Screen!DisplayInit
  /\ LineInit

InputsStep == part = "inputs" /\ Next /\ UNCHANGED otherVars

PacketsStep ==
  /\ part = "packets" /\ PacketNext
  /\ UNCHANGED <<vars, messageVars, recordVars, tagVars, deviceVars>>

MessagesStep ==
  /\ part = "messages" /\ Messages!MessageNext
  /\ UNCHANGED <<vars, packetVars, recordVars, tagVars, deviceVars>>

RecordsStep ==
  /\ part = "records" /\ LogOf!RecordNext
  /\ UNCHANGED <<vars, packetVars, messageVars, tagVars, deviceVars>>

TagsStep ==
  /\ part = "tags" /\ TagsOf!TagNext
  /\ UNCHANGED <<vars, packetVars, messageVars, recordVars, deviceVars>>

ClockStep ==
  /\ part = "clock" /\ Clock!RtcNext
  /\ UNCHANGED <<vars, packetVars, messageVars, recordVars, tagVars, screenVars, lineVars>>

ScreenStep ==
  /\ part = "screen" /\ Screen!DisplayNext
  /\ UNCHANGED <<vars, packetVars, messageVars, recordVars, tagVars, clockVars, lineVars>>

LineStep == part = "line" /\ LineNext /\ UNCHANGED <<vars, formatVars>>

MCNext ==
  /\ InputsStep \/ PacketsStep \/ MessagesStep \/ RecordsStep \/ TagsStep
     \/ ClockStep \/ ScreenStep \/ LineStep
  /\ UNCHANGED part

MCSpec == MCInit /\ [][MCNext]_allVars

-----------------------------------------------------------------------------
(* Properties *)

\* What the program writes into a packet to a train, a message to the NMS or a
\* record of the event log is found by a receiver that knows the format, and
\* what lies on a tag is found by the program; a time comes back from the
\* registers of the clock, and the display shows the text that it was sent.
FormatsReadBack == part # "line" =>
  /\ PacketsReadBack
  /\ Messages!MessagesReadBack
  /\ LogOf!RecordsReadBack
  /\ TagsOf!TagsReadBack
  /\ part = "clock" => Clock!TimeIsReadBack
  /\ part = "screen" => Screen!TextIsShown
=============================================================================
