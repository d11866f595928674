------------------------------ MODULE Nawandgi ------------------------------
(***************************************************************************)
(* The configuration of the station Nawandgi that a bench build activates  *)
(* at startup (Drivers/station_config_test.c): its tables, and the blob    *)
(* that nawandgi_test_build_blob makes of them.  All names are alike.      *)
(***************************************************************************)
EXTENDS StationConfig

(***************************************************************************)
(* The blob that is built of four tables, one section behind the other.    *)
(***************************************************************************)
InputEntry(id, card, channel, type, encoding) ==
  [logical_id |-> id, card_index |-> card, channel_index |-> channel, type |-> type,
   encoding |-> encoding, flags |-> 0, name |-> <<1, 0, 0>>]

SignalEntry(id, inputs) ==
  [signal_id |-> id, inputs |-> inputs, flags |-> 0, name |-> <<1, 0, 0>>]

PointEntry(id, a, b) ==
  [point_id |-> id, end_a_input_id |-> a, end_b_input_id |-> b, flags |-> 0, name |-> <<1, 0, 0>>]

TrackEntry(id, input, kind) ==
  [track_id |-> id, input_id |-> input, kind |-> kind, flags |-> 0, name |-> <<1, 0, 0>>]

SectionOf(type, offset, entries) ==
  [type |-> type, version |-> SectionVersion[type], offset |-> offset,
   length |-> Len(entries) * EntrySize[type], entry_count |-> Len(entries),
   entry_size |-> EntrySize[type], entries |-> entries]

BlobOf(station, revision, sections, size) ==
  [blob_size |-> size, magic |-> "STCF", major |-> 1, minor |-> 1,
   header_size |-> Fixed + Len(sections) * Descriptor, total_size |-> size,
   station_id |-> station, revision |-> revision, section_count |-> Len(sections),
   flags |-> 0, reserved |-> 0, crc |-> TRUE, sections |-> sections]

-----------------------------------------------------------------------------
(* The tables *)

NAWANDGI_TEST_INPUT_COUNT == 93

SHUNT_SIGNAL == 5
CALLING_ON == 6
ROUTE_INDICATOR == 7
LC_GATE == 8

\* Type and encoding of an input of an id.
TypeAndEncoding(id) ==
  CASE id \in 1..43 -> <<SIGNAL_RELAY, 1>>
    [] id \in 44..55 -> <<POINT_POSITION, 3>>
    [] id \in 56..82 -> <<TRACK_CIRCUIT, 4>>
    [] id = 83 -> <<AXLE_COUNTER, 4>>
    [] id \in 84..86 -> <<SHUNT_SIGNAL, 5>>
    [] id \in 87..88 -> <<CALLING_ON, 5>>
    [] id \in 89..91 -> <<ROUTE_INDICATOR, 5>>
    [] id \in 92..93 -> <<LC_GATE, 1>>

\* The channels of the cards, one after the other.
nawandgi_test_inputs ==
  [id \in 1..NAWANDGI_TEST_INPUT_COUNT |->
     InputEntry(id, (id - 1) \div 32 + 1, (id - 1) % 32,
                TypeAndEncoding(id)[1], TypeAndEncoding(id)[2])]

\* recr, hecr, decr and hhecr.
SignalInputs ==
  << <<0, 1, 2, 3>>, <<0, 4, 5, 6>>, <<7, 8, 9, 0>>, <<0, 10, 11, 12>>, <<15, 14, 13, 0>>,
     <<18, 17, 16, 0>>, <<20, 19, 0, 0>>, <<21, 0, 22, 0>>, <<23, 24, 0, 0>>, <<0, 25, 26, 0>>,
     <<27, 0, 28, 0>>, <<30, 0, 29, 0>>, <<31, 32, 0, 0>>, <<33, 34, 35, 36>>,
     <<37, 38, 39, 40>>, <<0, 41, 42, 43>> >>

nawandgi_test_signals ==
  [id \in DOMAIN SignalInputs |-> SignalEntry(id, SignalInputs[id])]

PointInputs == << <<44, 53>>, <<48, 47>>, <<51, 50>>, <<45, 46>>, <<55, 54>>, <<52, 49>> >>

nawandgi_test_points ==
  [i \in DOMAIN PointInputs |-> PointEntry(100 + i, PointInputs[i][1], PointInputs[i][2])]

\* Track circuits, and the axle counter last.
nawandgi_test_tracks ==
  [id \in 1..28 |-> TrackEntry(id, 55 + id, IF id = 28 THEN 2 ELSE 1)]

-----------------------------------------------------------------------------
Sections ==
  LET SIGNAL_OFFSET == 96 + 93 * EntrySize[FIELD_INPUTS]
      POINT_OFFSET == SIGNAL_OFFSET + 16 * EntrySize[SIGNALS]
      TRACK_OFFSET == POINT_OFFSET + 6 * EntrySize[POINTS]
  IN << SectionOf(FIELD_INPUTS, 96, nawandgi_test_inputs),
        SectionOf(SIGNALS, SIGNAL_OFFSET, nawandgi_test_signals),
        SectionOf(POINTS, POINT_OFFSET, nawandgi_test_points),
        SectionOf(TRACKS, TRACK_OFFSET, nawandgi_test_tracks) >>

NawandgiBlob == BlobOf(65535, 1, Sections, End(Sections[4]))
=============================================================================
