------------------------------ MODULE RfidTags ------------------------------
(***************************************************************************)
(* The contents of the RFID tags (the decoders of Drivers/rfid_rx.c).  A   *)
(* tag is the set of the numbers of its bits that are 1, from bit 0 of its *)
(* first octet on.  How the fragments of a tag are put together, and the   *)
(* database of tags, are modelled in RfidRx.                               *)
(*                                                                         *)
(* Tags are written by others (external).  Their fields follow each other  *)
(* in the order in which the decoders read them, with the spare bits that  *)
(* the comments on the bits leave: bit n of the first 64 is called Xn in   *)
(* them, and bit 64 + n is called Yn.                                      *)
(***************************************************************************)
EXTENDS Naturals, Sequences

CONSTANTS
  Tags,          \* tags that are read: [type, field, value], all else 0 or all 1
  NoTag

VARIABLES
  tag,           \* the fields of the last one, in tag, LCtag, AdjLinetag or juntag
  prev_abs_loc_m,
  \* History.
  tag_read       \* the last tag that was decoded

tagVars == <<tag, prev_abs_loc_m, tag_read>>

RFID_TAG_LC == 2
RFID_TAG_ADJ_LINE == 3
RFID_TAG_JUNCTION == 4
RFID_TAG_NORMAL == 9
TagTypes == {RFID_TAG_NORMAL, RFID_TAG_LC, RFID_TAG_ADJ_LINE, RFID_TAG_JUNCTION}

(***************************************************************************)
(* Slips a programmer could make in the definitions below.  Nothing uses   *)
(* them: put in the place of the originals, they make the properties fail. *)
(***************************************************************************)

\* The second piece of a field or-ed onto the first.
UnshiftedPiece(name, bit, len, place) == [name |-> name, bit |-> bit, len |-> len, place |-> 0]

-----------------------------------------------------------------------------
(* Decoding *)

\* A piece of a field: its name, its first bit, how many, and the place of
\* its lowest bit in the field.
Piece(name, bit, len, place) == [name |-> name, bit |-> bit, len |-> len, place |-> place]
Whole(name, bit, len) == Piece(name, bit, len, 0)

\* get_bits_le
GetBits(bits, bit, len) ==
  LET value[i \in 0..len] ==
        IF i = len THEN 0 ELSE (IF bit + i \in bits THEN 1 ELSE 0) + 2 * value[i + 1]
  IN value[0]

Common == << Whole("version", 4, 2), Whole("tag_set_id", 6, 10), Whole("abs_loc_m", 16, 23),
             Whole("tin_nominal", 39, 8), Whole("tin_reverse", 47, 8) >>

Normal ==
  Common \o
  << Whole("station_nominal", 55, 9), Piece("station_nominal", 64, 7, 9),
     Whole("station_reverse", 71, 16), Whole("section_nominal", 87, 2),
     Whole("section_reverse", 89, 2), Whole("tag_placement", 91, 4),
     Whole("is_duplicate", 95, 1), Whole("comm_nominal", 96, 1), Whole("comm_reverse", 97, 1) >>

LevelCrossing ==
  Common \o
  << Whole("section_nominal", 55, 2), Whole("section_reverse", 57, 2),
     Whole("tag_placement", 59, 4), Whole("lc_territory", 63, 2), Whole("applicable_dir", 65, 1),
     Whole("gate_id", 66, 10), Whole("gate_alpha", 76, 3), Whole("gate_type", 79, 1),
     Whole("distance_to_gate", 80, 10), Whole("auto_whistle", 90, 1),
     Whole("whistle_type", 91, 1), Whole("is_duplicate", 95, 1), Whole("comm_nominal", 96, 1),
     Whole("comm_reverse", 97, 1) >>

AdjacentLine ==
  Common \o
  << Whole("adj_tin_0", 55, 8), Whole("adj_tin_1", 63, 8), Whole("adj_tin_2", 71, 8),
     Whole("adj_tin_3", 79, 8), Whole("adj_tin_4", 87, 8), Whole("is_duplicate", 95, 1) >>

Junction ==
  Common \o
  << Whole("abs_loc_2", 55, 9), Piece("abs_loc_2", 64, 14, 9), Whole("dir_corr_1", 78, 3),
     Whole("dir_corr_2", 81, 3), Whole("loc_corr_type", 84, 1), Whole("section_nominal", 87, 2),
     Whole("section_reverse", 89, 2), Whole("is_duplicate", 93, 1), Whole("comm_nominal", 94, 1),
     Whole("comm_reverse", 95, 1) >>

Pieces(type) ==
  CASE type = RFID_TAG_NORMAL -> Normal
    [] type = RFID_TAG_LC -> LevelCrossing
    [] type = RFID_TAG_ADJ_LINE -> AdjacentLine
    [] type = RFID_TAG_JUNCTION -> Junction

\* The fields of a tag, put together from their pieces.
Decoded(type, bits) ==
  LET pieces == Pieces(type)
      Sum(name) ==
        LET sum[i \in 0..Len(pieces)] ==
              IF i = 0 THEN 0
              ELSE sum[i - 1] + (IF pieces[i].name # name THEN 0
                                 ELSE GetBits(bits, pieces[i].bit, pieces[i].len)
                                        * 2^pieces[i].place)
        IN sum[Len(pieces)]
  IN [name \in {pieces[i].name : i \in DOMAIN pieces} |-> Sum(name)]

\* rfid_process_complete_tag: a tag of unknown type is passed over.  The first
\* tag sets prev_abs_loc_m: no location is as great as the one tested for.
ProcessCompleteTag(bits) ==
  LET type == GetBits(bits, 0, 4)
  IN IF type \notin TagTypes THEN UNCHANGED <<tag, prev_abs_loc_m>>
     ELSE /\ tag' = Decoded(type, bits)
          /\ prev_abs_loc_m' = IF prev_abs_loc_m = NoTag THEN Decoded(type, bits)["abs_loc_m"]
                               ELSE prev_abs_loc_m

-----------------------------------------------------------------------------
(* The tags (external) *)

\* The fields of a tag in their order, with the bits of each.
Written(type) ==
  << <<"tag_type", 4>>, <<"version", 2>>, <<"tag_set_id", 10>>, <<"abs_loc_m", 23>>,
     <<"tin_nominal", 8>>, <<"tin_reverse", 8>> >> \o
  CASE type = RFID_TAG_NORMAL ->
         << <<"station_nominal", 16>>, <<"station_reverse", 16>>, <<"section_nominal", 2>>,
            <<"section_reverse", 2>>, <<"tag_placement", 4>> >>
    [] type = RFID_TAG_LC ->
         << <<"section_nominal", 2>>, <<"section_reverse", 2>>, <<"tag_placement", 4>>,
            <<"lc_territory", 2>>, <<"applicable_dir", 1>>, <<"gate_id", 10>>,
            <<"gate_alpha", 3>>, <<"gate_type", 1>>, <<"distance_to_gate", 10>>,
            <<"auto_whistle", 1>>, <<"whistle_type", 1>>, <<"spare", 3>> >>
    [] type = RFID_TAG_ADJ_LINE ->
         << <<"adj_tin_0", 8>>, <<"adj_tin_1", 8>>, <<"adj_tin_2", 8>>, <<"adj_tin_3", 8>>,
            <<"adj_tin_4", 8>> >>
    [] type = RFID_TAG_JUNCTION ->
         << <<"abs_loc_2", 23>>, <<"dir_corr_1", 3>>, <<"dir_corr_2", 3>>, <<"loc_corr_type", 1>>,
            <<"spare", 2>>, <<"section_nominal", 2>>, <<"section_reverse", 2>>, <<"spare", 4>> >>
  \o << <<"is_duplicate", 1>>, <<"comm_nominal", 1>>, <<"comm_reverse", 1>> >>

\* The value of a field of a tag, its bits all alike but in the field told.
Value(t, name, len) ==
  IF name = "tag_type" THEN t.type
  ELSE IF name = t.field THEN t.value % 2^len
  ELSE IF t.rest = 1 THEN 2^len - 1 ELSE 0

BitsOf(t) ==
  LET fields == Written(t.type)
      start[i \in 1..(Len(fields) + 1)] ==
        IF i = 1 THEN 0 ELSE start[i - 1] + fields[i - 1][2]
      Ones(i) == {start[i] + b : b \in {b \in 0..(fields[i][2] - 1) :
                    (Value(t, fields[i][1], fields[i][2]) \div 2^b) % 2 = 1}}
  IN UNION {Ones(i) : i \in DOMAIN fields}

ReadTag(t) ==
  /\ ProcessCompleteTag(BitsOf(t))
  /\ tag_read' = t

TagInit ==
  /\ tag = NoTag
  /\ prev_abs_loc_m = NoTag
  /\ tag_read = NoTag

TagNext == \E t \in Tags : ReadTag(t)

-----------------------------------------------------------------------------
(* Properties *)

\* A field of the last tag is read from the bits that were written for it.
ReadsBack(name, len) ==
  tag[name] = Value(tag_read, name, len)

\* Every field of a tag that was decoded is the one that was written, whatever
\* the others: no bit is read twice or lost, and the fields that are taken
\* from both halves of a tag are put together.  Only the last three of a
\* junction are not: the program takes the bit before for the duplicate flag.
TagsReadBack ==
  tag_read # NoTag =>
    LET fields == Written(tag_read.type)
    IN \A i \in DOMAIN fields :
         (/\ fields[i][1] \in DOMAIN tag
          /\ tag_read.type = RFID_TAG_JUNCTION => i <= Len(fields) - 3) =>
           ReadsBack(fields[i][1], fields[i][2])
=============================================================================
