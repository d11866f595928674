---------------------------- MODULE RadioPackets ----------------------------
(***************************************************************************)
(* The contents of the packets exchanged with trains (Drivers/radio.c).    *)
(* The four builders write a packet bit by bit into radio_ctx.payload;     *)
(* radio_parse_orp and radio_parse_arp read the two packets that come.     *)
(*                                                                         *)
(* A packet is a sequence of fields, each a name, a width and a value.     *)
(* The builders number the bits of a byte from the lowest, the parsers     *)
(* from the highest; here a bit is its number.  All values but those of    *)
(* the header are the literal 0 in the code, and so are all counts; the    *)
(* layouts are those for any count.  The builders give some fields the     *)
(* global array payload and not the buffer: all of these are 0, in a       *)
(* buffer that was cleared, except for PKT_LEN.                            *)
(*                                                                         *)
(* Of a received packet each byte is the number of its packet, of its      *)
(* fragment and its place in that; how fragments are accepted is modelled  *)
(* in RadioRx, and here they all come, in order.                           *)
(***************************************************************************)
EXTENDS Naturals, Sequences, SequencesExt

CONSTANTS
  Seconds,       \* seconds of the day at which radio_update_frame_number runs
  Received,      \* packets that come, in order: [type, fragments]
  Nothing        \* of a byte that was never written, or a packet not built

VARIABLES
  second,        \* cpu_time_sec % 86400
  frame_num,
  radio_ctx,     \* the packet built last: payload (its fields), payload_len, seq_total
  scratch_len,   \* what bits 4 to 10 of the global payload hold
  sent,          \* the last packet given to radio_ack_transaction_start: its type, fields
  rx_payload,    \* radio_rx_ctx.payload
  arrived,       \* how many of Received have come
  parsed         \* orp and arp: the fields, each with the bytes it was read from

txVars == <<second, frame_num, radio_ctx, scratch_len, sent>>
rxVars == <<rx_payload, arrived, parsed>>

MAX_FRAGMENTS == 64
PAYLOAD_BYTES == 6
g_my_stn_id == 74565    \* 0x12345
KAVACH_VERSION_4_0 == 2

ARP == 13
AAP == 2
ORP == 10
REG_TYPE1 == 9
REG_TYPE2 == 5
AEP == 6

Field(name, width, value) == [name |-> name, width |-> width, value |-> value]
Zero(width, name) == Field(name, width, 0)

\* Where the bits of each field start, and after the last where they end.
Starts(fields) ==
  LET start[i \in 1..(Len(fields) + 1)] ==
        IF i = 1 THEN 0 ELSE start[i - 1] + fields[i - 1].width
  IN start

Bits(fields) == Starts(fields)[Len(fields) + 1]

(***************************************************************************)
(* Slips a programmer could make in the definitions below.  Nothing uses   *)
(* them: put in the place of the originals, they make the properties fail. *)
(***************************************************************************)

\* A fragment placed by its number alone.
PlacedByNumber(k) == k

-----------------------------------------------------------------------------
(* Layouts *)

Repeat(n, fields) == FlattenSeq([i \in 1..n |-> fields])

\* A packet within the packet, made whole bytes long.
Padded(fields) == Append(fields, Zero((8 - (Bits(fields) % 8)) % 8, "PADDING"))

Header(type) ==
  << Field("PKT_TYPE", 4, type), Field("PKT_LEN", 7, 0), Field("FRAME_NUM", 17, frame_num),
     Field("SOURCE_STN_ID", 16, g_my_stn_id % 65536), Field("VERSION", 3, KAVACH_VERSION_4_0) >>

AapFields ==
  Header(AAP) \o
  << Zero(23, "STN_ILC_IBS_LOC"), Zero(20, "DEST_LOCO_ID"), Zero(12, "ALLOTTED_UPLINK_FREQ"),
     Zero(12, "ALLOTTED_DOWNLINK_FREQ"), Zero(7, "ALLOTTED_TDMA_TIMESLOT"),
     Zero(16, "STN_RANDOM_NUMBER"), Zero(7, "STN_TDMA") >>

\* The builder of an AEP gives it the type of an AAP.
AepFields ==
  Header(AAP) \o
  << Zero(23, "STN_ILC_IBS_LOC"), Zero(1, "GEN_SOS_CALL"), Zero(1, "PADDING") >>

RegHeader(type) ==
  Header(type) \o
  << Zero(20, "DEST_LOCO_ID"), Zero(4, "REF_PROF_ID"), Zero(10, "LAST_REF_RFID"),
     Zero(15, "DIST_PKT_START"), Zero(2, "PKT_DIR"), Zero(3, "PADDING") >>

\* Movement authority.  Its optional parts are those of the values that the
\* code gives: none.
MovementAuthority ==
  Padded(
    << Zero(4, "SUB_PKT_TYPE"), Zero(7, "SUB_PKT_LEN"), Zero(4, "FRAME_OFFSET"),
       Zero(4, "DEST_LOCO_SOS"), Zero(2, "TRAIN_SECTION_TYPE"), Zero(17, "CUR_SIG_INFO"),
       Zero(6, "CUR_SIG_ASPECT"), Zero(6, "NEXT_SIG_ASPECT"), Zero(15, "APPR_SIG_DIST"),
       Zero(2, "AUTHORITY_TYPE"), Zero(16, "MA_W_R_T_SIG"), Zero(1, "REQ_SHORTEN_MA"),
       Zero(1, "TRAIN_LENGTH_INFO_STS"), Zero(1, "NEXT_STN_COMM") >>)

SubHeader == << Zero(4, "SUB_PKT_TYPE"), Zero(7, "SUB_PKT_LEN") >>

\* Static speeds, of class 0 (one speed for all trains).
StaticSpeedProfile(n) ==
  Padded(SubHeader \o << Field("LM_Speed_Info_CNT", 5, n) >> \o
         Repeat(n, << Zero(15, "LM_Static_Speed_Distance"), Zero(1, "LM_Static_Speed_Class"),
                      Zero(6, "LM_Speed_Universal") >>))

GradientProfile(n) ==
  Padded(SubHeader \o << Field("LM_Grad_Info_CNT", 5, n) >> \o
         Repeat(n, << Zero(15, "LM_Gradient_Distance"), Zero(1, "LM_GDIR"),
                      Zero(5, "LM_GRADIENT_VALUE") >>))

LevelCrossings(n) ==
  Padded(SubHeader \o << Field("LM_LC_Info_CNT", 5, n) >> \o
         Repeat(n, << Zero(15, "LM_LC_Distance"), Zero(10, "LM_LC_ID_Numeric"),
                      Zero(3, "LM_LC_ID_Alpha_Suffix"), Zero(1, "LM_LC_Manning_Type"),
                      Zero(3, "LM_LC_Class"), Zero(1, "LM_LC_Auto_Whistle_En") >>))

TurnoutSpeeds(n) ==
  Padded(SubHeader \o << Field("TO_CNT", 2, n) >> \o
         Repeat(n, << Zero(5, "TO_SPEED"), Zero(15, "DIFF_DIST_TO"),
                      Zero(12, "TO_SPEED_REL_DIST") >>))

\* Tags and adjacent lines.  The loop over lines includes its bound.
TagLinking(tags, lines) ==
  Padded(SubHeader \o << Zero(4, "DIST_DUP_TAG"), Field("ROUTE_RFID_CNT", 6, tags) >> \o
         Repeat(tags, << Zero(11, "DIST_NXT_RFID"), Zero(10, "NXT_RFID_TAG_ID"),
                         Zero(1, "DUP_TAG_DIR") >>) \o
         << Zero(1, "ABS_LOC_RESET"), Field("ADJ_LINE_CNT", 3, lines) >> \o
         Repeat(lines + 1, << Zero(9, "LINE_TIN") >>))

TrackConditions(n) ==
  Padded(SubHeader \o << Field("TRACKCOND_CNT", 4, n) >> \o
         Repeat(n, << Zero(4, "TRACKCOND_TYPE"), Zero(15, "START_DIST_TRACKCOND"),
                      Zero(15, "LENGTH_TRACKCOND") >>))

SpeedRestrictions(n) ==
  Padded(SubHeader \o << Zero(2, "TSR_STATUS"), Field("TSR_Info_CNT", 5, n) >> \o
         Repeat(n, << Zero(8, "TSR_ID"), Zero(15, "TSR_DISTANCE"), Zero(15, "TSR_LENGTH"),
                      Zero(1, "TSR_CLASS"), Zero(6, "TSR_UNIVERSAL_SPEED"),
                      Zero(2, "TSR_WHISTLE") >>))

RegType1Fields ==
  RegHeader(REG_TYPE1) \o MovementAuthority \o StaticSpeedProfile(0) \o GradientProfile(0)
    \o LevelCrossings(0) \o TurnoutSpeeds(0) \o TagLinking(0, 0) \o TrackConditions(0)
    \o SpeedRestrictions(0)

RegType2Fields == RegHeader(REG_TYPE2) \o MovementAuthority

\* The fields that the parsers read.
OrpFields ==
  << Zero(4, "pkt_type"), Zero(7, "pkt_len"), Zero(17, "frame_num"), Zero(20, "source_loco_id"),
     Zero(3, "source_loco_version"), Zero(23, "abs_loco_loc"), Zero(9, "l_doubtover"),
     Zero(9, "l_doubtunder"), Zero(2, "train_int"), Zero(11, "train_length"),
     Zero(9, "train_speed"), Zero(2, "movement_dir"), Zero(3, "emergency_status"),
     Zero(4, "loco_mode"), Zero(10, "last_rfid_tag"), Zero(1, "tag_dup"),
     Zero(3, "tag_link_info"), Zero(9, "tin"), Zero(3, "brake_applied"), Zero(2, "new_ma_reply"),
     Zero(4, "last_ref_profile_num"), Zero(1, "sig_ov"), Zero(4, "info_ack"), Zero(2, "spare"),
     Zero(6, "loco_health_status"), Zero(32, "mac_code"), Zero(32, "pkt_crc") >>

ArpFields ==
  << Zero(4, "pkt_type"), Zero(7, "pkt_len"), Zero(17, "frame_num"), Zero(20, "source_loco_id"),
     Zero(3, "source_loco_version"), Zero(23, "abs_loco_loc"), Zero(11, "train_length"),
     Zero(9, "train_speed"), Zero(2, "movement_dir"), Zero(3, "emergency_status"),
     Zero(4, "loco_mode"), Zero(16, "approaching_station_id"), Zero(10, "last_rfid_tag"),
     Zero(9, "tin"), Zero(21, "radio_longitude"), Zero(20, "radio_latitude"),
     Zero(16, "loco_rnd_num_rl"), Zero(5, "padding_bits"), Zero(32, "pkt_crc") >>

-----------------------------------------------------------------------------
(* Transmission *)

Fragments(len) == (len + PAYLOAD_BYTES - 1) \div PAYLOAD_BYTES

FrameNumber(s) == s - (s % 2) + 1

PacketInit ==
  /\ second \in Seconds
  /\ frame_num = 1
  /\ radio_ctx = [payload |-> <<>>, payload_len |-> 0, seq_total |-> 0]
  /\ scratch_len = 0
  /\ sent = Nothing
  /\ rx_payload = [b \in 0..261 |-> Nothing]
  /\ arrived = 0
  /\ parsed = Nothing

\* radio_update_frame_number, in v_1sTasks.
UpdateFrameNumber(s) ==
  /\ second' = s
  /\ frame_num' = FrameNumber(s)
  /\ UNCHANGED <<radio_ctx, scratch_len, sent, rxVars>>

\* The length is returned in eight bits, and is inserted in the seven of
\* PKT_LEN, but of the global payload.
Build(fields) ==
  LET len == (Bits(fields) + 7) \div 8
  IN /\ radio_ctx' = [payload |-> fields, payload_len |-> len % 256,
                      seq_total |-> Fragments(len % 256)]
     /\ scratch_len' = len % 128

\* radio_send_aap, _aep, _reg_type1 and _reg_type2: a packet of too many
\* fragments is not sent.  Whether a transaction is free is modelled in RadioTx.
Send(type, fields) ==
  /\ Build(fields)
  /\ sent' = IF radio_ctx'.seq_total > MAX_FRAGMENTS THEN sent
             ELSE [type |-> type, packet |-> radio_ctx', second |-> second]
  /\ UNCHANGED <<second, frame_num, rxVars>>

\* radio_build_fragment_from_transaction: the octets of the payload that fragment k
\* carries, by their numbers, after two that say which fragment it is.
BuildFragment(transaction_id, seq_total, payload_len, k) ==
  [first |-> 16 * (seq_total % 16) + transaction_id,
   second |-> 4 * (k % 64) + ((seq_total \div 16) % 4),
   octets |-> [i \in 0..(PAYLOAD_BYTES - 1) |->
                 IF k * PAYLOAD_BYTES + i < payload_len THEN k * PAYLOAD_BYTES + i ELSE "padding"]]

SendAap == Send(AAP, AapFields)
SendAep == Send(AEP, AepFields)
SendRegType1 == Send(REG_TYPE1, RegType1Fields)
SendRegType2 == Send(REG_TYPE2, RegType2Fields)

-----------------------------------------------------------------------------
(* Reception *)

\* Where fragment k is stored: the offset is of eight bits.
Offset(k) == (k * PAYLOAD_BYTES) % 256

Byte(p, k, i) == [pkt |-> p, fragment |-> k, place |-> i]

\* The fragments that store byte b.
Storing(b, n) == {k \in 0..(n - 1) : b >= Offset(k) /\ b < Offset(k) + PAYLOAD_BYTES}

\* All of packet p stored, fragment after fragment.
Stored(p, n) ==
  [b \in DOMAIN rx_payload |->
     IF Storing(b, n) = {} THEN rx_payload[b]
     ELSE LET k == CHOOSE k \in Storing(b, n) : \A j \in Storing(b, n) : j <= k
          IN Byte(p, k, b - Offset(k))]

\* payload_len is the end of the fragment that was stored furthest.
PayloadLen(n) ==
  CHOOSE len \in {Offset(k) + PAYLOAD_BYTES : k \in 0..(n - 1)} :
    \A k \in 0..(n - 1) : Offset(k) + PAYLOAD_BYTES <= len

\* Each field with the bytes it is read from.
Parse(fields, bytes) ==
  LET start == Starts(fields)
  IN [i \in DOMAIN fields |->
        [name |-> fields[i].name,
         from |-> {bytes[b] : b \in (start[i] \div 8)..((start[i + 1] - 1) \div 8)}]]

\* radio_process_complete_packet: packets of other types, and short ones, are
\* passed over, without an ACK.
ProcessCompletePacket(type, len, bytes) ==
  parsed' = IF len < 18 \/ type \notin {ORP, ARP} THEN parsed
            ELSE [pkt |-> arrived + 1, len |-> len,
                  fields |-> Parse(IF type = ORP THEN OrpFields ELSE ArpFields, bytes)]

ReceivePacket ==
  /\ arrived < Len(Received)
  /\ arrived' = arrived + 1
  /\ LET r == Received[arrived + 1]
     IN /\ rx_payload' = Stored(arrived + 1, r.fragments)
        /\ ProcessCompletePacket(r.type, PayloadLen(r.fragments),
                                 Stored(arrived + 1, r.fragments))
  /\ UNCHANGED txVars

PacketNext ==
  \/ \E s \in Seconds : UpdateFrameNumber(s)
  \/ SendAap \/ SendAep \/ SendRegType1 \/ SendRegType2
  \/ ReceivePacket

\* Packets of as many fragments as radio_rx_handle lets pass, and a value that
\* is none of a byte.
RadioPacketsAssumption ==
  /\ Received \in Seq([type : Nat, fragments : 1..MAX_FRAGMENTS])
  /\ \A p \in DOMAIN Received, k \in 0..(MAX_FRAGMENTS - 1), i \in 0..(PAYLOAD_BYTES - 1) :
       Byte(p, k, i) # Nothing

PacketSpec == PacketInit /\ [][PacketNext]_<<txVars, rxVars>>

-----------------------------------------------------------------------------
(* Properties *)

\* What a receiver reads in bits first to last: set_bits writes the lowest
\* bit of a value first.
ReadBits(fields, first, last) ==
  LET start == Starts(fields)
      Bit(b) == LET i == CHOOSE i \in DOMAIN fields : start[i] <= b /\ b < start[i + 1]
                IN (fields[i].value \div 2^(b - start[i])) % 2
      value[b \in first..(last + 1)] == IF b > last THEN 0 ELSE Bit(b) + 2 * value[b + 1]
  IN value[first]

\* Each fragment says to a receiver how many there are, which it is and of what
\* transaction, and its octets lie where the receiver puts them: all of the
\* payload, and beyond it padding.
FragmentsTell(seq_total, payload_len) ==
  \A id \in 0..15, k \in 0..(seq_total - 1) :
    LET f == BuildFragment(id, seq_total, payload_len, k)
    IN /\ 16 * (f.second % 4) + (f.first \div 16) = seq_total
       /\ f.second \div 4 = k /\ f.first % 16 = id
       /\ \A i \in DOMAIN f.octets :
            f.octets[i] = IF k * PAYLOAD_BYTES + i < payload_len
                          THEN k * PAYLOAD_BYTES + i ELSE "padding"

\* In a packet that is sent, the bits that the tables of radio.c give to the
\* frame number, the station and the version hold them; and the fragments that
\* are sent hold the whole packet, and none is empty.
PacketsReadBack ==
  sent # Nothing =>
    LET p == sent.packet
    IN /\ ReadBits(p.payload, 28, 43) = g_my_stn_id % 65536
       /\ ReadBits(p.payload, 44, 46) = KAVACH_VERSION_4_0
       /\ ReadBits(p.payload, 11, 27) % 2 = 1 /\ ReadBits(p.payload, 11, 27) < 86400
       /\ ReadBits(p.payload, 0, 3) = IF sent.type = AEP THEN AAP ELSE sent.type
       /\ 8 * PAYLOAD_BYTES * (p.seq_total - 1) < Bits(p.payload)
       /\ Bits(p.payload) <= 8 * PAYLOAD_BYTES * p.seq_total
       /\ FragmentsTell(p.seq_total, p.payload_len)

\* A packet of at most 43 fragments lies in the buffer byte by byte as it was
\* sent, whatever lay there before; and of a packet that is parsed, every
\* field that it is long enough to hold is read from its own bytes, in order.
PacketsLandInPlace ==
  arrived > 0 =>
    LET n == Received[arrived].fragments
    IN /\ n <= 43 =>
            \A k \in 0..(n - 1), i \in 0..(PAYLOAD_BYTES - 1) :
              rx_payload[k * PAYLOAD_BYTES + i] = Byte(arrived, k, i)
       /\ (parsed # Nothing /\ parsed.pkt = arrived /\ parsed.len >= 30) =>
            \A j \in DOMAIN parsed.fields : \A b \in parsed.fields[j].from :
              b # Nothing /\ b.pkt = arrived
=============================================================================
