------------------------------ MODULE GpsBytes ------------------------------
(***************************************************************************)
(* The bytes of the two GPS receivers (Drivers/gps.c): the interrupts put  *)
(* them into a ring for each receiver, through the one variable rx_byte;   *)
(* gps_process takes one byte from each ring and gives it to the parser of *)
(* that receiver, which looks for frames of a fixed length.                *)
(*                                                                         *)
(* A byte is its receiver and its number in what that receiver sends: one  *)
(* frame after the other.  The checksum is taken to be perfect: a frame is *)
(* good if what follows its header is what follows the header of one       *)
(* frame.  A byte lost on the line is left out: it is to the parser as one *)
(* that found the ring full.                                               *)
(***************************************************************************)
EXTENDS Naturals, Sequences

CONSTANTS
  RX_BUF_SIZE,
  GPS_FRAME_TOTAL,
  FrameContents, \* what follows the header in each frame of a receiver: "A5",
                 \* "5A", "length" or "other", at each place
  MaxBytes       \* bound: bytes sent by each receiver

Gps == {1, 2}
Slots == 0..(RX_BUF_SIZE - 1)
Places == 0..(GPS_FRAME_TOTAL - 1)

Numbers(g) == 1..MaxBytes[g]
Frames(g) == 1..(MaxBytes[g] \div GPS_FRAME_TOTAL + 1)

FrameHeader == <<"A5", "5A", "length">>
HeaderPlaces == 0..2

GpsBytesAssumption ==
  /\ RX_BUF_SIZE \in Nat /\ RX_BUF_SIZE > 1
  /\ GPS_FRAME_TOTAL \in Nat /\ GPS_FRAME_TOTAL > 3
  /\ MaxBytes \in [Gps -> Nat]
  /\ \A g \in Gps : \A f \in Frames(g) :
       FrameContents[g][f] \in [Places \ HeaderPlaces -> {"A5", "5A", "length", "other"}]

VARIABLES
  rx_byte,
  rx_length,    \* g_sciTransfer_t: bytes that each driver still waits for
  rx_data,      \* whether its pointer is that to rx_byte (NULL at first)
  isr,          \* the interrupts being served, the innermost first
  rx_buf, rx_head, rx_tail,
  turn,         \* where the program is in KavachInit, and then in gps_process
  popped,       \* the byte read by gpsN_rx_pop, in a sequence of at most one
  state,        \* gps1_state, gps2_state
  frame_index,
  frame_buf,    \* the frame of which the bytes gathered after the header are, or
                \* 0 if they are not, or there are none
  \* The receivers (external).
  next,         \* the number of the next byte of each
  \* History.
  gps_parsed,       \* the number of the last byte each parser was given
  run,          \* how many bytes in a row, to that one, came without a gap
  strays,       \* how many bytes that are not its own the ring of each got, until
                \* one of its own is parsed
  good          \* the number of the last good frame

rings == <<rx_buf, rx_head, rx_tail>>
line == <<rx_byte, rx_length, rx_data, isr>>
parsers == <<state, frame_index, frame_buf, gps_parsed, run, good>>
lineVars == <<line, rings, turn, popped, parsers, next, strays>>

Place(b) == (b.num - 1) % GPS_FRAME_TOTAL
FrameOf(b) == (b.num - 1) \div GPS_FRAME_TOTAL + 1

\* What stands at place i of frame f.
Value(g, f, i) == IF i \in HeaderPlaces THEN FrameHeader[i + 1] ELSE FrameContents[g][f][i]

\* The byte 0 is the value of rx_byte before any came.
ByteValue(b) == IF b.num = 0 THEN "other" ELSE Value(b.gps, FrameOf(b), Place(b))

\* b was sent by receiver g.
Own(g, b) == b.gps = g /\ b.num > 0

(***************************************************************************)
(* Slips a programmer could make in the definitions below.  Nothing uses   *)
(* them: put in the place of the originals, they make the properties fail. *)
(***************************************************************************)

\* A head that does not wrap.
AfterUnwrapped(i) == i + 1

-----------------------------------------------------------------------------
\* sciInit: neither driver waits for a byte yet, or has a place for it.
SciInit == rx_length = [g \in Gps |-> 0] /\ rx_data = [g \in Gps |-> FALSE]

LineInit ==
  /\ SciInit
  /\ rx_byte = [gps |-> 1, num |-> 0]
  /\ isr = <<>>
  /\ rx_buf = [g \in Gps |-> [i \in Slots |-> 0]]
  /\ rx_head = [g \in Gps |-> 0] /\ rx_tail = [g \in Gps |-> 0]
  /\ turn = [gps |-> 1, at |-> "arm"] /\ popped = <<>>
  /\ state = [g \in Gps |-> "SYNC1"] /\ frame_index = [g \in Gps |-> 0]
  /\ frame_buf = [g \in Gps |-> 0]
  /\ next = [g \in Gps |-> 1]
  /\ gps_parsed = [g \in Gps |-> 0] /\ run = [g \in Gps |-> 0] /\ good = [g \in Gps |-> 0]
  /\ strays = [g \in Gps |-> 0]

(***************************************************************************)
(* sciHighLevelInterrupt (GPS2) and linHighLevelInterrupt (GPS1), of       *)
(* source/sci.c: a byte that the driver waits for goes where rx_data       *)
(* points, and sciNotification pushes rx_byte into the ring and waits for  *)
(* the next; any other byte is dropped.  Both are IRQs: while one is       *)
(* served the other waits.                                                 *)
(***************************************************************************)
IrqEnabled == isr = <<>> /\ turn.at # "aborted"

\* rx_data is moved on to the next byte, as if the buffer were longer.
PutByte(g, byte) ==
  /\ rx_byte' = byte
  /\ rx_length' = [rx_length EXCEPT ![g] = @ - 1]
  /\ rx_data' = [rx_data EXCEPT ![g] = FALSE]
  /\ isr' = <<g>> \o isr
  /\ UNCHANGED turn

\* A store through NULL: nothing is stored, or the data abort is taken.
PutNowhere(g) ==
  \/ PutByte(g, rx_byte)
  \/ turn' = [turn EXCEPT !.at = "aborted"] /\ UNCHANGED line

StoreByte(g) ==
  /\ IrqEnabled
  /\ next[g] \in Numbers(g)
  /\ next' = [next EXCEPT ![g] = @ + 1]
  /\ \/ rx_length[g] > 0 /\ rx_data[g] /\ PutByte(g, [gps |-> g, num |-> next[g]])
     \/ rx_length[g] > 0 /\ ~rx_data[g] /\ PutNowhere(g)
     \/ rx_length[g] = 0 /\ UNCHANGED <<line, turn>>
  /\ UNCHANGED <<rings, popped, parsers, strays>>

SciHighLevelInterrupt == StoreByte(2)
LinHighLevelInterrupt == StoreByte(1)

\* custom_dabort does nothing, and _dabort goes back to the store that aborted.
DataAbort == turn.at = "aborted" /\ UNCHANGED lineVars

\* The two stores of sciReceive.
SetLength(g) == rx_length' = [rx_length EXCEPT ![g] = 1]
SetData(g) == rx_data' = [rx_data EXCEPT ![g] = TRUE]

\* KavachInit waits for the first byte of each.  IRQs and the interrupts of both
\* drivers are enabled before: a byte may come between the two stores.
StartReceiving ==
  /\ isr = <<>>
  /\ \/ /\ turn.at = "arm"
        /\ SetLength(turn.gps) /\ UNCHANGED rx_data
        /\ turn' = [turn EXCEPT !.at = "arming"]
     \/ /\ turn.at = "arming"
        /\ SetData(turn.gps) /\ UNCHANGED rx_length
        /\ turn' = IF turn.gps = 1 THEN [gps |-> 2, at |-> "arm"] ELSE [gps |-> 1, at |-> "look"]
  /\ UNCHANGED <<rx_byte, isr, rings, popped, parsers, next, strays>>

After(i) == (i + 1) % RX_BUF_SIZE

\* gps1_rx_push and gps2_rx_push: a byte that finds the ring full is dropped.
Push(g) ==
  IF After(rx_head[g]) # rx_tail[g]
  THEN /\ rx_buf' = [rx_buf EXCEPT ![g][rx_head[g]] = rx_byte]
       /\ rx_head' = [rx_head EXCEPT ![g] = After(@)]
  ELSE UNCHANGED <<rx_buf, rx_head>>

\* In the interrupt nothing comes between the two stores.
SciReceive(g) == SetLength(g) /\ SetData(g)

SciNotification ==
  /\ isr # <<>>
  /\ Push(Head(isr))
  /\ SciReceive(Head(isr))
  /\ isr' = Tail(isr)
  /\ strays' = [strays EXCEPT ![Head(isr)] = IF Own(Head(isr), rx_byte) THEN @ ELSE @ + 1]
  /\ UNCHANGED <<rx_byte, rx_tail, turn, popped, parsers, next>>

(***************************************************************************)
(* gps_process.  The main loop stands still while an interrupt is served,  *)
(* and may be interrupted between reading a byte and moving the tail on.   *)
(***************************************************************************)
Running(g, at) == isr = <<>> /\ turn = [gps |-> g, at |-> at]

RxPopLook(g) ==
  /\ Running(g, "look")
  /\ IF rx_head[g] = rx_tail[g]
     THEN turn' = [gps |-> 3 - g, at |-> "look"] /\ UNCHANGED popped
     ELSE turn' = [gps |-> g, at |-> "take"] /\ popped' = <<rx_buf[g][rx_tail[g]]>>
  /\ UNCHANGED <<line, rings, parsers, next, strays>>

Seek(g, s, index, buf) ==
  /\ state' = [state EXCEPT ![g] = s]
  /\ frame_index' = [frame_index EXCEPT ![g] = index]
  /\ frame_buf' = [frame_buf EXCEPT ![g] = buf]

\* The buffer when byte b comes to its place i.  One header is as good as another.
With(buf, i, b) ==
  IF i \notin HeaderPlaces /\ Place(b) = i /\ (i - 1 \in HeaderPlaces \/ buf = FrameOf(b))
  THEN FrameOf(b) ELSE 0

IsLength(b) == ByteValue(b) = "length"

\* The parsers: looking for a header, which must have the right length.
ParseHeader(g, b) ==
  /\ UNCHANGED good
  /\ \/ state[g] = "SYNC1" /\ ByteValue(b) = "A5" /\ Seek(g, "SYNC2", 1, 0)
     \/ state[g] = "SYNC1" /\ ByteValue(b) # "A5" /\ Seek(g, "SYNC1", 0, 0)
     \/ state[g] = "SYNC2" /\ ByteValue(b) = "5A" /\ Seek(g, "LEN", 2, 0)
     \/ state[g] = "SYNC2" /\ ByteValue(b) # "5A" /\ Seek(g, "SYNC1", 0, 0)
     \/ state[g] = "LEN" /\ IsLength(b) /\ Seek(g, "DATA", 3, 0)
     \/ state[g] = "LEN" /\ ~IsLength(b) /\ Seek(g, "SYNC1", 0, 0)

\* gps1_parse_complete_frame and gps2_parse_complete_frame: the CRC matches
\* if the bytes are those of a frame.
ParseCompleteFrame(g, buf) ==
  good' = IF buf # 0 THEN [good EXCEPT ![g] = buf] ELSE good

LeaveFrame(g) == Seek(g, "SYNC1", 0, 0)

ParseData(g, b) ==
  LET buf == With(frame_buf[g], frame_index[g], b)
      index == frame_index[g] + 1
  IN /\ state[g] = "DATA"
     /\ \/ index < GPS_FRAME_TOTAL /\ Seek(g, "DATA", index, buf) /\ UNCHANGED good
        \/ index >= GPS_FRAME_TOTAL /\ ParseCompleteFrame(g, buf) /\ LeaveFrame(g)

\* gps1_parse_byte and gps2_parse_byte
ParseByte(g, b) ==
  /\ ParseHeader(g, b) \/ ParseData(g, b)
  /\ gps_parsed' = IF Own(g, b) THEN [gps_parsed EXCEPT ![g] = b.num] ELSE gps_parsed
  /\ run' = [run EXCEPT ![g] = IF ~Own(g, b) THEN 0
                               ELSE IF b.num # gps_parsed[g] + 1 THEN 1
                               ELSE IF @ < 2 * GPS_FRAME_TOTAL THEN @ + 1 ELSE @]
  /\ strays' = IF Own(g, b) THEN [strays EXCEPT ![g] = 0] ELSE strays

\* The end of gpsN_rx_pop, and the byte goes to the parser.
RxPopTake(g) ==
  /\ Running(g, "take")
  /\ turn' = [gps |-> 3 - g, at |-> "look"]
  /\ rx_tail' = [rx_tail EXCEPT ![g] = After(@)]
  /\ popped' = <<>>
  /\ ParseByte(g, popped[1])
  /\ UNCHANGED <<line, rx_buf, rx_head, next>>

LineNext ==
  \/ SciHighLevelInterrupt \/ LinHighLevelInterrupt \/ SciNotification
  \/ DataAbort
  \/ StartReceiving
  \/ \E g \in Gps : RxPopLook(g) \/ RxPopTake(g)

LineSpec == LineInit /\ [][LineNext]_lineVars

-----------------------------------------------------------------------------
(* Properties *)

\* A byte of ring g, the k-th from the tail.
Held(g) == (rx_head[g] + RX_BUF_SIZE - rx_tail[g]) % RX_BUF_SIZE
Kth(g, k) == rx_buf[g][(rx_tail[g] + k) % RX_BUF_SIZE]

\* No byte is waited for in vain: as long as the main loop runs, each driver
\* waits for the next byte whenever its interrupt is not served, though
\* sciNotification is all that makes it wait (sciReceive is called once).
DriversAreArmed ==
  turn.at \in {"look", "take"} =>
    \A g \in Gps : rx_length[g] = 0 <=> \E i \in DOMAIN isr : isr[i] = g

\* The number of the last byte of receiver g before the k-th of its ring.
Before(g, k) == IF k > 0 /\ Own(g, Kth(g, k - 1)) THEN Kth(g, k - 1).num ELSE gps_parsed[g]

\* Each ring holds bytes of its own receiver, in the order in which they came
\* and after those parsed, though the interrupts share rx_byte and interrupt
\* the main loop in the middle of a pop, and a full ring drops bytes.  Only the
\* first byte of all may be another one, if it came while KavachInit was in
\* sciReceive.
OwnBytesInOrder ==
  \A g \in Gps :
    /\ strays[g] <= 1
    /\ \A k \in 0..(RX_BUF_SIZE - 2) : k < Held(g) =>
         \/ /\ Own(g, Kth(g, k))
            /\ Before(g, k) < Kth(g, k).num /\ Kth(g, k).num < next[g]
         \/ k = 0 /\ ~Own(g, Kth(g, k)) /\ strays[g] = 1 /\ gps_parsed[g] = 0

\* Nothing in frame f, after its own header, looks like a header, or like the
\* beginning of one at its end.
HeaderFree(g, f) ==
  \A i \in Places \ {0} : Value(g, f, i) = "A5" =>
    /\ i + 1 \in Places
    /\ Value(g, f, i + 1) = "5A" => i + 2 \in Places /\ Value(g, f, i + 2) # "length"

\* After lost bytes a parser finds its way back within one frame: a frame
\* that comes whole after one that came whole is accepted, if the parser could
\* not take anything in the first of the two for a header.
SecondWholeFrameIsGood ==
  \A g \in Gps :
    LET f == gps_parsed[g] \div GPS_FRAME_TOTAL
    IN (/\ run[g] >= 2 * GPS_FRAME_TOTAL /\ gps_parsed[g] % GPS_FRAME_TOTAL = 0
        /\ HeaderFree(g, f - 1))
         => good[g] = f

\* The bytes of a GPS receiver come to its parser in order, though the
\* interrupts share rx_byte, and the parser finds its way back after lost ones.
GpsFramesAreRead == DriversAreArmed /\ OwnBytesInOrder /\ SecondWholeFrameIsGood
=============================================================================
