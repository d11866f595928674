------------------------------ MODULE StatusRx ------------------------------
(***************************************************************************)
(* Status frames that come on two buses: an input card's                   *)
(* (input_card_rx_handler in Drivers/input_card.c) and the SMOCIP panel's  *)
(* (smocip_rx_handle in Drivers/SMOCIP.c).  The two handlers differ in the *)
(* events they log.  A record is its number in the order in which it is    *)
(* sent, a frame carries its transaction id and its values.                *)
(***************************************************************************)
EXTENDS Naturals

CONSTANTS
  Panel,        \* the SMOCIP panel, not an input card
  TidMod,       \* transaction ids are counted modulo this (16)
  Value,        \* the inputs, or SOS bits, that are set in each record
  MaxLate,      \* bound: how many records late a frame may arrive
  MaxPackets    \* bound: records sent in a behaviour

Records == 1..MaxPackets

Tid(p) == p % TidMod

Frame(p) == <<Tid(p), Value[p]>>

Buses == {1, 2}

VARIABLES
  saved,        \* input_card_can1 and _can2: a record, or 0 if not valid
  last,         \* last_transaction_id and last_payload, or 0 at the start
  expected,     \* expected_transaction_id
  inputs,       \* the values taken over
  \* The card and the buses (external).
  sent,         \* records sent so far
  bus,          \* the record each bus has come to
  \* History.
  taken,        \* the record taken over last
  events,       \* the values logged with it as changed
  acked,        \* the record acknowledged last
  refused       \* a record counted as a conflict since then, or 0

rxVars == <<saved, last, expected, inputs>>
history == <<taken, events, acked, refused>>
vars == <<rxVars, sent, bus, history>>

-----------------------------------------------------------------------------
Init ==
  /\ saved = [b \in Buses |-> 0]
  /\ last = 0 /\ expected = 0 /\ inputs = {}
  /\ sent = 0 /\ bus = [b \in Buses |-> 1]
  /\ taken = 0 /\ events = {} /\ acked = 0 /\ refused = 0

\* The next record, whether the last one was acknowledged or not (external).
Send ==
  /\ sent < MaxPackets
  /\ sent' = sent + 1
  /\ UNCHANGED <<rxVars, bus, history>>

\* Each bus keeps the order of the records, may repeat or lose them, and may
\* be behind the other (external).
Arriving(b) == {p \in Records : bus[b] <= p /\ p <= sent /\ sent <= p + MaxLate}

Other(b) == CHOOSE c \in Buses : c # b

\* The frame last saved from the other bus is the same.
IsCopy(b, p) == saved[Other(b)] # 0 /\ Frame(saved[Other(b)]) = Frame(p)

SamePayload(p) == Value[last] = Value[p]

Repeats(p) == last # 0 /\ Tid(last) = Tid(p)

Unexpected(p) == last # 0 /\ Tid(p) # expected

Conflict(p) ==
  /\ refused' = p
  /\ UNCHANGED <<last, expected, inputs, taken, events, acked>>

AckAgain(p) ==
  /\ acked' = p
  /\ UNCHANGED <<last, expected, inputs, taken, events, refused>>

\* The panel logs values that appear, a card every change but in its first
\* record.
Logged(p) ==
  CASE Panel -> Value[p] \ inputs
    [] ~Panel /\ last = 0 -> {}
    [] ~Panel /\ last # 0 -> (Value[p] \ inputs) \cup (inputs \ Value[p])

Accept(p) ==
  /\ last' = p
  /\ expected' = (Tid(p) + 1) % TidMod
  /\ inputs' = Value[p]
  /\ taken' = p
  /\ events' = Logged(p)
  /\ acked' = p
  /\ refused' = 0

RxHandler(b, p) ==
  /\ p \in Arriving(b)
  /\ bus' = [bus EXCEPT ![b] = p]
  /\ UNCHANGED sent
  /\ \/ IsCopy(b, p) /\ UNCHANGED <<rxVars, history>>
     \/ /\ ~IsCopy(b, p)
        /\ saved' = [saved EXCEPT ![b] = p]
        /\ \/ Repeats(p) /\ SamePayload(p) /\ AckAgain(p)
           \/ Repeats(p) /\ ~SamePayload(p) /\ Conflict(p)
           \/ ~Repeats(p) /\ Unexpected(p) /\ Conflict(p)
           \/ ~Repeats(p) /\ ~Unexpected(p) /\ Accept(p)

Next ==
  \/ Send
  \/ \E b \in Buses, p \in Records : RxHandler(b, p)

Spec == Init /\ [][Next]_vars

-----------------------------------------------------------------------------
(* Properties *)

TypeOK ==
  /\ saved \in [Buses -> 0..MaxPackets]
  /\ last \in 0..MaxPackets /\ expected \in 0..(TidMod - 1)
  /\ inputs \subseteq UNION {Value[p] : p \in Records}
  /\ sent \in 0..MaxPackets /\ bus \in [Buses -> Records]
  /\ taken \in 0..MaxPackets /\ acked \in 0..MaxPackets /\ refused \in 0..MaxPackets

\* Records are taken over in the order in which they were sent, each once,
\* however far one bus is behind the other.
TakesInOrder == taken' # taken => taken < taken'

\* An ACK is sent only for a record whose values are those taken over.
AcksTaken == acked' # acked => Value[acked'] = inputs'

\* The events logged are the changes between the records taken over,
\* whatever was refused in between.
EventsAreChanges ==
  taken' # taken =>
    LET old == IF taken = 0 THEN {} ELSE Value[taken]
        appeared == Value[taken'] \ old
        gone == old \ Value[taken']
    IN events' = CASE Panel -> appeared
                   [] ~Panel /\ taken = 0 -> {}
                   [] ~Panel /\ taken # 0 -> appeared \cup gone

\* The record that follows the last one taken over is never counted as a
\* conflict.
WelcomesSuccessor == refused' \notin {0, refused} => refused' # taken + 1
=============================================================================
