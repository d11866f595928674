------------------------------ MODULE RadioRx ------------------------------
(***************************************************************************)
(* Packets from the radios (radio_rx_handle in Drivers/radio.c): they are  *)
(* reassembled, then accepted only with the transaction id that follows    *)
(* the last one.  A repetition of the last packet is acknowledged again.   *)
(*                                                                         *)
(* One context and one expected id serve both radios, which are therefore  *)
(* taken to number the packets alike.                                      *)
(*                                                                         *)
(* radio_rx_poll_1s, which would drop an old partial packet, has no        *)
(* caller.  A partial packet lies in the context until fragment 0 of       *)
(* another id comes; if none does for a whole round of ids, it takes the   *)
(* fragments of the packet that has its id then, but for fragment 0, which *)
(* counts as there already.                                                *)
(***************************************************************************)
EXTENDS Reassembly

CONSTANTS
  Data,      \* the contents of each packet; packets may be equal
  Parsed     \* packets that radio_parse_orp or radio_parse_arp accepts

VARIABLES
  radio_rx_ctx,
  radio_rx_last,     \* radio_rx_last_valid, _transaction_id and _payload
  radio_rx_expected_transaction_id,
  \* The radio (external).
  sent,              \* packets sent so far
  \* History.
  accepted,          \* the number of packets accepted
  taken,             \* the packets the fragments of the last one are of
  conflict,          \* a packet rejected since then, or 0
  acked,             \* the content of the packet acknowledged last
  heard              \* the packets whose fragment 0 has come

rxVars == <<radio_rx_ctx, radio_rx_last, radio_rx_expected_transaction_id>>
vars == <<rxVars, sent, accepted, taken, conflict, acked, heard>>

(***************************************************************************)
(* Slips a programmer could make in the definitions below.  Nothing uses   *)
(* them: put in the place of the originals, they make the properties fail. *)
(***************************************************************************)

\* The id of a fragment is not compared with that of the context.
OpensUnlessActive(f) == ~radio_rx_ctx.active

\* A repetition recognised by its transaction id alone.
SameTid(ctx) == ctx.tid = radio_rx_last.tid

\* Any transaction id taken for the expected one.
NeverUnexpected(ctx) == FALSE

-----------------------------------------------------------------------------
Init ==
  /\ radio_rx_ctx = Idle
  /\ radio_rx_last = [valid |-> FALSE, tid |-> 0, content |-> NothingYet]
  /\ radio_rx_expected_transaction_id = 0
  /\ sent = 0
  /\ accepted = 0
  /\ taken = {}
  /\ conflict = 0
  /\ acked = NothingYet
  /\ heard = {}

\* The radio goes on to its next packet (external): it has an ACK, or gives up.
Send ==
  /\ sent < MaxPackets
  /\ sent' = sent + 1
  /\ UNCHANGED <<rxVars, accepted, taken, conflict, acked, heard>>

Opens(f) == ~radio_rx_ctx.active \/ radio_rx_ctx.tid # Tid(f.pkt)

\* The context a fragment goes into: that of its id, or a new one.
ContextFor(f) == IF Opens(f) THEN Begun(f) ELSE radio_rx_ctx

\* A fragment of another length, or one that is there already, is ignored.
Fits(f) ==
  ContextFor(f).total = Total[f.pkt] /\ f.index \notin DOMAIN ContextFor(f).got

Content(ctx) == [i \in DOMAIN ctx.got |-> Data[ctx.got[i]]]

SameAsLast(ctx) == radio_rx_last.content = Content(ctx)

Repeats(ctx) == radio_rx_last.valid /\ ctx.tid = radio_rx_last.tid

Unexpected(ctx) ==
  radio_rx_last.valid /\ ctx.tid # radio_rx_expected_transaction_id

Reject(ctx, f) ==
  /\ conflict' = f.pkt
  /\ UNCHANGED <<radio_rx_last, radio_rx_expected_transaction_id, accepted, taken, acked>>

AckAgain(ctx) ==
  /\ acked' = Content(ctx)
  /\ UNCHANGED <<radio_rx_last, radio_rx_expected_transaction_id, accepted, taken, conflict>>

\* radio_parse_orp and radio_parse_arp.
Parses(ctx) == Sources(ctx) \subseteq Parsed

\* The ids are taken over although the packet may then not be parsed;
\* radio_process_complete_packet acknowledges it if it is.
Accept(ctx) ==
  /\ radio_rx_last' = [valid |-> TRUE, tid |-> ctx.tid, content |-> Content(ctx)]
  /\ radio_rx_expected_transaction_id' = NextTid(ctx.tid)
  /\ accepted' = accepted + 1
  /\ taken' = Sources(ctx)
  /\ conflict' = 0
  /\ acked' = IF Parses(ctx) THEN Content(ctx) ELSE acked

Store(f) ==
  LET ctx == Stored(ContextFor(f), f)
  IN /\ radio_rx_ctx' = IF Complete(ctx) THEN Idle ELSE ctx
     /\ \/ /\ ~Complete(ctx)
           /\ UNCHANGED <<radio_rx_last, radio_rx_expected_transaction_id, accepted,
                          taken, conflict, acked>>
        \/ Complete(ctx) /\ Repeats(ctx) /\ SameAsLast(ctx) /\ AckAgain(ctx)
        \/ Complete(ctx) /\ Repeats(ctx) /\ ~SameAsLast(ctx) /\ Reject(ctx, f)
        \/ Complete(ctx) /\ ~Repeats(ctx) /\ Unexpected(ctx) /\ Reject(ctx, f)
        \/ Complete(ctx) /\ ~Repeats(ctx) /\ ~Unexpected(ctx) /\ Accept(ctx)

Ignore(f) ==
  /\ radio_rx_ctx' = ContextFor(f)
  /\ UNCHANGED <<radio_rx_last, radio_rx_expected_transaction_id, accepted, taken,
                 conflict, acked>>

\* Only fragment 0 opens a context.
RxHandle(f) ==
  /\ UNCHANGED sent
  /\ heard' = IF f.index = 0 THEN heard \cup {f.pkt} ELSE heard
  /\ IF Opens(f) /\ f.index # 0
     THEN UNCHANGED <<rxVars, accepted, taken, conflict, acked>>
     ELSE IF Fits(f) THEN Store(f) ELSE Ignore(f)

Next ==
  \/ Send
  \/ \E f \in Arriving(sent) : RxHandle(f)

Spec == Init /\ [][Next]_vars

-----------------------------------------------------------------------------
(* Properties *)

TypeOK ==
  /\ IsContext(radio_rx_ctx)
  /\ radio_rx_last.valid \in BOOLEAN /\ radio_rx_last.tid \in 0..(TidMod - 1)
  /\ radio_rx_expected_transaction_id \in 0..(TidMod - 1)
  /\ sent \in 0..MaxPackets /\ accepted \in 0..MaxPackets
  /\ taken \subseteq Packets
  /\ conflict \in 0..MaxPackets
  /\ heard \subseteq Packets

\* A packet that is accepted has all its fragments from one packet, however
\* those of several and of their repetitions mix, unless the ids have gone
\* round without a first fragment of the packets between.
PacketMixesByRoundOnly == MixedByRoundOnly(taken, heard)

\* Packets are accepted in the order in which they were sent, each at most
\* once, though ids repeat and packets come late, twice or not at all.
AcceptsInOrder == accepted' # accepted => \A p \in taken, q \in taken' : p < q

\* The packet that follows the last one accepted is never rejected.
WelcomesSuccessor == conflict' \notin {0, conflict} => \A p \in taken : conflict' # p + 1

\* What is acknowledged is what was accepted last.
AcksLast == acked' # acked => acked' = radio_rx_last'.content
=============================================================================
