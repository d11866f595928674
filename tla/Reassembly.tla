----------------------------- MODULE Reassembly -----------------------------
(***************************************************************************)
(* How radio.c, rfid_rx.c and kms.c put a packet together from its CAN     *)
(* fragments: one context, which takes the transaction id and the number   *)
(* of fragments from fragment 0 and then waits for the others, in any      *)
(* order.  There is no sender in a context, and no checksum.               *)
(*                                                                         *)
(* A packet is its number in the order in which its sender sends them, a   *)
(* fragment is a packet and an index.  The context remembers of which      *)
(* packet the fragment in each place is: they may differ, as the code      *)
(* compares ids, and ids repeat.                                           *)
(***************************************************************************)
EXTENDS Naturals

CONSTANTS
  TidMod,       \* transaction ids are counted modulo this (16)
  Total,        \* the number of fragments of each packet
  MaxLate,      \* bound: how many packets late a fragment may arrive
  MaxPackets    \* bound: packets sent in a behaviour

Packets == 1..MaxPackets

ASSUME ReassemblyAssumption ==
  /\ TidMod \in Nat /\ MaxLate \in Nat /\ MaxPackets \in Nat
  /\ MaxLate + 1 < TidMod
  /\ Total \in [Packets -> Nat \ {0}]

Tid(p) == p % TidMod

NextTid(t) == (t + 1) % TidMod

\* The fragments that may arrive when sent packets have been sent
\* (external): those of the latest packets, any number of times and in any
\* order, as copies come on two buses and packets are repeated.
Arriving(sent) ==
  UNION {[pkt : {p}, index : 0..(Total[p] - 1)] :
           p \in {q \in Packets : q <= sent /\ sent <= q + MaxLate}}

NothingYet == [i \in {} |-> 0]

Idle == [active |-> FALSE, tid |-> 0, total |-> 0, got |-> NothingYet]

Begun(f) == [Idle EXCEPT !.active = TRUE, !.tid = Tid(f.pkt), !.total = Total[f.pkt]]

\* The fragment put in its place; data_length is the end of the last place.
Stored(ctx, f) ==
  [ctx EXCEPT !.got = [i \in DOMAIN @ \cup {f.index} |-> IF i = f.index THEN f.pkt ELSE @[i]]]

Complete(ctx) == ctx.active /\ DOMAIN ctx.got = 0..(ctx.total - 1)

\* The packets of the fragments in a context.
Sources(ctx) == {ctx.got[i] : i \in DOMAIN ctx.got}

IsContext(ctx) ==
  /\ ctx.active \in BOOLEAN /\ ctx.tid \in 0..(TidMod - 1) /\ ctx.total \in Nat
  /\ DOMAIN ctx.got \subseteq 0..(ctx.total - 1)
  /\ Sources(ctx) \subseteq Packets

\* Packets whose fragments came together have one id, and if one id round or
\* more lies between two of them, no first fragment of another id was heard
\* of the packets between.  Those sent so near to one of the two that their
\* fragments may have changed places are left out.
MixedByRoundOnly(from, heard) ==
  \A p, q \in from :
    /\ Tid(p) = Tid(q)
    /\ \A r \in heard : p + MaxLate < r /\ r + MaxLate < q => Tid(r) = Tid(p)
=============================================================================
