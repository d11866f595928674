--------------------------- MODULE ReceiverProofs ---------------------------
(***************************************************************************)
(* Safety of the receivers of radio packets, KMS messages, RFID tags and   *)
(* status records, for every range of transaction ids, number, size and    *)
(* contents of packets, timeout and size of the tag database.              *)
(***************************************************************************)
EXTENDS MCReceivers, Integers, SequenceTheorems, TLAPS

-----------------------------------------------------------------------------
(* Transaction ids and the context that radio.c, kms.c and rfid_rx.c share *)

LEMMA NumberFacts ==
  /\ TidMod \in Nat /\ TidMod > 1 /\ MaxLate \in Nat /\ MaxPackets \in Nat \ {0}
  /\ MaxLate + 1 < TidMod /\ MaxLate + RxTimeout + 2 < TidMod
  /\ RxTimeout \in Nat /\ QueryTimeout \in Nat \ {0} /\ MaxRetries \in Nat
  /\ MaxQueries \in Nat /\ RFID_DB_SIZE \in Nat \ {0}
  /\ Total \in [Packets -> Nat \ {0}]
  BY ReassemblyAssumption, ReceiversAssumption

LEMMA DivisionFacts ==
  ASSUME NEW p \in Nat
  PROVE  /\ p = TidMod * (p \div TidMod) + Tid(p)
         /\ Tid(p) \in 0..(TidMod - 1) /\ p \div TidMod \in Nat
  BY NumberFacts, SMT DEF Tid

LEMMA TurnFacts ==
  ASSUME NEW d \in Int
  PROVE  /\ d >= 1 => TidMod * d >= TidMod
         /\ d <= -1 => TidMod * d <= -TidMod
  BY NumberFacts, SMT

\* The id of a packet so many turns on.
LEMMA TidOf ==
  ASSUME NEW p \in Nat, NEW a \in Nat, NEW r \in 0..(TidMod - 1), p = TidMod * a + r
  PROVE  Tid(p) = r
<1> DEFINE b == p \div TidMod
           t == Tid(p)
<1>1. p = TidMod * b + t /\ b \in Nat /\ t \in 0..(TidMod - 1)
  BY DivisionFacts
<1> HIDE DEF b, t
<1>2. TidMod * (a - b) = t - r
  BY <1>1, NumberFacts, SMT
<1>3. ~(a - b >= 1) /\ ~(a - b <= -1)
  BY <1>1, <1>2, TurnFacts, NumberFacts, SMT
<1>4. t = r
  BY <1>1, <1>2, <1>3, NumberFacts, SMT
<1>5. QED
  BY <1>4 DEF t

\* The ids of packets less than a turn apart are different.
LEMMA TidIsUnique ==
  ASSUME NEW p \in Nat, NEW q \in Nat, Tid(p) = Tid(q), p < q + TidMod, q < p + TidMod
  PROVE  p = q
<1> DEFINE a == p \div TidMod
           b == q \div TidMod
           r == Tid(p)
<1>1. /\ p = TidMod * a + r /\ q = TidMod * b + r
      /\ a \in Nat /\ b \in Nat /\ r \in 0..(TidMod - 1)
  BY DivisionFacts
<1> HIDE DEF a, b, r
<1>2. p - q = TidMod * (a - b)
  BY <1>1, NumberFacts, SMT
<1>3. ~(a - b >= 1) /\ ~(a - b <= -1)
  BY <1>1, <1>2, TurnFacts, NumberFacts, SMT
<1>4. QED
  BY <1>1, <1>2, <1>3, NumberFacts, SMT

LEMMA NextTidFacts ==
  ASSUME NEW p \in Nat
  PROVE  /\ Tid(p) \in 0..(TidMod - 1)
         /\ NextTid(Tid(p)) = Tid(p + 1)
         /\ Tid(p) # Tid(p + 1)
<1> DEFINE a == p \div TidMod
           r == Tid(p)
<1>1. p = TidMod * a + r /\ a \in Nat /\ r \in 0..(TidMod - 1)
  BY DivisionFacts
<1> HIDE DEF a
<1>2. NextTid(r) = IF r = TidMod - 1 THEN 0 ELSE r + 1
  <2> HIDE DEF r
  <2>1. QED
    BY <1>1, NumberFacts DEF NextTid
<1>3. Tid(p + 1) = IF r = TidMod - 1 THEN 0 ELSE r + 1
  <2> HIDE DEF r
  <2>1. CASE r = TidMod - 1
    <3>1. p + 1 = TidMod * (a + 1) + 0
      BY <1>1, <2>1, NumberFacts, SMT
    <3>2. QED
      BY <1>1, <2>1, <3>1, TidOf, NumberFacts
  <2>2. CASE r # TidMod - 1
    <3>1. p + 1 = TidMod * a + (r + 1)
      BY <1>1, <2>2, NumberFacts, SMT
    <3>2. r + 1 \in 0..(TidMod - 1) /\ p + 1 \in Nat
      BY <1>1, <2>2, NumberFacts
    <3>3. Tid(p + 1) = r + 1
      BY <1>1, <3>1, <3>2, TidOf
    <3>4. QED
      BY <2>2, <3>3
  <2>3. QED
    BY <2>1, <2>2
<1>4. QED
  BY <1>1, <1>2, <1>3, NumberFacts

Fragments == [pkt : Packets, index : Nat]

LEMMA ArrivingFacts ==
  ASSUME NEW n \in Nat, NEW f \in Arriving(n)
  PROVE  /\ f \in Fragments /\ f.pkt \in Packets /\ f.pkt \in Nat /\ f.index \in Nat
         /\ f.pkt <= n /\ n <= f.pkt + MaxLate
         /\ f.index < Total[f.pkt] /\ Total[f.pkt] \in Nat
  BY NumberFacts DEF Arriving, Fragments, Packets

Contexts ==
  [active : BOOLEAN, tid : 0..(TidMod - 1), total : Nat,
   got : UNION {[D -> Packets] : D \in SUBSET Nat}]

LEMMA StoredFacts ==
  ASSUME NEW ctx \in Contexts, NEW f \in Fragments
  PROVE  /\ Stored(ctx, f) \in Contexts
         /\ Stored(ctx, f).active = ctx.active /\ Stored(ctx, f).tid = ctx.tid
         /\ Stored(ctx, f).total = ctx.total
         /\ DOMAIN Stored(ctx, f).got = DOMAIN ctx.got \cup {f.index}
         /\ \A i \in DOMAIN ctx.got : i # f.index => Stored(ctx, f).got[i] = ctx.got[i]
         /\ Stored(ctx, f).got[f.index] = f.pkt
  BY DEF Stored, Contexts, Fragments, Packets

\* All fragments in the context are of packets that have the context's id.
OneId(ctx) ==
  /\ ctx \in Contexts
  /\ DOMAIN ctx.got \subseteq 0..(ctx.total - 1)
  /\ \A i \in DOMAIN ctx.got : Tid(ctx.got[i]) = ctx.tid

\* They are of one packet.
WholeContext(ctx) ==
  /\ OneId(ctx)
  /\ \A i, j \in DOMAIN ctx.got : ctx.got[i] = ctx.got[j]

\* When n packets have been sent, the id of that packet has not come round.
NotRoundBy(ctx, n) == \A i \in DOMAIN ctx.got : ctx.got[i] <= n /\ n < ctx.got[i] + TidMod

LEMMA NothingYetFacts ==
  /\ NothingYet \in UNION {[D -> Packets] : D \in SUBSET Nat}
  /\ DOMAIN NothingYet = {}
<1>1. NothingYet \in [{} -> Packets] /\ {} \in SUBSET Nat /\ DOMAIN NothingYet = {}
  BY DEF NothingYet
<1>2. QED
  BY <1>1

LEMMA IdleFacts ==
  ASSUME NEW n
  PROVE  WholeContext(Idle) /\ NotRoundBy(Idle, n)
<1>1. Idle \in Contexts
  BY NothingYetFacts, NumberFacts DEF Idle, Contexts
<1>2. DOMAIN Idle.got = {}
  BY NothingYetFacts DEF Idle
<1>3. QED
  BY <1>1, <1>2 DEF WholeContext, OneId, NotRoundBy

LEMMA BegunFacts ==
  ASSUME NEW n \in Nat, NEW f \in Arriving(n)
  PROVE  /\ WholeContext(Begun(f)) /\ NotRoundBy(Begun(f), n)
         /\ Begun(f).active = TRUE /\ Begun(f).tid = Tid(f.pkt)
         /\ Begun(f).total = Total[f.pkt] /\ DOMAIN Begun(f).got = {}
<1>1. Tid(f.pkt) \in 0..(TidMod - 1) /\ Total[f.pkt] \in Nat
  BY ArrivingFacts, NextTidFacts
<1>2. Idle \in Contexts /\ DOMAIN Idle.got = {}
  BY IdleFacts, NothingYetFacts DEF WholeContext, OneId, Idle
<1>3. /\ Begun(f).active = TRUE /\ Begun(f).tid = Tid(f.pkt)
      /\ Begun(f).total = Total[f.pkt] /\ Begun(f).got = Idle.got
  BY <1>2 DEF Begun, Contexts
<1>4. Begun(f) \in Contexts
  BY <1>1, <1>2 DEF Begun, Contexts
<1>5. QED
  BY <1>1, <1>2, <1>3, <1>4 DEF WholeContext, OneId, NotRoundBy

\* A fragment with the id of the context is of the packet that is there.
LEMMA JoinFacts ==
  ASSUME NEW n \in Nat, NEW f \in Arriving(n), NEW ctx,
         WholeContext(ctx), NotRoundBy(ctx, n), ctx.tid = Tid(f.pkt), f.index < ctx.total
  PROVE  /\ WholeContext(Stored(ctx, f)) /\ NotRoundBy(Stored(ctx, f), n)
         /\ Stored(ctx, f).tid = Tid(f.pkt)
         /\ Sources(Stored(ctx, f)) = {f.pkt}
<1> DEFINE new == Stored(ctx, f)
<1>1. /\ f \in Fragments /\ f.pkt \in Packets /\ f.pkt \in Nat /\ f.index \in Nat
      /\ f.pkt <= n /\ n <= f.pkt + MaxLate
  BY ArrivingFacts
<1>2. /\ new \in Contexts /\ new.tid = ctx.tid /\ new.total = ctx.total
      /\ DOMAIN new.got = DOMAIN ctx.got \cup {f.index}
      /\ \A i \in DOMAIN ctx.got : i # f.index => new.got[i] = ctx.got[i]
      /\ new.got[f.index] = f.pkt
  BY <1>1, StoredFacts DEF WholeContext, OneId
<1>3. ASSUME NEW i \in DOMAIN ctx.got
      PROVE  ctx.got[i] = f.pkt
  <2>1. ctx.got[i] \in Nat
    BY DEF WholeContext, OneId, Contexts, Packets
  <2>2. Tid(ctx.got[i]) = Tid(f.pkt) /\ ctx.got[i] <= n /\ n < ctx.got[i] + TidMod
    BY DEF WholeContext, OneId, NotRoundBy
  <2>3. ctx.got[i] < f.pkt + TidMod /\ f.pkt < ctx.got[i] + TidMod
    BY <1>1, <2>1, <2>2, NumberFacts
  <2>4. QED
    BY <1>1, <2>1, <2>2, <2>3, TidIsUnique
<1>4. \A i \in DOMAIN new.got : new.got[i] = f.pkt
  BY <1>2, <1>3
<1>5. f.index \in DOMAIN new.got
  BY <1>2
<1>6. DOMAIN new.got \subseteq 0..(new.total - 1)
  <2>1. ctx.total \in Nat /\ DOMAIN ctx.got \subseteq 0..(ctx.total - 1)
    BY DEF WholeContext, OneId, Contexts
  <2>2. QED
    BY <1>1, <1>2, <2>1
<1>7. WholeContext(new)
  BY <1>2, <1>4, <1>6 DEF WholeContext, OneId
<1>8. NotRoundBy(new, n)
  BY <1>1, <1>4, NumberFacts DEF NotRoundBy
<1>9. Sources(new) = {f.pkt}
  BY <1>4, <1>5 DEF Sources
<1>10. QED
  BY <1>2, <1>7, <1>8, <1>9

\* What has been sent of a set of packets when n have.
SentBy(S, n) == \A p \in S : p \in Packets /\ p <= n

\* Since a fragment in the context was sent, the first fragments heard were of
\* its id, but for those that may have been sent before it.
HeardSince(ctx, heard) ==
  \A i \in DOMAIN ctx.got : \A r \in heard : ctx.got[i] + MaxLate < r => Tid(r) = ctx.tid

LEMMA IdleHears ==
  ASSUME NEW H, NEW n
  PROVE  OneId(Idle) /\ SentBy(Sources(Idle), n) /\ HeardSince(Idle, H)
  BY IdleFacts, NothingYetFacts DEF WholeContext, SentBy, HeardSince, Sources, Idle

LEMMA BegunHears ==
  ASSUME NEW n \in Nat, NEW f \in Arriving(n), NEW H
  PROVE  OneId(Begun(f)) /\ SentBy(Sources(Begun(f)), n) /\ HeardSince(Begun(f), H)
  BY BegunFacts DEF WholeContext, SentBy, HeardSince, Sources

\* A fragment that joins those of its id: nothing sent much later is heard.
LEMMA JoinHears ==
  ASSUME NEW n \in Nat, NEW f \in Arriving(n), NEW ctx, NEW H,
         OneId(ctx), SentBy(Sources(ctx), n), SentBy(H, n), HeardSince(ctx, H),
         ctx.tid = Tid(f.pkt), f.index < ctx.total
  PROVE  /\ OneId(Stored(ctx, f)) /\ SentBy(Sources(Stored(ctx, f)), n)
         /\ HeardSince(Stored(ctx, f), H)
         /\ Stored(ctx, f).tid = Tid(f.pkt)
         /\ f.pkt \in Sources(Stored(ctx, f))
         /\ Sources(Stored(ctx, f)) \subseteq Sources(ctx) \cup {f.pkt}
<1> DEFINE new == Stored(ctx, f)
<1>1. /\ f \in Fragments /\ f.pkt \in Packets /\ f.pkt \in Nat /\ f.index \in Nat
      /\ f.pkt <= n /\ n <= f.pkt + MaxLate
  BY ArrivingFacts
<1>2. /\ new \in Contexts /\ new.tid = ctx.tid /\ new.total = ctx.total
      /\ DOMAIN new.got = DOMAIN ctx.got \cup {f.index}
      /\ \A i \in DOMAIN ctx.got : i # f.index => new.got[i] = ctx.got[i]
      /\ new.got[f.index] = f.pkt
  BY <1>1, StoredFacts DEF OneId
<1>3. ctx.total \in Nat /\ DOMAIN ctx.got \subseteq 0..(ctx.total - 1)
  BY DEF OneId, Contexts
<1> HIDE DEF new
<1>4. OneId(new)
  BY <1>1, <1>2, <1>3 DEF OneId
<1>5. /\ f.pkt \in Sources(new)
      /\ Sources(new) \subseteq Sources(ctx) \cup {f.pkt}
  BY <1>2 DEF Sources
<1>6. SentBy(Sources(new), n)
  BY <1>1, <1>5 DEF SentBy
<1>7. ASSUME NEW i \in DOMAIN new.got, NEW r \in H, new.got[i] + MaxLate < r
      PROVE  Tid(r) = new.tid
  <2>1. r \in Nat /\ r <= n
    BY DEF SentBy, Packets
  <2>2. ~(f.pkt + MaxLate < r)
    BY <1>1, <2>1, NumberFacts
  <2>3. i \in DOMAIN ctx.got /\ new.got[i] = ctx.got[i]
    BY <1>2, <1>7, <2>2
  <2>4. QED
    BY <1>2, <1>7, <2>3 DEF HeardSince
<1>8. HeardSince(new, H)
  BY <1>7 DEF HeardSince
<1>9. QED
  BY <1>2, <1>4, <1>5, <1>6, <1>8 DEF new

\* A first fragment is heard and goes into the context of its id.
LEMMA HearMore ==
  ASSUME NEW ctx, NEW H, NEW p, HeardSince(ctx, H), ctx.tid = Tid(p)
  PROVE  HeardSince(ctx, H \cup {p})
  BY DEF HeardSince

\* What has been taken over stays as it was when later packets are heard.
LEMMA TakenHears ==
  ASSUME NEW n \in Nat, NEW f \in Arriving(n), NEW S, NEW H, SentBy(S, n),
         MixedByRoundOnly(S, H)
  PROVE  MixedByRoundOnly(S, H \cup {f.pkt})
<1>1. f.pkt \in Nat /\ n <= f.pkt + MaxLate
  BY ArrivingFacts
<1>2. \A q \in S : ~(f.pkt + MaxLate < q)
  BY <1>1, NumberFacts DEF SentBy, Packets
<1>3. QED
  BY <1>2 DEF MixedByRoundOnly

LEMMA ContextMixes ==
  ASSUME NEW ctx, NEW H, OneId(ctx), HeardSince(ctx, H)
  PROVE  MixedByRoundOnly(Sources(ctx), H)
  BY DEF OneId, HeardSince, MixedByRoundOnly, Sources

\* The id that radio.c and kms.c expect is that after the last packet they
\* have taken over.
InStep(newest, due, from, count, n) ==
  /\ newest.tid \in 0..(TidMod - 1) /\ due \in 0..(TidMod - 1) /\ count \in Nat
  /\ SentBy(from, n)
  /\ \/ newest.valid = FALSE /\ from = {} /\ count = 0
     \/ /\ newest.valid = TRUE /\ from # {}
        /\ \A p \in from : newest.tid = Tid(p) /\ due = Tid(p + 1) /\ count <= p

\* With the expected id, a packet is newer than the newest one, unless it was
\* sent long before that.
LEMMA NewerFacts ==
  ASSUME NEW p \in Nat, NEW q \in Nat, p <= q + MaxLate, Tid(q) = Tid(p + 1)
  PROVE  p < q
<1>1. SUFFICES ASSUME q <= p PROVE FALSE
  OBVIOUS
<1>2. p + 1 \in Nat /\ p + 1 < q + TidMod /\ q < p + 1 + TidMod
  BY <1>1, NumberFacts
<1>3. q = p + 1
  BY <1>2, TidIsUnique
<1>4. QED
  BY <1>1, <1>3

\* The fragments of S have come, with the id t that is due.
LEMMA AcceptFacts ==
  ASSUME NEW n \in Nat, NEW t, NEW S, NEW newest, NEW due, NEW from, NEW count, NEW content,
         InStep(newest, due, from, count, n), newest.valid = FALSE \/ t = due,
         S # {}, SentBy(S, n), \A q \in S : Tid(q) = t,
         \A p \in from, q \in S : p <= q + MaxLate
  PROVE  /\ InStep([valid |-> TRUE, tid |-> t, content |-> content],
                   NextTid(t), S, count + 1, n)
         /\ \A p \in from, q \in S : p < q
<1>1. \A q \in S : q \in Nat /\ q + 1 \in Nat /\ q >= 1
  BY DEF SentBy, Packets
<1>2. \A q \in S : /\ t \in 0..(TidMod - 1) /\ NextTid(t) = Tid(q + 1)
                   /\ Tid(q + 1) \in 0..(TidMod - 1)
  BY <1>1, NextTidFacts
<1>3. t \in 0..(TidMod - 1) /\ NextTid(t) \in 0..(TidMod - 1)
  BY <1>2
<1>4. ASSUME NEW p \in from, NEW q \in S
      PROVE  p < q
  <2>1. p \in Nat /\ Tid(q) = Tid(p + 1)
    BY DEF InStep, SentBy, Packets
  <2>2. QED
    BY <1>1, <2>1, NewerFacts
<1>5. count \in Nat /\ \A q \in S : count + 1 <= q
  <2>1. CASE from = {} /\ count = 0
    BY <1>1, <2>1
  <2>2. CASE from # {}
    <3>1. PICK p \in from : p \in Nat /\ count <= p
      BY <2>2 DEF InStep, SentBy, Packets
    <3>2. count \in Nat /\ \A q \in S : p < q
      BY <1>4 DEF InStep
    <3>3. QED
      BY <1>1, <3>1, <3>2
  <2>3. QED
    BY <2>1, <2>2 DEF InStep
<1>6. QED
  BY <1>2, <1>3, <1>4, <1>5 DEF InStep

LEMMA InStepSays ==
  ASSUME NEW newest, NEW due, NEW from, NEW count, NEW n \in 0..MaxPackets,
         InStep(newest, due, from, count, n)
  PROVE  /\ newest.valid \in BOOLEAN /\ newest.tid \in 0..(TidMod - 1)
         /\ due \in 0..(TidMod - 1) /\ count \in 0..MaxPackets
         /\ from \subseteq Packets
<1>1. newest.valid \in BOOLEAN /\ from \subseteq Packets
  BY DEF InStep, SentBy
<1>2. CASE from = {} /\ count = 0
  BY <1>1, <1>2, NumberFacts DEF InStep
<1>3. CASE from # {}
  <2>1. PICK p \in from : p \in Packets /\ count <= p
    BY <1>3 DEF InStep, SentBy
  <2>2. count \in 0..MaxPackets
    BY <2>1, NumberFacts DEF InStep, Packets
  <2>3. QED
    BY <1>1, <2>2 DEF InStep
<1>4. QED
  BY <1>2, <1>3 DEF InStep

LEMMA SentByGrows ==
  ASSUME NEW S, NEW n \in Nat, NEW m \in Nat, n <= m, SentBy(S, n)
  PROVE  SentBy(S, m)
  BY DEF SentBy, Packets

LEMMA InStepGrows ==
  ASSUME NEW newest, NEW due, NEW from, NEW count, NEW n \in Nat, NEW m \in Nat,
         n <= m, InStep(newest, due, from, count, n)
  PROVE  InStep(newest, due, from, count, m)
  BY SentByGrows DEF InStep

-----------------------------------------------------------------------------
(* radio.c: radio_rx_handle *)

RadioInv ==
  /\ rSent \in 0..MaxPackets /\ rConflict \in 0..MaxPackets
  /\ OneId(rCtx) /\ SentBy(Sources(rCtx), rSent)
  /\ SentBy(rHeard, rSent) /\ HeardSince(rCtx, rHeard)
  /\ InStep(rLast, rExpected, rTaken, rAccepted, rSent)
  /\ MixedByRoundOnly(rTaken, rHeard)
  /\ \A p \in rTaken, q \in Sources(rCtx) : p <= q + MaxLate

\* What the actions of the run say of a step of radio_rx_handle.
RadioStepRight == R!AcceptsInOrder /\ R!WelcomesSuccessor /\ R!AcksLast

RadioOpens(f) == rCtx.active = FALSE \/ rCtx.tid # Tid(f.pkt)
RadioContext(f) == IF RadioOpens(f) THEN Begun(f) ELSE rCtx
RadioStored(f) == Stored(RadioContext(f), f)

LEMMA RadioSame ==
  ASSUME NEW f
  PROVE  /\ R!Tid(f.pkt) = Tid(f.pkt)
         /\ R!Begun(f) = Begun(f)
         /\ \A ctx : R!Stored(ctx, f) = Stored(ctx, f)
         /\ \A ctx : R!Complete(ctx) <=> Complete(ctx)
         /\ \A ctx : R!Sources(ctx) = Sources(ctx)
         /\ \A t : R!NextTid(t) = NextTid(t)
         /\ R!Idle = Idle
         /\ R!NothingYet = NothingYet
         /\ \A n : R!Arriving(n) = Arriving(n)
         /\ R!Packets = Packets
  BY DEF R!Tid, Tid, R!Begun, Begun, R!Stored, Stored, R!Complete, Complete, R!Sources,
     Sources, R!NextTid, NextTid, R!Idle, Idle, R!NothingYet, NothingYet, R!Arriving,
     Arriving, R!Packets, Packets

LEMMA RadioInit == R!Init => RadioInv
<1> SUFFICES ASSUME R!Init PROVE RadioInv
  OBVIOUS
<1>1. rCtx = Idle /\ rSent = 0 /\ rConflict = 0 /\ rHeard = {} /\ rTaken = {}
  BY RadioSame DEF R!Init
<1>2. InStep(rLast, rExpected, rTaken, rAccepted, rSent)
  BY NumberFacts DEF R!Init, InStep, SentBy
<1>3. QED
  BY <1>1, <1>2, IdleHears, NumberFacts DEF RadioInv, SentBy, MixedByRoundOnly

LEMMA RadioUnchanged ==
  ASSUME RadioInv,
         UNCHANGED <<rCtx, rLast, rExpected, rSent, rAccepted, rTaken, rConflict, rAcked, rHeard>>
  PROVE  RadioInv' /\ RadioStepRight
<1>1. RadioInv'
  BY DEF RadioInv, OneId, SentBy, Sources, HeardSince, InStep, MixedByRoundOnly
<1>2. QED
  BY <1>1 DEF RadioStepRight, R!AcceptsInOrder, R!WelcomesSuccessor, R!AcksLast

LEMMA RadioSendKeeps ==
  ASSUME RadioInv, R!Send
  PROVE  RadioInv' /\ RadioStepRight
<1>1. /\ rSent \in Nat /\ rSent < MaxPackets /\ rSent' = rSent + 1
      /\ UNCHANGED <<rCtx, rLast, rExpected, rAccepted, rTaken, rConflict, rAcked, rHeard>>
  BY DEF R!Send, R!rxVars, RadioInv
<1>2. rSent' \in 0..MaxPackets /\ rSent' \in Nat /\ rSent <= rSent'
  BY <1>1, NumberFacts
<1>3. /\ SentBy(Sources(rCtx), rSent') /\ SentBy(rHeard, rSent')
      /\ InStep(rLast, rExpected, rTaken, rAccepted, rSent')
  BY <1>1, <1>2, SentByGrows, InStepGrows DEF RadioInv
<1>4. RadioInv'
  BY <1>1, <1>2, <1>3 DEF RadioInv, OneId, SentBy, Sources, HeardSince, InStep,
     MixedByRoundOnly
<1>5. RadioStepRight
  BY <1>1 DEF RadioStepRight, R!AcceptsInOrder, R!WelcomesSuccessor, R!AcksLast
<1>6. QED
  BY <1>4, <1>5

\* What RadioInv says of a context, the one before a step or the one after it.
RadioContextIs(ctx, H) ==
  /\ OneId(ctx) /\ SentBy(Sources(ctx), rSent) /\ HeardSince(ctx, H)
  /\ \A p \in rTaken, q \in Sources(ctx) : p <= q + MaxLate

\* The context into which a fragment goes has the fragment's id.
LEMMA RadioContextFacts ==
  ASSUME RadioInv, NEW f \in Arriving(rSent)
  PROVE  /\ rSent \in Nat
         /\ RadioContextIs(RadioContext(f), rHeard)
         /\ RadioContext(f).tid = Tid(f.pkt)
<1>1. rSent \in Nat
  BY DEF RadioInv
<1>2. CASE RadioOpens(f)
  <2>1. RadioContext(f) = Begun(f) /\ Sources(Begun(f)) = {}
    BY <1>1, <1>2, BegunFacts DEF RadioContext, Sources
  <2>2. QED
    BY <1>1, <2>1, BegunFacts, BegunHears DEF RadioContextIs
<1>3. CASE ~RadioOpens(f)
  BY <1>1, <1>3 DEF RadioContext, RadioOpens, RadioInv, RadioContextIs
<1>4. QED
  BY <1>1, <1>2, <1>3

\* A fragment that fits is stored with others of its id.
LEMMA RadioStoredFacts ==
  ASSUME RadioInv, NEW f \in Arriving(rSent), R!Fits(f)
  PROVE  /\ RadioContextIs(RadioStored(f), rHeard)
         /\ RadioStored(f).tid = Tid(f.pkt) /\ f.pkt \in Sources(RadioStored(f))
<1>1. RadioContext(f).total = Total[f.pkt]
  BY RadioSame, RadioContextFacts DEF R!Fits, R!ContextFor, R!Opens, RadioContext, RadioOpens,
     RadioInv, OneId, Contexts
<1>2. f.index < RadioContext(f).total
  BY <1>1, RadioContextFacts, ArrivingFacts
<1>3. /\ OneId(RadioStored(f)) /\ SentBy(Sources(RadioStored(f)), rSent)
      /\ HeardSince(RadioStored(f), rHeard)
      /\ RadioStored(f).tid = Tid(f.pkt) /\ f.pkt \in Sources(RadioStored(f))
      /\ Sources(RadioStored(f)) \subseteq Sources(RadioContext(f)) \cup {f.pkt}
  BY <1>2, RadioContextFacts, JoinHears DEF RadioStored, RadioContextIs, RadioInv
<1>4. ASSUME NEW p \in rTaken
      PROVE  p <= f.pkt + MaxLate
  <2>1. p \in Packets /\ p <= rSent
    BY DEF RadioInv, InStep, SentBy
  <2>2. p \in Nat /\ rSent \in Nat /\ MaxLate \in Nat
    BY <2>1, RadioContextFacts, NumberFacts DEF Packets
  <2>3. f.pkt \in Nat /\ rSent <= f.pkt + MaxLate
    BY <2>2, ArrivingFacts
  <2>4. QED
    BY <2>1, <2>2, <2>3
<1>5. QED
  BY <1>3, <1>4, RadioContextFacts DEF RadioContextIs

\* The three ways of a fragment.
LEMMA RadioHandleSays ==
  ASSUME NEW f, R!RxHandle(f)
  PROVE  /\ rSent' = rSent
         /\ rHeard' = IF f.index = 0 THEN rHeard \cup {f.pkt} ELSE rHeard
         /\ \/ /\ RadioOpens(f) /\ f.index # 0
               /\ UNCHANGED <<rCtx, rLast, rExpected, rAccepted, rTaken, rConflict, rAcked>>
            \/ /\ rCtx' = RadioContext(f)
               /\ UNCHANGED <<rLast, rExpected, rAccepted, rTaken, rConflict, rAcked>>
            \/ R!Fits(f) /\ R!Store(f)
<1>1. R!ContextFor(f) = RadioContext(f) /\ (R!Opens(f) <=> RadioOpens(f))
  BY RadioSame DEF R!ContextFor, R!Opens, RadioContext, RadioOpens
<1>2. QED
  BY <1>1 DEF R!RxHandle, R!Ignore, R!rxVars

\* The five ways of a fragment that is stored.
LEMMA RadioStoreSays ==
  ASSUME NEW f, R!Store(f)
  PROVE  LET ctx == RadioStored(f)
         IN \/ /\ rCtx' = Idle \/ rCtx' = ctx
               /\ \/ UNCHANGED <<rLast, rExpected, rAccepted, rTaken, rConflict, rAcked>>
                  \/ R!SameAsLast(ctx) /\ R!AckAgain(ctx)
                  \/ R!Repeats(ctx) /\ R!Reject(ctx, f)
                  \/ ~R!Repeats(ctx) /\ R!Unexpected(ctx) /\ R!Reject(ctx, f)
            \/ rCtx' = Idle /\ ~R!Repeats(ctx) /\ ~R!Unexpected(ctx) /\ R!Accept(ctx)
<1>1. R!Stored(R!ContextFor(f), f) = RadioStored(f)
  BY RadioSame DEF R!ContextFor, R!Opens, RadioContext, RadioOpens, RadioStored
<1>2. R!Idle = Idle
  BY RadioSame
<1>3. QED
  BY <1>1, <1>2, Zenon DEF R!Store

\* A context, with the id of the fragment that came, after which nothing new is
\* taken over.
LEMMA RadioHears ==
  ASSUME RadioInv, NEW f \in Arriving(rSent),
         rSent' = rSent, rHeard' = rHeard \cup {f.pkt} \/ rHeard' = rHeard,
         RadioContextIs(rCtx', rHeard'), rConflict' \in 0..MaxPackets,
         UNCHANGED <<rLast, rExpected, rAccepted, rTaken>>
  PROVE  RadioInv'
<1>1. rSent \in Nat /\ f.pkt \in Packets /\ f.pkt <= rSent
  BY ArrivingFacts DEF RadioInv
<1>2. SentBy(rTaken, rSent) /\ SentBy(rHeard, rSent) /\ MixedByRoundOnly(rTaken, rHeard)
  BY DEF RadioInv, InStep
<1>3. MixedByRoundOnly(rTaken, rHeard') /\ SentBy(rHeard', rSent)
  BY <1>1, <1>2, TakenHears DEF SentBy
<1>4. InStep(rLast', rExpected', rTaken', rAccepted', rSent')
  BY DEF RadioInv
<1>5. QED
  BY <1>3, <1>4 DEF RadioInv, RadioContextIs, SentBy, HeardSince, OneId, InStep, Sources,
     MixedByRoundOnly

LEMMA RadioIdle ==
  ASSUME NEW H
  PROVE  RadioContextIs(Idle, H) /\ Sources(Idle) = {}
<1>1. Sources(Idle) = {}
  BY NothingYetFacts DEF Sources, Idle
<1>2. QED
  BY <1>1, IdleHears DEF RadioContextIs

LEMMA RadioStoreKeeps ==
  ASSUME RadioInv, NEW f \in Arriving(rSent), R!Fits(f), R!Store(f), rSent' = rSent,
         rHeard' = rHeard \cup {f.pkt} \/ rHeard' = rHeard
  PROVE  RadioInv' /\ RadioStepRight
<1> DEFINE ctx == RadioStored(f)
<1>1. /\ rSent \in 0..MaxPackets /\ rSent \in Nat /\ rConflict \in 0..MaxPackets
      /\ InStep(rLast, rExpected, rTaken, rAccepted, rSent)
      /\ SentBy(rHeard, rSent) /\ MixedByRoundOnly(rTaken, rHeard)
  BY DEF RadioInv
<1>2. /\ RadioContextIs(ctx, rHeard) /\ ctx.tid = Tid(f.pkt) /\ f.pkt \in Sources(ctx)
  BY RadioStoredFacts
<1>3. f.pkt \in Packets /\ f.pkt \in Nat /\ f.pkt \in 0..MaxPackets /\ f.pkt <= rSent
  BY <1>1, ArrivingFacts, NumberFacts DEF Packets
<1>4. RadioContextIs(ctx, rHeard')
  BY <1>2, HearMore DEF RadioContextIs
<1>5. RadioContextIs(Idle, rHeard') /\ Sources(Idle) = {}
  BY RadioIdle
<1>6. \/ /\ rCtx' = Idle \/ rCtx' = ctx
         /\ \/ UNCHANGED <<rLast, rExpected, rAccepted, rTaken, rConflict, rAcked>>
            \/ R!SameAsLast(ctx) /\ R!AckAgain(ctx)
            \/ R!Repeats(ctx) /\ R!Reject(ctx, f)
            \/ ~R!Repeats(ctx) /\ R!Unexpected(ctx) /\ R!Reject(ctx, f)
      \/ rCtx' = Idle /\ ~R!Repeats(ctx) /\ ~R!Unexpected(ctx) /\ R!Accept(ctx)
  BY RadioStoreSays
<1> HIDE DEF ctx
<1>7. ASSUME rCtx' = Idle \/ rCtx' = ctx, rConflict' \in 0..MaxPackets,
             UNCHANGED <<rLast, rExpected, rAccepted, rTaken>>
      PROVE  RadioInv'
  BY <1>4, <1>5, <1>7, RadioHears
<1>8. CASE /\ rCtx' = Idle \/ rCtx' = ctx
           /\ UNCHANGED <<rLast, rExpected, rAccepted, rTaken, rConflict, rAcked>>
  BY <1>1, <1>7, <1>8 DEF RadioStepRight, R!AcceptsInOrder, R!WelcomesSuccessor, R!AcksLast
<1>9. CASE (rCtx' = Idle \/ rCtx' = ctx) /\ R!SameAsLast(ctx) /\ R!AckAgain(ctx)
  BY <1>1, <1>7, <1>9 DEF R!SameAsLast, R!AckAgain, RadioStepRight, R!AcceptsInOrder,
     R!WelcomesSuccessor, R!AcksLast
<1>10. CASE /\ rCtx' = Idle \/ rCtx' = ctx
            /\ R!Reject(ctx, f) /\ (R!Repeats(ctx) \/ R!Unexpected(ctx))
  <2>1. /\ rConflict' = f.pkt
        /\ UNCHANGED <<rLast, rExpected, rAccepted, rTaken, rAcked>>
    BY <1>10 DEF R!Reject
  <2>2. ASSUME NEW p \in rTaken
        PROVE  f.pkt # p + 1
    <3>1. /\ p \in Nat /\ rLast.tid = Tid(p) /\ rExpected = Tid(p + 1) /\ rLast.valid = TRUE
      BY <1>1 DEF InStep, SentBy, Packets
    <3>2. Tid(f.pkt) = Tid(p) \/ Tid(f.pkt) # Tid(p + 1)
      BY <1>2, <1>10, <3>1 DEF R!Repeats, R!Unexpected
    <3>3. QED
      BY <3>1, <3>2, NextTidFacts
  <2>3. RadioInv'
    BY <1>3, <1>7, <1>10, <2>1
  <2>4. QED
    BY <2>1, <2>2, <2>3 DEF RadioStepRight, R!AcceptsInOrder, R!WelcomesSuccessor,
       R!AcksLast
<1>11. CASE rCtx' = Idle /\ ~R!Repeats(ctx) /\ ~R!Unexpected(ctx) /\ R!Accept(ctx)
  <2>1. rLast.valid = FALSE \/ ctx.tid = rExpected
    BY <1>1, <1>11 DEF R!Unexpected, InStep
  <2>2. /\ rLast' = [valid |-> TRUE, tid |-> ctx.tid, content |-> R!Content(ctx)]
        /\ rExpected' = NextTid(ctx.tid) /\ rAccepted' = rAccepted + 1
        /\ rTaken' = Sources(ctx) /\ rConflict' = 0
        /\ rAcked' = R!Content(ctx) \/ rAcked' = rAcked
    BY <1>11, RadioSame DEF R!Accept
  <2>3. /\ Sources(ctx) # {} /\ SentBy(Sources(ctx), rSent)
        /\ \A q \in Sources(ctx) : Tid(q) = ctx.tid
        /\ \A p \in rTaken, q \in Sources(ctx) : p <= q + MaxLate
    BY <1>2 DEF RadioContextIs, OneId, Sources
  <2>4. /\ InStep(rLast', rExpected', rTaken', rAccepted', rSent)
        /\ \A p \in rTaken, q \in Sources(ctx) : p < q
    BY <1>1, <2>1, <2>2, <2>3, AcceptFacts
  <2>5. MixedByRoundOnly(rTaken', rHeard')
    BY <1>4, <2>2, ContextMixes DEF RadioContextIs
  <2>6. SentBy(rHeard', rSent)
    BY <1>1, <1>3 DEF SentBy
  <2>7. RadioInv'
    BY <1>1, <1>5, <1>11, <2>2, <2>4, <2>5, <2>6, NumberFacts
       DEF RadioInv, RadioContextIs, SentBy, HeardSince, OneId, InStep, Sources, MixedByRoundOnly
  <2>8. QED
    BY <2>2, <2>4, <2>7, NumberFacts DEF RadioStepRight, R!AcceptsInOrder,
       R!WelcomesSuccessor, R!AcksLast
<1>12. QED
  BY <1>6, <1>8, <1>9, <1>10, <1>11

LEMMA RadioNextKeeps ==
  ASSUME RadioInv, R!Next \/ UNCHANGED rVars
  PROVE  RadioInv' /\ RadioStepRight
<1>1. CASE R!Send
  BY <1>1, RadioSendKeeps
<1>2. ASSUME NEW f \in Arriving(rSent), R!RxHandle(f)
      PROVE  RadioInv' /\ RadioStepRight
  <2>1. /\ rSent' = rSent /\ rConflict \in 0..MaxPackets
        /\ rHeard' = IF f.index = 0 THEN rHeard \cup {f.pkt} ELSE rHeard
    BY <1>2, RadioHandleSays DEF RadioInv
  <2>2. CASE /\ RadioOpens(f) /\ f.index # 0
             /\ UNCHANGED <<rCtx, rLast, rExpected, rAccepted, rTaken, rConflict, rAcked>>
    BY <2>1, <2>2, RadioUnchanged
  <2>3. CASE /\ rCtx' = RadioContext(f)
             /\ UNCHANGED <<rLast, rExpected, rAccepted, rTaken, rConflict, rAcked>>
    <3>1. RadioContextIs(rCtx', rHeard')
      BY <1>2, <2>1, <2>3, RadioContextFacts, HearMore DEF RadioContextIs
    <3>2. RadioInv'
      BY <1>2, <2>1, <2>3, <3>1, RadioHears
    <3>3. QED
      BY <2>3, <3>2 DEF RadioStepRight, R!AcceptsInOrder, R!WelcomesSuccessor, R!AcksLast
  <2>4. CASE R!Fits(f) /\ R!Store(f)
    BY <1>2, <2>1, <2>4, RadioStoreKeeps
  <2>5. QED
    BY <1>2, <2>2, <2>3, <2>4, RadioHandleSays
<1>3. CASE UNCHANGED rVars
  BY <1>3, RadioUnchanged DEF rVars
<1>4. QED
  BY <1>1, <1>2, <1>3, RadioSame DEF R!Next

LEMMA RadioInvSays == RadioInv => R!TypeOK /\ R!PacketMixesByRoundOnly
<1> SUFFICES ASSUME RadioInv PROVE R!TypeOK /\ R!PacketMixesByRoundOnly
  OBVIOUS
<1>1. R!IsContext(rCtx)
  <2>1. /\ rCtx.active \in BOOLEAN /\ rCtx.tid \in 0..(TidMod - 1) /\ rCtx.total \in Nat
        /\ DOMAIN rCtx.got \subseteq 0..(rCtx.total - 1)
        /\ \A i \in DOMAIN rCtx.got : rCtx.got[i] \in Packets
    BY DEF RadioInv, OneId, Contexts
  <2>2. QED
    BY <2>1 DEF R!IsContext, R!Sources, R!Packets, Packets
<1>2. /\ rSent \in 0..MaxPackets /\ rConflict \in 0..MaxPackets
      /\ InStep(rLast, rExpected, rTaken, rAccepted, rSent)
      /\ rHeard \subseteq Packets
  BY DEF RadioInv, SentBy
<1>3. /\ rLast.valid \in BOOLEAN /\ rLast.tid \in 0..(TidMod - 1)
      /\ rExpected \in 0..(TidMod - 1) /\ rAccepted \in 0..MaxPackets
      /\ rTaken \subseteq Packets
  BY <1>2, InStepSays
<1>4. rTaken \subseteq R!Packets /\ rHeard \subseteq R!Packets
  BY <1>2, <1>3 DEF R!Packets, Packets
<1>5. R!PacketMixesByRoundOnly
  BY DEF RadioInv, R!PacketMixesByRoundOnly, R!MixedByRoundOnly, MixedByRoundOnly, R!Tid, Tid
<1>6. QED
  BY <1>1, <1>2, <1>3, <1>4, <1>5, Zenon DEF R!TypeOK

-----------------------------------------------------------------------------
(* kms.c: kms_rx_handle and kms_process_1s *)

\* A packet that is sent in each second, this one included.
KmsMaySend == IF kRested = TRUE THEN 1 ELSE 0

\* A partial message is dropped before its age lets the id come round.
KmsRxPart ==
  /\ kSent \in 0..MaxPackets /\ kRested \in BOOLEAN
  /\ WholeContext(kCtx)
  /\ InStep(kLast, kExpected, kTaken, kAccepted, kSent)
  /\ \A p, q \in kTaken : p = q
  /\ kAge \in 0..(RxTimeout + 1) /\ kSecond \in BOOLEAN
  /\ kCtx.active = TRUE /\ kAge = RxTimeout + 1 => kSecond = TRUE
  /\ kCtx.active = TRUE =>
       \A i \in DOMAIN kCtx.got :
         /\ kCtx.got[i] <= kSent
         /\ kSent + KmsMaySend <= kCtx.got[i] + MaxLate + kAge + 1

KmsQueryPart ==
  /\ kPending \in BOOLEAN /\ kRetries \in 0..MaxRetries /\ kQueryAge \in 0..QueryTimeout
  /\ kAsked \in 0..MaxQueries /\ kTries \in 0..(MaxRetries + 1) /\ kFailed \in BOOLEAN
  /\ kPending = TRUE => kTries = kRetries + 1

KmsInv == KmsRxPart /\ KmsQueryPart

KmsOpens(f) == kCtx.active = FALSE \/ kCtx.tid # Tid(f.pkt) \/ kCtx.total # Total[f.pkt]
KmsContext(f) == IF KmsOpens(f) THEN Begun(f) ELSE kCtx
KmsStored(f) == Stored(KmsContext(f), f)

LEMMA KmsSame ==
  ASSUME NEW f
  PROVE  /\ K!Tid(f.pkt) = Tid(f.pkt)
         /\ K!Begun(f) = Begun(f)
         /\ \A ctx : K!Stored(ctx, f) = Stored(ctx, f)
         /\ \A ctx : K!Complete(ctx) <=> Complete(ctx)
         /\ \A ctx : K!Sources(ctx) = Sources(ctx)
         /\ \A t : K!NextTid(t) = NextTid(t)
         /\ K!Idle = Idle
         /\ K!NothingYet = NothingYet
         /\ \A n : K!Arriving(n) = Arriving(n)
         /\ K!Packets = Packets
  BY DEF K!Tid, Tid, K!Begun, Begun, K!Stored, Stored, K!Complete, Complete, K!Sources,
     Sources, K!NextTid, NextTid, K!Idle, Idle, K!NothingYet, NothingYet, K!Arriving,
     Arriving, K!Packets, Packets

LEMMA KmsInit == K!Init => KmsInv
<1> SUFFICES ASSUME K!Init PROVE KmsInv
  OBVIOUS
<1>1. kCtx = Idle /\ Idle.active = FALSE
  BY KmsSame DEF K!Init, Idle
<1>2. InStep(kLast, kExpected, kTaken, kAccepted, kSent)
  BY NumberFacts DEF K!Init, InStep, SentBy
<1>3. /\ kSent = 0 /\ kRested = TRUE /\ kAge = 0 /\ kSecond = FALSE
      /\ kPending = FALSE /\ kRetries = 0 /\ kQueryAge = 0
      /\ kAsked = 0 /\ kTries = 0 /\ kFailed = FALSE /\ kTaken = {}
  BY DEF K!Init
<1>4. KmsRxPart
  <2>1. WholeContext(kCtx) /\ ~(kCtx.active = TRUE)
    BY <1>1, IdleFacts
  <2>2. kRested \in BOOLEAN /\ kSecond \in BOOLEAN
    BY <1>3
  <2>3. kSent \in 0..MaxPackets /\ kAge \in 0..(RxTimeout + 1)
    BY <1>3, NumberFacts
  <2>4. QED
    BY <1>2, <1>3, <2>1, <2>2, <2>3 DEF KmsRxPart
<1>5. KmsQueryPart
  <2>1. kPending \in BOOLEAN /\ kFailed \in BOOLEAN /\ ~(kPending = TRUE)
    BY <1>3
  <2>2. /\ kRetries \in 0..MaxRetries /\ kQueryAge \in 0..QueryTimeout
        /\ kAsked \in 0..MaxQueries /\ kTries \in 0..(MaxRetries + 1)
    BY <1>3, NumberFacts
  <2>3. QED
    BY <2>1, <2>2 DEF KmsQueryPart
<1>6. QED
  BY <1>4, <1>5 DEF KmsInv

LEMMA KmsSendKeeps ==
  ASSUME KmsInv, K!Send
  PROVE  KmsInv' /\ K!AcceptsInOrder
<1>1. /\ kSent \in Nat /\ kSent < MaxPackets /\ kSent' = kSent + 1
      /\ kRested = TRUE /\ kRested' = FALSE
      /\ UNCHANGED <<kCtx, kAge, kLast, kExpected, kPending, kRetries, kQueryAge, kSecond,
                     kAccepted, kTaken, kAsked, kTries, kFailed>>
  BY DEF K!Send, K!rxVars, K!queryVars, K!history, KmsInv, KmsRxPart
<1>2. InStep(kLast, kExpected, kTaken, kAccepted, kSent')
  BY <1>1, InStepGrows DEF KmsInv, KmsRxPart
<1>3. kSent' \in 0..MaxPackets
  BY <1>1, NumberFacts
<1>4. ASSUME kCtx.active = TRUE, NEW i \in DOMAIN kCtx.got
      PROVE  /\ kCtx.got[i] <= kSent'
             /\ kSent' + KmsMaySend' <= kCtx.got[i] + MaxLate + kAge + 1
  <2>1. kCtx.got[i] \in Nat
    BY DEF KmsInv, KmsRxPart, WholeContext, OneId, Contexts, Packets
  <2>2. QED
    BY <1>1, <1>4, <2>1 DEF KmsInv, KmsRxPart, KmsMaySend
<1>5. KmsRxPart'
  BY <1>1, <1>2, <1>3, <1>4 DEF KmsInv, KmsRxPart, InStep, SentBy, OneId, WholeContext
<1>6. KmsQueryPart'
  BY <1>1 DEF KmsInv, KmsQueryPart
<1>7. QED
  BY <1>1, <1>5, <1>6 DEF KmsInv, K!AcceptsInOrder

LEMMA KmsAskKeeps ==
  ASSUME KmsInv, NEW took \in BOOLEAN, K!SendAuthKeyQuery(took)
  PROVE  KmsInv' /\ K!AcceptsInOrder
<1>1. UNCHANGED <<kCtx, kAge, kLast, kExpected, kSecond, kSent, kRested, kAccepted, kTaken>>
  BY DEF K!SendAuthKeyQuery, K!rxVars
<1>2. KmsRxPart'
  BY <1>1 DEF KmsInv, KmsRxPart, InStep, SentBy, OneId, WholeContext, KmsMaySend
<1>3. kAsked' \in 0..MaxQueries
  BY NumberFacts DEF K!SendAuthKeyQuery, KmsInv, KmsQueryPart
<1>4. CASE took
  <2>1. kPending' = TRUE /\ kRetries' = 0 /\ kQueryAge' = 0 /\ kTries' = 1 /\ kFailed' = FALSE
    BY <1>4, Zenon DEF K!SendAuthKeyQuery
  <2>2. KmsQueryPart'
    <3>1. kPending' \in BOOLEAN /\ kFailed' \in BOOLEAN
      BY <2>1
    <3>2. /\ kRetries' \in 0..MaxRetries /\ kQueryAge' \in 0..QueryTimeout
          /\ kTries' \in 0..(MaxRetries + 1) /\ kTries' = kRetries' + 1
      BY <2>1, NumberFacts
    <3>3. QED
      BY <1>3, <3>1, <3>2 DEF KmsQueryPart
  <2>3. QED
    BY <1>1, <1>2, <2>2 DEF KmsInv, K!AcceptsInOrder
<1>5. CASE ~took
  <2>1. UNCHANGED <<kPending, kRetries, kQueryAge, kTries, kFailed>>
    BY <1>5, Zenon DEF K!SendAuthKeyQuery, K!queryVars
  <2>2. KmsQueryPart'
    BY <1>3, <2>1 DEF KmsInv, KmsQueryPart
  <2>3. QED
    BY <1>1, <1>2, <2>2 DEF KmsInv, K!AcceptsInOrder
<1>6. QED
  BY <1>4, <1>5 DEF KmsInv, K!AcceptsInOrder

LEMMA KmsTaskKeeps ==
  ASSUME KmsInv, K!Process1s
  PROVE  KmsInv' /\ K!AcceptsInOrder
<1>1. UNCHANGED <<kLast, kExpected, kSent, kRested, kAccepted, kTaken, kAsked>>
  BY DEF K!Process1s
<1>2. /\ kSecond' = FALSE
      /\ \/ kCtx' = Idle /\ kAge' = 0
         \/ UNCHANGED <<kCtx, kAge>> /\ ~K!RxTimedOut
  <2>1. K!Idle = Idle
    BY KmsSame
  <2>2. CASE K!RxTimedOut
    BY <2>1, <2>2, Zenon DEF K!Process1s
  <2>3. CASE ~K!RxTimedOut
    BY <2>3, Zenon DEF K!Process1s
  <2>4. QED
    BY <2>2, <2>3
<1>3. WholeContext(kCtx')
  BY <1>2, IdleFacts DEF KmsInv, KmsRxPart
<1>4. kAge' \in 0..(RxTimeout + 1) /\ ~(kCtx'.active = TRUE /\ kAge' = RxTimeout + 1)
  BY <1>2, NumberFacts DEF KmsInv, KmsRxPart, K!RxTimedOut, Idle
<1>5. ASSUME kCtx'.active = TRUE
      PROVE  kCtx' = kCtx /\ kAge' = kAge /\ kCtx.active = TRUE
  BY <1>2, <1>5 DEF Idle
<1>6. KmsRxPart'
  BY <1>1, <1>2, <1>3, <1>4, <1>5 DEF KmsInv, KmsRxPart, InStep, SentBy, OneId, WholeContext, KmsMaySend
<1>7. KmsQueryPart'
  <2>1. CASE ~K!QueryTimedOut
    BY <1>1, <2>1 DEF K!Process1s, K!queryVars, KmsInv, KmsQueryPart
  <2>2. CASE K!QueryTimedOut /\ K!MayRepeat
    <3>1. /\ kRetries' = kRetries + 1 /\ kQueryAge' = 0 /\ kTries' = kTries + 1
          /\ kPending' = kPending /\ kFailed' = kFailed
      BY <2>2, Zenon DEF K!Process1s
    <3>2. kPending = TRUE /\ kRetries < MaxRetries
      BY <2>2 DEF K!QueryTimedOut, K!MayRepeat, KmsInv, KmsQueryPart
    <3>3. QED
      BY <1>1, <3>1, <3>2, NumberFacts DEF KmsInv, KmsQueryPart
  <2>3. CASE K!QueryTimedOut /\ ~K!MayRepeat
    <3>1. /\ kPending' = FALSE /\ kRetries' = 0 /\ kQueryAge' = 0
          /\ kTries' = kTries /\ kFailed' = TRUE
      BY <2>3, Zenon DEF K!Process1s, K!EndQuery
    <3>2. kPending' \in BOOLEAN /\ kFailed' \in BOOLEAN /\ ~(kPending' = TRUE)
      BY <3>1
    <3>3. kRetries' \in 0..MaxRetries /\ kQueryAge' \in 0..QueryTimeout
      BY <3>1, NumberFacts
    <3>4. QED
      BY <1>1, <3>1, <3>2, <3>3 DEF KmsInv, KmsQueryPart
  <2>4. QED
    BY <2>1, <2>2, <2>3
<1>8. QED
  BY <1>1, <1>6, <1>7 DEF KmsInv, K!AcceptsInOrder

LEMMA KmsSecondKeeps ==
  ASSUME KmsInv, K!Second
  PROVE  KmsInv' /\ K!AcceptsInOrder
<1>1. /\ UNCHANGED <<kCtx, kLast, kExpected, kPending, kRetries, kSent, kAccepted, kTaken,
                     kAsked, kTries, kFailed>>
      /\ kSecond = FALSE /\ kSecond' = TRUE /\ kRested' = TRUE
  BY DEF K!Second, K!history, KmsInv, KmsRxPart
<1>2. /\ kAge' \in 0..(RxTimeout + 1)
      /\ kCtx.active = TRUE => kAge' = kAge + 1
  BY <1>1, NumberFacts DEF K!Second, KmsInv, KmsRxPart
<1>3. ASSUME kCtx.active = TRUE, NEW i \in DOMAIN kCtx.got
      PROVE  /\ kCtx.got[i] <= kSent
             /\ kSent + KmsMaySend' <= kCtx.got[i] + MaxLate + kAge' + 1
  <2>1. kCtx.got[i] \in Nat /\ kSent \in Nat /\ kAge \in Nat
    BY DEF KmsInv, KmsRxPart, WholeContext, OneId, Contexts, Packets
  <2>2. KmsMaySend \in {0, 1} /\ KmsMaySend' = 1
    BY <1>1 DEF KmsMaySend
  <2>3. /\ kCtx.got[i] <= kSent
        /\ kSent + KmsMaySend <= kCtx.got[i] + MaxLate + kAge + 1
    BY <1>3 DEF KmsInv, KmsRxPart
  <2>4. QED
    BY <1>2, <1>3, <2>1, <2>2, <2>3, NumberFacts
<1>4. KmsRxPart'
  BY <1>1, <1>2, <1>3 DEF KmsInv, KmsRxPart, InStep, SentBy, OneId, WholeContext
<1>5. kQueryAge' \in 0..QueryTimeout
  BY NumberFacts DEF K!Second, KmsInv, KmsQueryPart
<1>6. QED
  BY <1>1, <1>4, <1>5 DEF KmsInv, KmsQueryPart, K!AcceptsInOrder

LEMMA KmsContextFacts ==
  ASSUME KmsInv, NEW f \in Arriving(kSent)
  PROVE  /\ kSent \in Nat
         /\ WholeContext(KmsContext(f)) /\ NotRoundBy(KmsContext(f), kSent)
         /\ KmsContext(f).tid = Tid(f.pkt) /\ KmsContext(f).total = Total[f.pkt]
<1>1. kSent \in Nat
  BY DEF KmsInv, KmsRxPart
<1>2. CASE KmsOpens(f)
  BY <1>1, <1>2, BegunFacts DEF KmsContext
<1>3. CASE ~KmsOpens(f)
  <2>1. /\ KmsContext(f) = kCtx /\ WholeContext(kCtx) /\ kCtx.active = TRUE
        /\ kCtx.tid = Tid(f.pkt) /\ kCtx.total = Total[f.pkt]
    BY <1>3 DEF KmsContext, KmsOpens, KmsInv, KmsRxPart, WholeContext, OneId, Contexts
  <2>2. ASSUME NEW i \in DOMAIN kCtx.got
        PROVE  kCtx.got[i] <= kSent /\ kSent < kCtx.got[i] + TidMod
    <3>1. kCtx.got[i] \in Nat /\ kAge \in Nat /\ kAge <= RxTimeout + 1
      BY NumberFacts DEF KmsInv, KmsRxPart, WholeContext, OneId, Contexts, Packets
    <3>2. /\ kCtx.got[i] <= kSent
          /\ kSent + KmsMaySend <= kCtx.got[i] + MaxLate + kAge + 1
      BY <2>1 DEF KmsInv, KmsRxPart
    <3>3. KmsMaySend \in {0, 1}
      BY DEF KmsMaySend
    <3>4. QED
      BY <1>1, <3>1, <3>2, <3>3, NumberFacts
  <2>3. QED
    BY <1>1, <2>1, <2>2 DEF NotRoundBy
<1>4. QED
  BY <1>2, <1>3

LEMMA KmsStoredFacts ==
  ASSUME KmsInv, NEW f \in Arriving(kSent)
  PROVE  /\ WholeContext(KmsStored(f)) /\ NotRoundBy(KmsStored(f), kSent)
         /\ KmsStored(f).tid = Tid(f.pkt) /\ Sources(KmsStored(f)) = {f.pkt}
<1>1. f.index < KmsContext(f).total
  BY KmsContextFacts, ArrivingFacts
<1>2. QED
  BY <1>1, KmsContextFacts, JoinFacts DEF KmsStored

LEMMA KmsHandleSays ==
  ASSUME NEW f, K!RxHandle(f)
  PROVE  /\ UNCHANGED <<kSecond, kSent, kRested, kAsked, kTries, kFailed>>
         /\ \/ UNCHANGED <<kCtx, kAge, kLast, kExpected, kPending, kRetries, kQueryAge,
                           kAccepted, kTaken>>
            \/ K!Store(f)
  BY Zenon DEF K!RxHandle, K!rxVars, K!queryVars

LEMMA KmsStoreSays ==
  ASSUME NEW f, K!Store(f)
  PROVE  LET ctx == KmsStored(f)
         IN /\ \/ kCtx' = Idle /\ kAge' = 0
               \/ kCtx' = ctx /\ KmsOpens(f) /\ kAge' = 0
               \/ kCtx' = ctx /\ ~KmsOpens(f) /\ kAge' = kAge
            /\ \/ UNCHANGED <<kLast, kExpected, kPending, kRetries, kQueryAge, kAccepted, kTaken>>
               \/ ~K!Repeats(ctx) /\ ~K!Unexpected(ctx) /\ K!Accept(ctx)
<1>1. K!Opens(f) <=> KmsOpens(f)
  BY KmsSame DEF K!Opens, KmsOpens
<1>2. K!Stored(K!ContextFor(f), f) = KmsStored(f)
  BY <1>1, KmsSame DEF K!ContextFor, KmsContext, KmsStored
<1>3. K!Idle = Idle
  BY KmsSame
<1>4. QED
  BY <1>1, <1>2, <1>3, Zenon DEF K!Store, K!queryVars

LEMMA KmsStoreKeeps ==
  ASSUME KmsInv, NEW f \in Arriving(kSent), K!Store(f),
         UNCHANGED <<kSecond, kSent, kRested, kAsked, kTries, kFailed>>
  PROVE  KmsInv' /\ K!AcceptsInOrder
<1> DEFINE ctx == KmsStored(f)
<1>1. /\ kSent \in 0..MaxPackets /\ kSent \in Nat /\ kRested \in BOOLEAN /\ kSecond \in BOOLEAN
      /\ InStep(kLast, kExpected, kTaken, kAccepted, kSent)
      /\ \A p, q \in kTaken : p = q
  BY DEF KmsInv, KmsRxPart
<1>2. /\ WholeContext(ctx) /\ NotRoundBy(ctx, kSent)
      /\ ctx.tid = Tid(f.pkt) /\ Sources(ctx) = {f.pkt}
  BY KmsStoredFacts
<1>3. /\ f.pkt \in Packets /\ f.pkt \in Nat /\ f.pkt <= kSent /\ kSent <= f.pkt + MaxLate
  BY <1>1, ArrivingFacts
<1>4. /\ \/ kCtx' = Idle /\ kAge' = 0
         \/ kCtx' = ctx /\ KmsOpens(f) /\ kAge' = 0
         \/ kCtx' = ctx /\ ~KmsOpens(f) /\ kAge' = kAge
      /\ \/ UNCHANGED <<kLast, kExpected, kPending, kRetries, kQueryAge, kAccepted, kTaken>>
         \/ ~K!Repeats(ctx) /\ ~K!Unexpected(ctx) /\ K!Accept(ctx)
  BY KmsStoreSays
<1> HIDE DEF ctx
<1>5. WholeContext(kCtx')
  BY <1>2, <1>4, IdleFacts
<1>6. kAge' \in 0..(RxTimeout + 1)
  BY <1>4, NumberFacts DEF KmsInv, KmsRxPart
<1>7. kCtx'.active = TRUE /\ kAge' = RxTimeout + 1 => kSecond' = TRUE
  <2>1. CASE kAge' = 0
    BY <2>1, NumberFacts
  <2>2. CASE ~KmsOpens(f) /\ kAge' = kAge
    <3>1. kCtx.active = TRUE
      BY <2>2 DEF KmsOpens, KmsInv, KmsRxPart, WholeContext, OneId, Contexts
    <3>2. kSecond' = kSecond
      OBVIOUS
    <3>3. QED
      BY <2>2, <3>1, <3>2 DEF KmsInv, KmsRxPart
  <2>3. QED
    BY <1>4, <2>1, <2>2
<1>8. ASSUME kCtx'.active = TRUE, NEW i \in DOMAIN kCtx'.got
      PROVE  /\ kCtx'.got[i] <= kSent
             /\ kSent + KmsMaySend' <= kCtx'.got[i] + MaxLate + kAge' + 1
  <2>1. kCtx' = ctx
    BY <1>4, <1>8 DEF Idle
  <2>2. kCtx'.got[i] = f.pkt
    BY <1>2, <1>8, <2>1 DEF Sources
  <2>3. KmsMaySend' \in {0, 1}
    BY DEF KmsMaySend
  <2>4. QED
    BY <1>1, <1>3, <1>6, <2>2, <2>3, NumberFacts
<1>9. SUFFICES /\ InStep(kLast', kExpected', kTaken', kAccepted', kSent)
               /\ \A p, q \in kTaken' : p = q
               /\ KmsQueryPart' /\ K!AcceptsInOrder
  <2>1. KmsRxPart' <=> /\ InStep(kLast', kExpected', kTaken', kAccepted', kSent')
                       /\ \A p, q \in kTaken' : p = q
    BY <1>1, <1>5, <1>6, <1>7, <1>8 DEF KmsRxPart
  <2>2. kSent' = kSent
    OBVIOUS
  <2>3. QED
    BY <1>9, <2>1, <2>2 DEF KmsInv
<1>10. CASE UNCHANGED <<kLast, kExpected, kPending, kRetries, kQueryAge, kAccepted, kTaken>>
  <2>1. KmsQueryPart'
    BY <1>10 DEF KmsInv, KmsQueryPart
  <2>2. QED
    BY <1>1, <1>10, <2>1 DEF K!AcceptsInOrder
<1>11. CASE K!Accept(ctx) /\ ~K!Applies(ctx)
  <2>1. UNCHANGED <<kLast, kExpected, kPending, kRetries, kQueryAge, kAccepted, kTaken>>
    BY <1>11, Zenon DEF K!Accept, K!queryVars
  <2>2. QED
    BY <1>10, <2>1
<1>12. CASE ~K!Repeats(ctx) /\ ~K!Unexpected(ctx) /\ K!Accept(ctx) /\ K!Applies(ctx)
  <2>1. kLast.valid = FALSE \/ Tid(f.pkt) = kExpected
    BY <1>1, <1>2, <1>12 DEF K!Unexpected, InStep
  <2>2. /\ kLast' = [valid |-> TRUE, tid |-> Tid(f.pkt), content |-> K!Content(ctx)]
        /\ kExpected' = NextTid(Tid(f.pkt)) /\ kAccepted' = kAccepted + 1
        /\ kTaken' = {f.pkt}
    BY <1>2, <1>12, KmsSame DEF K!Accept
  <2>3. kPending' = FALSE /\ kRetries' = 0 /\ kQueryAge' = 0
    BY <1>12, Zenon DEF K!Accept, K!EndQuery
  <2>4. /\ InStep(kLast', kExpected', kTaken', kAccepted', kSent)
        /\ \A p \in kTaken : p < f.pkt
    <3>1. SentBy({f.pkt}, kSent) /\ {f.pkt} # {}
      BY <1>3 DEF SentBy
    <3>2. \A p \in kTaken : p <= f.pkt + MaxLate
      BY <1>1, <1>3, NumberFacts DEF InStep, SentBy, Packets
    <3>3. /\ InStep([valid |-> TRUE, tid |-> Tid(f.pkt), content |-> K!Content(ctx)],
                    NextTid(Tid(f.pkt)), {f.pkt}, kAccepted + 1, kSent)
          /\ \A p \in kTaken, q \in {f.pkt} : p < q
      BY <1>1, <2>1, <3>1, <3>2, AcceptFacts
    <3>4. QED
      BY <2>2, <3>3
  <2>5. KmsQueryPart'
    <3>1. kPending' \in BOOLEAN /\ ~(kPending' = TRUE)
      BY <2>3
    <3>2. kRetries' \in 0..MaxRetries /\ kQueryAge' \in 0..QueryTimeout
      BY <2>3, NumberFacts
    <3>3. QED
      BY <3>1, <3>2 DEF KmsInv, KmsQueryPart
  <2>6. QED
    BY <2>2, <2>4, <2>5 DEF K!AcceptsInOrder
<1>13. QED
  BY <1>4, <1>10, <1>11, <1>12

LEMMA KmsNextKeeps ==
  ASSUME KmsInv, K!Next \/ UNCHANGED kVars
  PROVE  KmsInv' /\ K!AcceptsInOrder
<1>1. ASSUME UNCHANGED <<kCtx, kAge, kLast, kExpected, kPending, kRetries, kQueryAge, kSecond,
                         kSent, kRested, kAccepted, kTaken, kAsked, kTries, kFailed>>
      PROVE  KmsInv' /\ K!AcceptsInOrder
  <2>1. KmsRxPart'
    BY <1>1 DEF KmsInv, KmsRxPart, InStep, SentBy, OneId, WholeContext, KmsMaySend
  <2>2. KmsQueryPart'
    BY <1>1 DEF KmsInv, KmsQueryPart
  <2>3. QED
    BY <1>1, <2>1, <2>2 DEF KmsInv, K!AcceptsInOrder
<1>2. ASSUME NEW f \in Arriving(kSent), K!RxHandle(f)
      PROVE  KmsInv' /\ K!AcceptsInOrder
  BY <1>1, <1>2, KmsHandleSays, KmsStoreKeeps
<1>3. CASE UNCHANGED kVars
  BY <1>1, <1>3 DEF kVars
<1>4. QED
  BY <1>2, <1>3, KmsSame, KmsSendKeeps, KmsAskKeeps, KmsTaskKeeps, KmsSecondKeeps DEF K!Next

LEMMA KmsInvSays == KmsInv => K!TypeOK /\ K!MessageIsWhole
<1> SUFFICES ASSUME KmsInv PROVE K!TypeOK /\ K!MessageIsWhole
  OBVIOUS
<1>1. K!IsContext(kCtx)
  <2>1. /\ kCtx.active \in BOOLEAN /\ kCtx.tid \in 0..(TidMod - 1) /\ kCtx.total \in Nat
        /\ DOMAIN kCtx.got \subseteq 0..(kCtx.total - 1)
        /\ \A i \in DOMAIN kCtx.got : kCtx.got[i] \in Packets
    BY DEF KmsInv, KmsRxPart, WholeContext, OneId, Contexts
  <2>2. QED
    BY <2>1 DEF K!IsContext, K!Sources, K!Packets, Packets
<1>2. /\ kSent \in 0..MaxPackets /\ InStep(kLast, kExpected, kTaken, kAccepted, kSent)
      /\ kRested \in BOOLEAN /\ kSecond \in BOOLEAN /\ kAge \in 0..(RxTimeout + 1)
      /\ \A p, q \in kTaken : p = q
  BY DEF KmsInv, KmsRxPart
<1>3. /\ kLast.valid \in BOOLEAN /\ kLast.tid \in 0..(TidMod - 1)
      /\ kExpected \in 0..(TidMod - 1) /\ kAccepted \in 0..MaxPackets
      /\ kTaken \subseteq Packets
  BY <1>2, InStepSays
<1>4. kTaken \subseteq K!Packets
  BY <1>3 DEF K!Packets, Packets
<1>5. QED
  BY <1>1, <1>2, <1>3, <1>4 DEF K!TypeOK, K!MessageIsWhole, KmsInv, KmsQueryPart

-----------------------------------------------------------------------------
(* input_card.c: input_card_rx_handler, and SMOCIP.c: smocip_rx_handle *)

StatusInv ==
  /\ saved \in [{1, 2} -> 0..MaxPackets] /\ bus \in [{1, 2} -> Packets]
  /\ last \in 0..MaxPackets /\ expected \in 0..(TidMod - 1) /\ sent \in 0..MaxPackets
  /\ acked \in 0..MaxPackets /\ refused \in 0..MaxPackets
  /\ taken = last /\ last <= sent
  /\ last # 0 => expected = Tid(last + 1)
  /\ inputs = IF last = 0 THEN {} ELSE Value[last]

\* What the actions of the run say of a step, but for the events.
StatusStepRight == P!TakesInOrder /\ P!WelcomesSuccessor /\ P!AcksTaken

\* The record p comes on bus b and becomes the last one.
StatusTakes(p) ==
  /\ last' = p /\ expected' = NextTid(Tid(p)) /\ inputs' = Value[p]
  /\ taken' = p /\ acked' = p /\ refused' = 0

LEMMA StatusSame ==
  /\ P!Records = Packets /\ C!Records = Packets
  /\ P!Buses = {1, 2} /\ C!Buses = {1, 2}
  /\ \A p : P!Tid(p) = Tid(p) /\ C!Tid(p) = Tid(p)
  /\ \A b : P!Arriving(b) = C!Arriving(b)
  BY DEF P!Records, C!Records, Packets, P!Buses, C!Buses, P!Tid, C!Tid, Tid,
     P!Arriving, C!Arriving

LEMMA StatusInit == P!Init => StatusInv
<1> SUFFICES ASSUME P!Init PROVE StatusInv
  OBVIOUS
<1>1. /\ saved = [b \in {1, 2} |-> 0] /\ bus = [b \in {1, 2} |-> 1]
      /\ last = 0 /\ expected = 0 /\ inputs = {} /\ sent = 0
      /\ taken = 0 /\ acked = 0 /\ refused = 0
  BY StatusSame DEF P!Init
<1>2. QED
  BY <1>1, NumberFacts DEF StatusInv, Packets

\* The four ways of a frame, the same for the panel and for a card.
LEMMA StatusHandleSays ==
  ASSUME NEW b \in {1, 2}, NEW p \in Packets, P!RxHandler(b, p) \/ C!RxHandler(b, p)
  PROVE  /\ p <= sent /\ sent <= p + MaxLate /\ sent' = sent
         /\ bus' = [bus EXCEPT ![b] = p]
         /\ saved' = saved \/ saved' = [saved EXCEPT ![b] = p]
         /\ \/ UNCHANGED <<last, expected, inputs, taken, acked, refused>>
            \/ /\ last # 0 /\ Value[last] = Value[p] /\ acked' = p
               /\ UNCHANGED <<last, expected, inputs, taken, refused>>
            \/ /\ last # 0 /\ (Tid(last) = Tid(p) \/ Tid(p) # expected) /\ refused' = p
               /\ UNCHANGED <<last, expected, inputs, taken, acked>>
            \/ (last = 0 \/ Tid(p) = expected) /\ StatusTakes(p)
<1>1. CASE P!RxHandler(b, p)
  BY <1>1 DEF P!RxHandler, P!Arriving, P!rxVars, P!history, P!AckAgain, P!Conflict, P!Accept,
     P!Repeats, P!Unexpected, P!SamePayload, P!Tid, Tid, NextTid, StatusTakes
<1>2. CASE C!RxHandler(b, p)
  BY <1>2 DEF C!RxHandler, C!Arriving, C!rxVars, C!history, C!AckAgain, C!Conflict, C!Accept,
     C!Repeats, C!Unexpected, C!SamePayload, C!Tid, Tid, NextTid, StatusTakes
<1>3. QED
  BY <1>1, <1>2

LEMMA StatusHandleKeeps ==
  ASSUME StatusInv, NEW b \in {1, 2}, NEW p \in Packets, P!RxHandler(b, p) \/ C!RxHandler(b, p)
  PROVE  StatusInv' /\ StatusStepRight
<1>1. /\ p \in Nat /\ p \in 0..MaxPackets /\ p # 0
      /\ sent \in Nat /\ last \in Nat /\ last + 1 \in Nat
  <2>1. sent \in 0..MaxPackets /\ last \in 0..MaxPackets /\ p \in 1..MaxPackets
    BY DEF StatusInv, Packets
  <2>2. MaxPackets \in Nat
    BY NumberFacts
  <2>3. QED
    BY <2>1, <2>2
<1>2. /\ p <= sent /\ sent <= p + MaxLate /\ sent' = sent
      /\ bus' = [bus EXCEPT ![b] = p]
      /\ saved' = saved \/ saved' = [saved EXCEPT ![b] = p]
  BY StatusHandleSays
<1>3. bus' \in [{1, 2} -> Packets] /\ saved' \in [{1, 2} -> 0..MaxPackets]
  BY <1>1, <1>2 DEF StatusInv
<1>4. CASE UNCHANGED <<last, expected, inputs, taken, acked, refused>>
  <2>1. StatusInv'
    BY <1>2, <1>3, <1>4 DEF StatusInv
  <2>2. QED
    BY <1>4, <2>1 DEF StatusStepRight, P!TakesInOrder, P!WelcomesSuccessor, P!AcksTaken
<1>5. CASE /\ last # 0 /\ Value[last] = Value[p] /\ acked' = p
           /\ UNCHANGED <<last, expected, inputs, taken, refused>>
  <2>1. StatusInv'
    BY <1>1, <1>2, <1>3, <1>5 DEF StatusInv
  <2>2. Value[acked'] = inputs'
    BY <1>5 DEF StatusInv
  <2>3. QED
    BY <1>5, <2>1, <2>2 DEF StatusStepRight, P!TakesInOrder, P!WelcomesSuccessor, P!AcksTaken
<1>6. CASE /\ last # 0 /\ (Tid(last) = Tid(p) \/ Tid(p) # expected) /\ refused' = p
           /\ UNCHANGED <<last, expected, inputs, taken, acked>>
  <2>1. StatusInv'
    BY <1>1, <1>2, <1>3, <1>6 DEF StatusInv
  <2>2. expected = Tid(last + 1) /\ taken = last
    BY <1>6 DEF StatusInv
  <2>3. p # taken + 1
    BY <1>1, <1>6, <2>2, NextTidFacts
  <2>4. QED
    BY <1>6, <2>1, <2>3 DEF StatusStepRight, P!TakesInOrder, P!WelcomesSuccessor, P!AcksTaken
<1>7. CASE (last = 0 \/ Tid(p) = expected) /\ StatusTakes(p)
  <2>1. NextTid(Tid(p)) = Tid(p + 1) /\ Tid(p + 1) \in 0..(TidMod - 1)
    <3>1. p + 1 \in Nat
      BY <1>1
    <3>2. QED
      BY <1>1, <3>1, NextTidFacts
  <2>2. last < p
    <3>1. CASE last = 0
      BY <1>1, <3>1
    <3>2. CASE last # 0
      <4>1. Tid(p) = Tid(last + 1) /\ last <= sent
        BY <1>7, <3>2 DEF StatusInv
      <4>2. SUFFICES ASSUME p <= last PROVE FALSE
        BY <1>1
      <4>3. p < last + 1 + TidMod /\ last + 1 < p + TidMod
        BY <1>1, <1>2, <4>1, <4>2, NumberFacts
      <4>4. p = last + 1
        BY <1>1, <4>1, <4>3, TidIsUnique
      <4>5. QED
        BY <1>1, <4>2, <4>4
    <3>3. QED
      BY <3>1, <3>2
  <2>3. StatusInv'
    BY <1>1, <1>2, <1>3, <1>7, <2>1, NumberFacts DEF StatusInv, StatusTakes
  <2>4. taken < taken' /\ refused' = 0 /\ Value[acked'] = inputs'
    BY <1>7, <2>2 DEF StatusInv, StatusTakes
  <2>5. QED
    BY <2>3, <2>4 DEF StatusStepRight, P!TakesInOrder, P!WelcomesSuccessor, P!AcksTaken
<1>8. QED
  BY <1>4, <1>5, <1>6, <1>7, StatusHandleSays

LEMMA StatusNextKeeps ==
  ASSUME StatusInv, P!Next \/ C!Next \/ UNCHANGED sVars
  PROVE  StatusInv' /\ StatusStepRight
<1>1. CASE P!Send \/ C!Send
  <2>1. /\ sent < MaxPackets /\ sent' = sent + 1
        /\ UNCHANGED <<saved, last, expected, inputs, bus, taken, acked, refused>>
    BY <1>1 DEF P!Send, C!Send, P!rxVars, C!rxVars, P!history, C!history
  <2>2. StatusInv'
    BY <2>1, NumberFacts DEF StatusInv
  <2>3. QED
    BY <2>1, <2>2 DEF StatusStepRight, P!TakesInOrder, P!WelcomesSuccessor, P!AcksTaken
<1>2. CASE UNCHANGED sVars
  <2>1. UNCHANGED <<saved, last, expected, inputs, sent, bus, taken, acked, refused>>
    BY <1>2 DEF sVars
  <2>2. StatusInv'
    BY <2>1 DEF StatusInv
  <2>3. QED
    BY <2>1, <2>2 DEF StatusStepRight, P!TakesInOrder, P!WelcomesSuccessor, P!AcksTaken
<1>3. ASSUME NEW b \in {1, 2}, NEW p \in Packets, P!RxHandler(b, p) \/ C!RxHandler(b, p)
      PROVE  StatusInv' /\ StatusStepRight
  BY <1>3, StatusHandleKeeps
<1>4. QED
  BY <1>1, <1>2, <1>3, StatusSame DEF P!Next, C!Next

\* Each of the two handlers logs the changes it makes.
LEMMA PanelLogsChanges ==
  ASSUME StatusInv, P!Next \/ UNCHANGED sVars
  PROVE  P!EventsAreChanges
<1>1. SUFFICES ASSUME taken' # taken
      PROVE  events' = Value[taken'] \ (IF taken = 0 THEN {} ELSE Value[taken])
  BY <1>1 DEF P!EventsAreChanges
<1>2. PICK p \in P!Records : P!Accept(p)
  BY <1>1 DEF P!Next, sVars, P!Send, P!history, P!rxVars, P!RxHandler, P!AckAgain, P!Conflict
<1>3. /\ taken' = p /\ events' = Value[p] \ inputs
      /\ inputs = IF taken = 0 THEN {} ELSE Value[taken]
  BY <1>2 DEF P!Accept, P!Logged, StatusInv
<1>4. QED
  BY <1>3

LEMMA CardLogsChanges ==
  ASSUME StatusInv, C!Next \/ UNCHANGED sVars
  PROVE  C!EventsAreChanges
<1>1. SUFFICES ASSUME taken' # taken
      PROVE  events' = IF taken = 0 THEN {}
                       ELSE (Value[taken'] \ Value[taken]) \cup (Value[taken] \ Value[taken'])
  BY <1>1 DEF C!EventsAreChanges
<1>2. PICK p \in C!Records : C!Accept(p)
  BY <1>1 DEF C!Next, sVars, C!Send, C!history, C!rxVars, C!RxHandler, C!AckAgain, C!Conflict
<1>3. /\ taken' = p /\ last = taken
      /\ inputs = IF taken = 0 THEN {} ELSE Value[taken]
  BY <1>2 DEF C!Accept, StatusInv
<1>4. events' = IF last = 0 THEN {} ELSE (Value[p] \ inputs) \cup (inputs \ Value[p])
  BY <1>2 DEF C!Accept, C!Logged
<1>5. QED
  BY <1>3, <1>4

LEMMA StatusInvSays == StatusInv => P!TypeOK
<1> SUFFICES ASSUME StatusInv PROVE P!TypeOK
  OBVIOUS
<1>1. inputs \subseteq UNION {Value[p] : p \in Packets}
  BY NumberFacts DEF StatusInv, Packets
<1>2. QED
  BY <1>1, StatusSame DEF P!TypeOK, StatusInv

-----------------------------------------------------------------------------
(* rfid_rx.c: rfid_rx_handle and the tag database *)

Slots == 0..(RFID_DB_SIZE - 1)

TagEntries ==
  {e \in [kind : Nat \ {0}, place : Seq(Nat), spare : BOOLEAN, location_check : BOOLEAN] :
     Len(e.place) = IF e.kind = T!RFID_TAG_JUNCTION THEN 3 ELSE 2}

\* A context, as in radio.c, and the tag of which the second bytes are.
TagContextIs(ctx, back, H) ==
  /\ OneId(ctx) /\ SentBy(Sources(ctx), tSent) /\ HeardSince(ctx, H)
  /\ 1 \in DOMAIN ctx.got => back = ctx.got[1]

TagRxPart ==
  /\ tSent \in 0..MaxPackets /\ tBack \in 0..MaxPackets
  /\ TagContextIs(tCtx, tBack, tHeard)
  /\ SentBy(tHeard, tSent) /\ SentBy(tTaken, tSent)
  /\ MixedByRoundOnly(tTaken, tHeard)

\* The slots searched are those that hold an entry.
TagDbPart ==
  /\ tHead \in Slots /\ tCount \in 0..RFID_DB_SIZE
  /\ tDb \in [Slots -> TagEntries \cup {T!NoEntry}]
  /\ \A i \in Slots : IF T!Age(i) < tCount THEN tDb[i] \in TagEntries ELSE tDb[i] = T!NoEntry
  /\ tMet \subseteq TagEntries
  /\ tTaken # {} => tDecoded \in TagEntries

TagDbInv == TagDbPart /\ T!DbDistinct /\ T!CheckedMeansBoth /\ T!LastTagIsKept

TagInv == TagRxPart /\ TagDbInv

LEMMA TagFacts ==
  /\ Kind \in [Packets -> Nat]
  /\ Front \in [Packets -> [id : Nat, location : Nat, low : {0, 1}]]
  /\ \A p \in 0..MaxPackets : T!Behind(p) \in [high : Nat, is_duplicate : BOOLEAN]
<1>1. ASSUME NEW p \in 0..MaxPackets
      PROVE  T!Behind(p) \in [high : Nat, is_duplicate : BOOLEAN]
  <2>1. CASE p = 0
    BY <2>1 DEF T!Behind
  <2>2. CASE p # 0
    <3>1. p \in Packets
      BY <2>2, NumberFacts DEF Packets
    <3>2. QED
      BY <2>2, <3>1, ReceiversAssumption DEF T!Behind
  <2>3. QED
    BY <2>1, <2>2
<1>2. QED
  BY <1>1, ReceiversAssumption

LEMMA NoEntryIsNone == T!NoEntry \notin TagEntries
<1>1. T!NoEntry.kind = 0
  BY DEF T!NoEntry
<1>2. QED
  BY <1>1 DEF TagEntries

LEMMA EntriesAre ==
  ASSUME TagDbPart
  PROVE  /\ T!Entries = {i \in Slots : T!Age(i) < tCount}
         /\ T!Searched = T!Entries
         /\ \A i \in T!Entries : i \in Slots /\ tDb[i] \in TagEntries
<1>1. DOMAIN tDb = Slots
  BY DEF TagDbPart
<1>2. \A i \in Slots : tDb[i] # T!NoEntry <=> T!Age(i) < tCount
  BY NoEntryIsNone DEF TagDbPart
<1>3. T!Entries = {i \in Slots : T!Age(i) < tCount}
  BY <1>1, <1>2 DEF T!Entries
<1>4. QED
  BY <1>3 DEF T!Searched, Slots, TagDbPart

\* The ages of the slots, before and after an entry is put in.
LEMMA AgeFacts ==
  ASSUME NEW S \in Nat \ {0}, NEW h \in 0..(S - 1), NEW i \in 0..(S - 1)
  PROVE  /\ (h + 1) % S = IF h = S - 1 THEN 0 ELSE h + 1
         /\ (h + S - 1 - i) % S = IF i < h THEN h - 1 - i ELSE h + S - 1 - i
  BY SMT

LEMMA PutAges ==
  ASSUME tHead \in Slots, tHead' = T!NextHead
  PROVE  /\ tHead' \in Slots
         /\ \A i \in Slots :
              /\ T!Age(i) \in Slots /\ T!Age(i)' \in Slots
              /\ i = tHead => T!Age(i) = RFID_DB_SIZE - 1 /\ T!Age(i)' = 0
              /\ i # tHead => T!Age(i)' = T!Age(i) + 1
<1> DEFINE S == RFID_DB_SIZE
<1>1. S \in Nat \ {0} /\ tHead \in 0..(S - 1)
  BY NumberFacts DEF Slots
<1>2. tHead' = (tHead + 1) % S
  BY DEF T!NextHead
<1>3. tHead' = IF tHead = S - 1 THEN 0 ELSE tHead + 1
  BY <1>1, <1>2, AgeFacts
<1>4. tHead' \in 0..(S - 1)
  BY <1>1, <1>3
<1>5. ASSUME NEW i \in 0..(S - 1)
      PROVE  /\ T!Age(i) = IF i < tHead THEN tHead - 1 - i ELSE tHead + S - 1 - i
             /\ T!Age(i)' = IF i < tHead' THEN tHead' - 1 - i ELSE tHead' + S - 1 - i
  BY <1>1, <1>4, AgeFacts DEF T!Age
<1> HIDE DEF S
<1>6. ASSUME NEW i \in 0..(S - 1)
      PROVE  /\ T!Age(i) \in 0..(S - 1)
             /\ T!Age(i)' \in 0..(S - 1)
             /\ i = tHead => T!Age(i) = S - 1 /\ T!Age(i)' = 0
             /\ i # tHead => T!Age(i)' = T!Age(i) + 1
  BY <1>1, <1>3, <1>5
<1>7. QED
  BY <1>4, <1>6 DEF Slots, S

\* Matching looks at kinds and places only, and for tags it is symmetric.
LEMMA MatchFacts ==
  ASSUME NEW a \in TagEntries, NEW b \in TagEntries
  PROVE  /\ T!Match(a, b) <=> T!Match(b, a)
         /\ T!Match(a, a)
<1>1. a.kind = b.kind => Len(a.place) = Len(b.place)
  BY DEF TagEntries
<1>2. Len(a.place) \in Nat /\ Len(a.place) >= 2 /\ 2 \in 2..Len(a.place)
  <2>1. Len(a.place) = 2 \/ Len(a.place) = 3
    BY DEF TagEntries
  <2>2. QED
    BY <2>1
<1>3. QED
  BY <1>1, <1>2 DEF T!Match

LEMMA MatchAlike ==
  ASSUME NEW a \in TagEntries, NEW b \in TagEntries, NEW e,
         a.kind = b.kind, a.place = b.place
  PROVE  T!Match(a, e) <=> T!Match(b, e)
  BY DEF T!Match

LEMMA CheckedFacts ==
  ASSUME NEW old \in TagEntries, NEW e \in TagEntries
  PROVE  /\ T!Checked(old, e) \in TagEntries
         /\ T!Checked(old, e).kind = old.kind /\ T!Checked(old, e).place = old.place
         /\ T!Checked(old, e).spare = old.spare
         /\ old.spare = e.spare => T!Checked(old, e).location_check = old.location_check
  BY DEF T!Checked, TagEntries

\* What a new entry makes of the database.
TagStepKeeps(e) ==
  e \in TagEntries /\ e.location_check = FALSE /\ tDecoded' = e /\ tMet' = tMet \cup {e}

LEMMA PutKeeps ==
  ASSUME TagDbInv, NEW e, TagStepKeeps(e), T!Put(e),
         \A i \in T!Entries : ~T!Match(tDb[i], e)
  PROVE  TagDbInv'
<1>1. /\ tHead \in Slots /\ tCount \in 0..RFID_DB_SIZE /\ tMet \subseteq TagEntries
      /\ tDb \in [Slots -> TagEntries \cup {T!NoEntry}]
      /\ \A i \in Slots : IF T!Age(i) < tCount THEN tDb[i] \in TagEntries ELSE tDb[i] = T!NoEntry
  BY DEF TagDbInv, TagDbPart
<1>2. /\ T!Entries = {i \in Slots : T!Age(i) < tCount}
      /\ \A i \in T!Entries : i \in Slots /\ tDb[i] \in TagEntries
  BY EntriesAre DEF TagDbInv
<1>3. /\ e \in TagEntries /\ e.location_check = FALSE /\ tDecoded' = e /\ tMet' = tMet \cup {e}
  BY DEF TagStepKeeps
<1>4. /\ tDb' = [tDb EXCEPT ![tHead] = e] /\ tHead' = T!NextHead
      /\ tCount' = IF tCount < RFID_DB_SIZE THEN tCount + 1 ELSE tCount
  BY DEF T!Put
<1>5. /\ tHead' \in Slots
      /\ \A i \in Slots : /\ T!Age(i) \in Slots /\ T!Age(i)' \in Slots
                          /\ i = tHead => T!Age(i)' = 0
                          /\ i # tHead => T!Age(i)' = T!Age(i) + 1
  BY <1>1, <1>4, PutAges
<1>6. /\ tCount' \in 0..RFID_DB_SIZE
      /\ \A i \in Slots : T!Age(i)' < tCount' <=> i = tHead \/ T!Age(i) < tCount
  <2>1. tCount' \in 0..RFID_DB_SIZE /\ tCount' > 0
    BY <1>1, <1>4, NumberFacts
  <2>2. ASSUME NEW i \in Slots, i # tHead
        PROVE  T!Age(i)' < tCount' <=> T!Age(i) < tCount
    <3> DEFINE old == T!Age(i)
               new == T!Age(i)'
    <3>1. /\ old \in Nat /\ new = old + 1 /\ new <= RFID_DB_SIZE - 1
          /\ tCount \in 0..RFID_DB_SIZE /\ RFID_DB_SIZE \in Nat
      <4>1. old \in Slots /\ new \in Slots /\ new = old + 1
        BY <1>5, <2>2
      <4>2. tCount \in 0..RFID_DB_SIZE
        BY <1>1
      <4> HIDE DEF old, new
      <4>3. QED
        BY <4>1, <4>2, NumberFacts DEF Slots
    <3>2. tCount' = IF tCount < RFID_DB_SIZE THEN tCount + 1 ELSE tCount
      BY <1>4
    <3> HIDE DEF old, new
    <3>3. new < tCount' <=> old < tCount
      BY <3>1, <3>2
    <3>4. QED
      BY <3>3 DEF old, new
  <2>3. QED
    BY <1>5, <2>1, <2>2
<1>7. /\ tDb'[tHead] = e
      /\ \A i \in Slots : i # tHead => tDb'[i] = tDb[i]
      /\ tDb' \in [Slots -> TagEntries \cup {T!NoEntry}]
  BY <1>1, <1>3, <1>4
<1>8. \A i \in Slots :
        IF T!Age(i)' < tCount' THEN tDb'[i] \in TagEntries ELSE tDb'[i] = T!NoEntry
  BY <1>1, <1>3, <1>6, <1>7
<1>9. T!Entries' = T!Entries \cup {tHead}
  <2>1. DOMAIN tDb' = Slots
    BY <1>7
  <2>2. \A i \in Slots : tDb'[i] # T!NoEntry <=> i \in T!Entries \cup {tHead}
    BY <1>2, <1>6, <1>8, NoEntryIsNone
  <2>3. T!Entries' = {i \in Slots : tDb'[i] # T!NoEntry}
    BY <2>1 DEF T!Entries
  <2>4. QED
    BY <1>1, <1>2, <2>2, <2>3
<1>10. TagDbPart'
  BY <1>1, <1>3, <1>5, <1>6, <1>7, <1>8 DEF TagDbPart
<1>11. T!DbDistinct'
  <2>1. ASSUME NEW i \in T!Entries', NEW j \in T!Entries', i # j
        PROVE  ~T!Match(tDb'[i], tDb'[j])
    <3>1. CASE i # tHead /\ j # tHead
      <4>1. i \in T!Entries /\ j \in T!Entries /\ tDb'[i] = tDb[i] /\ tDb'[j] = tDb[j]
        BY <1>2, <1>7, <1>9, <3>1
      <4>2. QED
        BY <2>1, <4>1 DEF TagDbInv, T!DbDistinct
    <3>2. CASE j = tHead
      <4>1. i \in T!Entries /\ tDb'[i] = tDb[i]
        BY <1>2, <1>7, <1>9, <2>1, <3>2
      <4>2. QED
        BY <1>7, <3>2, <4>1
    <3>3. CASE i = tHead
      <4>1. j \in T!Entries /\ tDb'[j] = tDb[j] /\ tDb[j] \in TagEntries
        BY <1>2, <1>7, <1>9, <2>1, <3>3
      <4>2. ~T!Match(tDb[j], e)
        BY <4>1
      <4>3. QED
        BY <1>3, <1>7, <3>3, <4>1, <4>2, MatchFacts
    <3>4. QED
      BY <3>1, <3>2, <3>3
  <2>2. QED
    BY <2>1 DEF T!DbDistinct
<1>12. T!CheckedMeansBoth'
  <2>1. ASSUME NEW i \in T!Entries', tDb'[i].location_check
        PROVE  \E m \in tMet' : T!Match(m, tDb'[i]) /\ m.spare # tDb'[i].spare
    <3>1. i # tHead
      BY <1>3, <1>7, <2>1
    <3>2. i \in T!Entries /\ tDb'[i] = tDb[i]
      BY <1>2, <1>7, <1>9, <3>1
    <3>3. PICK m \in tMet : T!Match(m, tDb[i]) /\ m.spare # tDb[i].spare
      BY <2>1, <3>2 DEF TagDbInv, T!CheckedMeansBoth
    <3>4. QED
      BY <1>3, <3>2, <3>3
  <2>2. QED
    BY <2>1 DEF T!CheckedMeansBoth
<1>13. T!LastTagIsKept'
  <2>1. tHead \in T!Entries' /\ T!Match(tDb'[tHead], tDecoded')
    BY <1>3, <1>7, <1>9, MatchFacts
  <2>2. \E i \in T!Entries' : T!Match(tDb'[i], tDecoded')
    BY <2>1
  <2>3. QED
    BY <2>2 DEF T!LastTagIsKept
<1>14. QED
  BY <1>10, <1>11, <1>12, <1>13 DEF TagDbInv

LEMMA MatchKeeps ==
  ASSUME TagDbInv, NEW e, TagStepKeeps(e), NEW k \in T!Entries, T!Match(tDb[k], e),
         tDb' = [tDb EXCEPT ![k] = T!Checked(tDb[k], e)],
         tHead' = tHead, tCount' = tCount
  PROVE  TagDbInv'
<1>1. /\ tHead \in Slots /\ tCount \in 0..RFID_DB_SIZE /\ tMet \subseteq TagEntries
      /\ tDb \in [Slots -> TagEntries \cup {T!NoEntry}]
      /\ \A i \in Slots : IF T!Age(i) < tCount THEN tDb[i] \in TagEntries ELSE tDb[i] = T!NoEntry
  BY DEF TagDbInv, TagDbPart
<1>2. /\ T!Entries = {i \in Slots : T!Age(i) < tCount}
      /\ \A i \in T!Entries : i \in Slots /\ tDb[i] \in TagEntries
  BY EntriesAre DEF TagDbInv
<1>3. /\ e \in TagEntries /\ e.location_check = FALSE /\ tDecoded' = e /\ tMet' = tMet \cup {e}
  BY DEF TagStepKeeps
<1>4. /\ T!Checked(tDb[k], e) \in TagEntries
      /\ T!Checked(tDb[k], e).kind = tDb[k].kind /\ T!Checked(tDb[k], e).place = tDb[k].place
      /\ T!Checked(tDb[k], e).spare = tDb[k].spare
      /\ tDb[k].spare = e.spare
           => T!Checked(tDb[k], e).location_check = tDb[k].location_check
  BY <1>2, <1>3, CheckedFacts
<1>5. /\ tDb'[k] = T!Checked(tDb[k], e)
      /\ \A i \in Slots : i # k => tDb'[i] = tDb[i]
      /\ tDb' \in [Slots -> TagEntries \cup {T!NoEntry}]
  BY <1>1, <1>2, <1>4
<1>6. \A i \in Slots : T!Age(i)' = T!Age(i)
  BY DEF T!Age
<1>7. \A i \in Slots :
        IF T!Age(i)' < tCount' THEN tDb'[i] \in TagEntries ELSE tDb'[i] = T!NoEntry
  BY <1>1, <1>2, <1>4, <1>5, <1>6
<1>8. T!Entries' = T!Entries
  <2>1. DOMAIN tDb' = Slots
    BY <1>5
  <2>2. \A i \in Slots : tDb'[i] # T!NoEntry <=> i \in T!Entries
    BY <1>2, <1>6, <1>7, NoEntryIsNone
  <2>3. T!Entries' = {i \in Slots : tDb'[i] # T!NoEntry}
    BY <2>1 DEF T!Entries
  <2>4. QED
    BY <1>2, <2>2, <2>3
<1>9. TagDbPart'
  BY <1>1, <1>3, <1>5, <1>7 DEF TagDbPart
<1>10. ASSUME NEW i \in T!Entries
       PROVE  /\ tDb'[i] \in TagEntries /\ tDb[i] \in TagEntries
              /\ tDb'[i].kind = tDb[i].kind /\ tDb'[i].place = tDb[i].place
              /\ tDb'[i].spare = tDb[i].spare
  BY <1>2, <1>4, <1>5
<1>11. ASSUME NEW i \in T!Entries, NEW m \in TagEntries
       PROVE  /\ T!Match(tDb'[i], m) <=> T!Match(tDb[i], m)
              /\ T!Match(m, tDb'[i]) <=> T!Match(m, tDb[i])
  BY <1>10, MatchAlike, MatchFacts
<1>12. T!DbDistinct'
  <2>1. ASSUME NEW i \in T!Entries, NEW j \in T!Entries, i # j
        PROVE  ~T!Match(tDb'[i], tDb'[j])
    <3>1. ~T!Match(tDb[i], tDb[j])
      BY <2>1 DEF TagDbInv, T!DbDistinct
    <3>2. QED
      BY <1>10, <1>11, <3>1
  <2>2. QED
    BY <1>8, <2>1 DEF T!DbDistinct
<1>13. T!CheckedMeansBoth'
  <2>1. ASSUME NEW i \in T!Entries, tDb'[i].location_check
        PROVE  \E m \in tMet' : T!Match(m, tDb'[i]) /\ m.spare # tDb'[i].spare
    <3>1. CASE tDb[i].location_check
      <4>1. PICK m \in tMet : T!Match(m, tDb[i]) /\ m.spare # tDb[i].spare
        BY <3>1 DEF TagDbInv, T!CheckedMeansBoth
      <4>2. QED
        BY <1>1, <1>3, <1>10, <1>11, <4>1
    <3>2. CASE ~tDb[i].location_check
      <4>1. i = k /\ tDb[k].spare # e.spare
        BY <1>2, <1>4, <1>5, <2>1, <3>2
      <4>2. T!Match(e, tDb'[k])
        BY <1>2, <1>3, <1>11, MatchFacts
      <4>3. QED
        BY <1>3, <1>10, <4>1, <4>2
    <3>3. QED
      BY <3>1, <3>2
  <2>2. QED
    BY <1>8, <2>1 DEF T!CheckedMeansBoth
<1>14. T!LastTagIsKept'
  <2>1. T!Match(tDb'[k], tDecoded')
    BY <1>3, <1>11
  <2>2. \E i \in T!Entries' : T!Match(tDb'[i], tDecoded')
    BY <1>8, <2>1
  <2>3. QED
    BY <2>2 DEF T!LastTagIsKept
<1>15. QED
  BY <1>9, <1>12, <1>13, <1>14 DEF TagDbInv

LEMMA InsertKeeps ==
  ASSUME TagDbInv, NEW e, TagStepKeeps(e), T!Insert(e)
  PROVE  TagDbInv'
<1>1. T!Searched = T!Entries
  BY EntriesAre DEF TagDbInv
<1>2. CASE {i \in T!Searched : T!Match(tDb[i], e)} = {}
  <2>1. T!Put(e)
    BY <1>2 DEF T!Insert
  <2>2. \A i \in T!Entries : ~T!Match(tDb[i], e)
    BY <1>1, <1>2
  <2>3. QED
    BY <2>1, <2>2, PutKeeps
<1>3. CASE {i \in T!Searched : T!Match(tDb[i], e)} # {}
  <2>1. PICK k \in {i \in T!Searched : T!Match(tDb[i], e)} :
          /\ tDb' = [tDb EXCEPT ![k] = T!Checked(tDb[k], e)]
          /\ tHead' = tHead /\ tCount' = tCount
    BY <1>3 DEF T!Insert
  <2>2. k \in T!Entries /\ T!Match(tDb[k], e)
    BY <1>1, <2>1
  <2>3. QED
    BY <2>1, <2>2, MatchKeeps
<1>4. QED
  BY <1>2, <1>3

TagOpens(f) == tCtx.active = FALSE \/ tCtx.tid # Tid(f.pkt) \/ tCtx.total # Total[f.pkt]
TagContext(f) == IF TagOpens(f) THEN Begun(f) ELSE tCtx
TagStored(f) == Stored(TagContext(f), f)

LEMMA TagSame ==
  ASSUME NEW f
  PROVE  /\ T!Tid(f.pkt) = Tid(f.pkt)
         /\ T!Begun(f) = Begun(f)
         /\ \A ctx : T!Stored(ctx, f) = Stored(ctx, f)
         /\ \A ctx : T!Complete(ctx) <=> Complete(ctx)
         /\ \A ctx : T!Sources(ctx) = Sources(ctx)
         /\ T!Idle = Idle
         /\ \A n : T!Arriving(n) = Arriving(n)
         /\ T!Packets = Packets
  BY DEF T!Tid, Tid, T!Begun, Begun, T!Stored, Stored, T!Complete, Complete, T!Sources,
     Sources, T!Idle, Idle, T!NothingYet, NothingYet, T!Arriving, Arriving, T!Packets, Packets

LEMMA TagDbSame ==
  ASSUME TagDbInv, UNCHANGED <<tDb, tHead, tCount, tTaken, tDecoded, tMet>>
  PROVE  TagDbInv'
<1>1. \A i : T!Age(i)' = T!Age(i)
  BY DEF T!Age
<1>2. T!Entries' = T!Entries
  BY DEF T!Entries
<1>3. TagDbPart'
  BY <1>1 DEF TagDbInv, TagDbPart
<1>4. T!DbDistinct' /\ T!CheckedMeansBoth' /\ T!LastTagIsKept'
  BY <1>2 DEF TagDbInv, T!DbDistinct, T!CheckedMeansBoth, T!LastTagIsKept
<1>5. QED
  BY <1>3, <1>4 DEF TagDbInv

LEMMA TagInit == T!Init => TagInv
<1> SUFFICES ASSUME T!Init PROVE TagInv
  OBVIOUS
<1>1. /\ tCtx = Idle /\ tBack = 0 /\ tSent = 0 /\ tHead = 0 /\ tCount = 0
      /\ tTaken = {} /\ tMet = {} /\ tHeard = {}
      /\ tDb = [i \in Slots |-> T!NoEntry]
  BY TagSame DEF T!Init, Slots
<1>2. TagRxPart
  <2>1. DOMAIN Idle.got = {}
    BY NothingYetFacts DEF Idle
  <2>2. QED
    BY <1>1, <2>1, IdleHears, NumberFacts DEF TagRxPart, TagContextIs, SentBy, MixedByRoundOnly
<1>3. tHead \in Slots /\ tCount \in 0..RFID_DB_SIZE
  BY <1>1, NumberFacts DEF Slots
<1>4. ASSUME NEW i \in Slots
      PROVE  ~(T!Age(i) < tCount)
  <2>1. T!Age(i) \in Nat
    BY <1>3, AgeFacts, NumberFacts DEF T!Age, Slots
  <2>2. QED
    BY <1>1, <2>1
<1>5. TagDbPart
  BY <1>1, <1>3, <1>4 DEF TagDbPart
<1>6. T!Entries = {}
  BY <1>1 DEF T!Entries
<1>7. QED
  BY <1>1, <1>2, <1>5, <1>6 DEF TagInv, TagDbInv, T!DbDistinct, T!CheckedMeansBoth,
     T!LastTagIsKept

\* The context into which a fragment goes is the fragment's.
LEMMA TagContextFacts ==
  ASSUME TagInv, NEW f \in Arriving(tSent)
  PROVE  /\ tSent \in Nat
         /\ TagContextIs(TagContext(f), tBack, tHeard)
         /\ TagContext(f).tid = Tid(f.pkt) /\ TagContext(f).total = Total[f.pkt]
<1>1. tSent \in Nat
  BY DEF TagInv, TagRxPart
<1>2. CASE TagOpens(f)
  BY <1>1, <1>2, BegunFacts, BegunHears DEF TagContext, TagContextIs
<1>3. CASE ~TagOpens(f)
  BY <1>1, <1>3 DEF TagContext, TagOpens, TagInv, TagRxPart
<1>4. QED
  BY <1>1, <1>2, <1>3

TagBack(f) == IF f.index = 1 THEN f.pkt ELSE tBack

\* A fragment that is stored, with others of its id, and the entry that is
\* built of them and of the second bytes, whosever they are.
LEMMA TagStoredFacts ==
  ASSUME TagInv, NEW f \in Arriving(tSent)
  PROVE  /\ TagContextIs(TagStored(f), TagBack(f), tHeard)
         /\ TagStored(f).tid = Tid(f.pkt)
         /\ TagBack(f) \in 0..MaxPackets
         /\ Complete(TagStored(f)) /\ Kind[TagStored(f).got[0]] # 0
              => /\ T!Entry(TagStored(f), TagBack(f)) \in TagEntries
                 /\ T!Entry(TagStored(f), TagBack(f)).location_check = FALSE
<1> DEFINE ctx == TagStored(f)
           back == TagBack(f)
<1>1. /\ f.pkt \in Packets /\ f.index \in Nat /\ f \in Fragments
      /\ TagContextIs(TagContext(f), tBack, tHeard) /\ TagContext(f).tid = Tid(f.pkt)
      /\ f.index < TagContext(f).total /\ tSent \in Nat
  BY TagContextFacts, ArrivingFacts
<1>2. /\ OneId(ctx) /\ SentBy(Sources(ctx), tSent) /\ HeardSince(ctx, tHeard)
      /\ ctx.tid = Tid(f.pkt) /\ f.pkt \in Sources(ctx)
  BY <1>1, JoinHears DEF TagStored, TagContextIs, TagInv, TagRxPart
<1>3. back \in 0..MaxPackets
  BY <1>1, NumberFacts DEF TagBack, TagInv, TagRxPart, Packets
<1>4. 1 \in DOMAIN ctx.got => back = ctx.got[1]
  <2>1. /\ DOMAIN ctx.got = DOMAIN TagContext(f).got \cup {f.index}
        /\ \A i \in DOMAIN TagContext(f).got : i # f.index => ctx.got[i] = TagContext(f).got[i]
        /\ ctx.got[f.index] = f.pkt
    BY <1>1, StoredFacts DEF TagStored, TagContextIs, OneId
  <2>2. QED
    BY <1>1, <2>1 DEF TagBack, TagContextIs
<1> HIDE DEF ctx, back
<1>5. ASSUME Complete(ctx), Kind[ctx.got[0]] # 0
      PROVE  T!Entry(ctx, back) \in TagEntries /\ T!Entry(ctx, back).location_check = FALSE
  <2>1. DOMAIN ctx.got = 0..(ctx.total - 1) /\ ctx.total \in Nat
    BY <1>2, <1>5 DEF Complete, OneId, Contexts
  <2>2. 0 \in DOMAIN ctx.got
    BY <1>2, <2>1 DEF Sources
  <2>3. PICK p \in Packets : ctx.got[0] = p
    BY <1>2, <2>2 DEF OneId, Contexts
  <2>4. Kind[p] \in Nat \ {0}
    BY <1>5, <2>3, TagFacts
  <2>5. /\ Front[p].id \in Nat /\ Front[p].location \in Nat /\ Front[p].low \in Nat
        /\ T!Behind(back).high \in Nat /\ T!Behind(back).is_duplicate \in BOOLEAN
    BY <1>3, TagFacts
  <2>6. Front[p].low + 2 * T!Behind(back).high \in Nat
    BY <2>5
  <2> DEFINE here == <<Front[p].id, Front[p].location>>
             there == <<Front[p].low + 2 * T!Behind(back).high>>
             place == T!Decoded(ctx, back).place
  <2>7. place = IF Kind[p] = T!RFID_TAG_JUNCTION THEN here \o there ELSE here
    BY <2>3 DEF T!Decoded
  <2>8. /\ here \in Seq(Nat) /\ Len(here) = 2
        /\ here \o there \in Seq(Nat) /\ Len(here \o there) = 3
    <3>1. here \in Seq(Nat) /\ Len(here) = 2
      BY <2>5
    <3>2. there \in Seq(Nat) /\ Len(there) = 1
      BY <2>6
    <3> HIDE DEF here, there
    <3>3. here \o there \in Seq(Nat) /\ Len(here \o there) = Len(here) + Len(there)
      BY <3>1, <3>2, ConcatProperties
    <3>4. QED
      BY <3>1, <3>2, <3>3
  <2>9. T!Decoded(ctx, back).spare \in BOOLEAN
    BY <2>5 DEF T!Decoded
  <2>10. /\ T!Entry(ctx, back).kind = Kind[p] /\ T!Entry(ctx, back).place = place
         /\ T!Entry(ctx, back).location_check = FALSE
         /\ T!Entry(ctx, back) = [kind |-> Kind[p], place |-> place,
                                  spare |-> T!Decoded(ctx, back).spare, location_check |-> FALSE]
    BY <2>3 DEF T!Entry
  <2> HIDE DEF here, there, place
  <2>11. place \in Seq(Nat) /\ Len(place) = IF Kind[p] = T!RFID_TAG_JUNCTION THEN 3 ELSE 2
    BY <2>7, <2>8
  <2>12. T!Entry(ctx, back) \in [kind : Nat \ {0}, place : Seq(Nat), spare : BOOLEAN,
                                 location_check : BOOLEAN]
    BY <2>4, <2>9, <2>10, <2>11
  <2>13. QED
    BY <2>10, <2>11, <2>12 DEF TagEntries
<1>6. QED
  BY <1>2, <1>3, <1>4, <1>5 DEF ctx, back, TagContextIs

\* The four ways of a fragment.
LEMMA TagHandleSays ==
  ASSUME NEW f, T!RxHandle(f)
  PROVE  LET ctx == TagStored(f)
             e == T!Entry(ctx, TagBack(f))
         IN /\ tSent' = tSent
            /\ \/ /\ tHeard' = tHeard
                  /\ UNCHANGED <<tCtx, tBack, tDb, tHead, tCount, tTaken, tDecoded, tMet>>
               \/ /\ ~TagOpens(f)
                  /\ tHeard' = tHeard \cup {f.pkt} \/ tHeard' = tHeard
                  /\ UNCHANGED <<tCtx, tBack, tDb, tHead, tCount, tTaken, tDecoded, tMet>>
               \/ /\ tHeard' = tHeard \cup {f.pkt} \/ tHeard' = tHeard
                  /\ tBack' = TagBack(f)
                  /\ \/ /\ tCtx' = ctx
                        /\ UNCHANGED <<tDb, tHead, tCount, tTaken, tDecoded, tMet>>
                     \/ /\ Complete(ctx) /\ Kind[ctx.got[0]] # 0
                        /\ tCtx' = Idle /\ T!Insert(e)
                        /\ tTaken' = Sources(ctx) /\ tDecoded' = e /\ tMet' = tMet \cup {e}
<1>1. /\ T!Stored(T!ContextFor(f), f) = TagStored(f)
      /\ T!Opens(f) <=> TagOpens(f)
  BY TagSame DEF T!ContextFor, T!Opens, TagContext, TagOpens, TagStored
<1>2. /\ tSent' = tSent
      /\ tHeard' = IF f.index = 0 /\ ~T!Rejected(f) THEN tHeard \cup {f.pkt} ELSE tHeard
  BY DEF T!RxHandle
<1>3. CASE T!Rejected(f) \/ T!Ignored(f)
  <2>1. UNCHANGED <<tCtx, tBack, tDb, tHead, tCount, tTaken, tDecoded, tMet>>
    BY <1>3 DEF T!RxHandle, T!dbVars
  <2>2. CASE T!Rejected(f) \/ f.index # 0
    BY <1>2, <2>1, <2>2
  <2>3. CASE ~T!Rejected(f) /\ f.index = 0
    <3>1. f.index \in DOMAIN T!ContextFor(f).got
      BY <1>3, <2>3 DEF T!Ignored
    <3>2. DOMAIN T!Begun(f).got = {}
      BY DEF T!Begun, T!Idle, T!NothingYet
    <3>3. ~TagOpens(f)
      BY <1>1, <3>1, <3>2 DEF T!ContextFor
    <3>4. QED
      BY <1>2, <2>1, <3>3
  <2>4. QED
    BY <2>2, <2>3
<1>4. CASE ~(T!Rejected(f) \/ T!Ignored(f))
  <2>1. T!Store(f)
    BY <1>4 DEF T!RxHandle
  <2>2. tBack' = TagBack(f)
    BY <2>1 DEF T!Store, TagBack
  <2>3. \/ /\ tCtx' = TagStored(f)
           /\ UNCHANGED <<tDb, tHead, tCount, tTaken, tDecoded, tMet>>
        \/ /\ T!Complete(TagStored(f)) /\ Kind[TagStored(f).got[0]] # 0
           /\ tCtx' = T!Idle /\ T!Insert(T!Entry(TagStored(f), TagBack(f)))
           /\ tTaken' = T!Sources(TagStored(f))
           /\ tDecoded' = T!Entry(TagStored(f), TagBack(f))
           /\ tMet' = tMet \cup {T!Entry(TagStored(f), TagBack(f))}
    BY <1>1, <2>1 DEF T!Store, T!dbVars, TagBack
  <2>4. tHeard' = tHeard \cup {f.pkt} \/ tHeard' = tHeard
    BY <1>2
  <2>5. QED
    BY <1>2, <2>2, <2>3, <2>4, TagSame
<1>5. QED
  BY <1>3, <1>4

LEMMA TagHandleKeeps ==
  ASSUME TagInv, NEW f \in Arriving(tSent), T!RxHandle(f)
  PROVE  TagInv'
<1> DEFINE ctx == TagStored(f)
           e == T!Entry(ctx, TagBack(f))
<1>1. /\ tSent \in 0..MaxPackets /\ tSent \in Nat /\ tBack \in 0..MaxPackets
      /\ TagContextIs(tCtx, tBack, tHeard)
      /\ SentBy(tHeard, tSent) /\ SentBy(tTaken, tSent) /\ MixedByRoundOnly(tTaken, tHeard)
  BY DEF TagInv, TagRxPart
<1>2. /\ TagContextIs(ctx, TagBack(f), tHeard) /\ ctx.tid = Tid(f.pkt)
      /\ TagBack(f) \in 0..MaxPackets
      /\ Complete(ctx) /\ Kind[ctx.got[0]] # 0
           => e \in TagEntries /\ e.location_check = FALSE
  BY TagStoredFacts
<1>3. /\ tSent' = tSent
      /\ \/ /\ tHeard' = tHeard
            /\ UNCHANGED <<tCtx, tBack, tDb, tHead, tCount, tTaken, tDecoded, tMet>>
         \/ /\ ~TagOpens(f)
            /\ tHeard' = tHeard \cup {f.pkt} \/ tHeard' = tHeard
            /\ UNCHANGED <<tCtx, tBack, tDb, tHead, tCount, tTaken, tDecoded, tMet>>
         \/ /\ tHeard' = tHeard \cup {f.pkt} \/ tHeard' = tHeard
            /\ tBack' = TagBack(f)
            /\ \/ /\ tCtx' = ctx
                  /\ UNCHANGED <<tDb, tHead, tCount, tTaken, tDecoded, tMet>>
               \/ /\ Complete(ctx) /\ Kind[ctx.got[0]] # 0
                  /\ tCtx' = Idle /\ T!Insert(e)
                  /\ tTaken' = Sources(ctx) /\ tDecoded' = e /\ tMet' = tMet \cup {e}
  BY TagHandleSays
<1>4. f.pkt \in Packets /\ f.pkt <= tSent
  BY <1>1, ArrivingFacts
<1> HIDE DEF ctx, e
<1>5. tHeard' = tHeard \cup {f.pkt} \/ tHeard' = tHeard
  BY <1>3
<1>6. SentBy(tHeard', tSent) /\ MixedByRoundOnly(tTaken, tHeard')
  BY <1>1, <1>4, <1>5, TakenHears DEF SentBy
<1>7. TagContextIs(ctx, TagBack(f), tHeard')
  BY <1>2, <1>5, HearMore DEF TagContextIs
<1>8. ASSUME TagContextIs(tCtx', tBack', tHeard'), tBack' \in 0..MaxPackets,
             UNCHANGED <<tDb, tHead, tCount, tTaken, tDecoded, tMet>>
      PROVE  TagInv'
  <2>1. TagDbInv'
    BY <1>8, TagDbSame DEF TagInv
  <2>2. TagRxPart'
    BY <1>1, <1>3, <1>6, <1>8 DEF TagRxPart, TagContextIs, OneId, SentBy, HeardSince, Sources,
       MixedByRoundOnly
  <2>3. QED
    BY <2>1, <2>2 DEF TagInv
<1>9. CASE /\ tHeard' = tHeard
           /\ UNCHANGED <<tCtx, tBack, tDb, tHead, tCount, tTaken, tDecoded, tMet>>
  BY <1>1, <1>8, <1>9
<1>10. CASE /\ ~TagOpens(f)
            /\ UNCHANGED <<tCtx, tBack, tDb, tHead, tCount, tTaken, tDecoded, tMet>>
  <2>1. TagContextIs(tCtx, tBack, tHeard')
    BY <1>1, <1>5, <1>10, HearMore DEF TagContextIs, TagOpens
  <2>2. QED
    BY <1>1, <1>8, <1>10, <2>1
<1>11. CASE /\ tBack' = TagBack(f) /\ tCtx' = ctx
            /\ UNCHANGED <<tDb, tHead, tCount, tTaken, tDecoded, tMet>>
  BY <1>2, <1>7, <1>8, <1>11
<1>12. CASE /\ tBack' = TagBack(f)
            /\ Complete(ctx) /\ Kind[ctx.got[0]] # 0
            /\ tCtx' = Idle /\ T!Insert(e)
            /\ tTaken' = Sources(ctx) /\ tDecoded' = e /\ tMet' = tMet \cup {e}
  <2>1. TagStepKeeps(e)
    BY <1>2, <1>12 DEF TagStepKeeps
  <2>2. TagDbInv'
    BY <1>12, <2>1, InsertKeeps DEF TagInv
  <2>3. TagContextIs(tCtx', tBack', tHeard')
    <3>1. DOMAIN Idle.got = {}
      BY NothingYetFacts DEF Idle
    <3>2. QED
      BY <1>12, <3>1, IdleHears DEF TagContextIs
  <2>4. MixedByRoundOnly(tTaken', tHeard') /\ SentBy(tTaken', tSent)
    BY <1>7, <1>12, ContextMixes DEF TagContextIs
  <2>5. tBack' \in 0..MaxPackets
    BY <1>2, <1>12
  <2>6. TagRxPart'
    BY <1>1, <1>3, <1>6, <2>3, <2>4, <2>5 DEF TagRxPart, TagContextIs, OneId, SentBy, HeardSince,
       Sources, MixedByRoundOnly
  <2>7. QED
    BY <2>2, <2>6 DEF TagInv
<1>13. QED
  BY <1>3, <1>9, <1>10, <1>11, <1>12

LEMMA TagNextKeeps ==
  ASSUME TagInv, T!Next \/ UNCHANGED tVars
  PROVE  TagInv'
<1>1. CASE T!Read
  <2>1. /\ tSent < MaxPackets /\ tSent' = tSent + 1
        /\ UNCHANGED <<tCtx, tBack, tDb, tHead, tCount, tTaken, tDecoded, tMet, tHeard>>
    BY <1>1 DEF T!Read, T!dbVars
  <2>2. TagDbInv'
    BY <2>1, TagDbSame DEF TagInv
  <2>3. tSent \in Nat /\ tSent' \in Nat /\ tSent <= tSent' /\ tSent' \in 0..MaxPackets
    BY <2>1, NumberFacts DEF TagInv, TagRxPart
  <2>4. /\ SentBy(Sources(tCtx), tSent') /\ SentBy(tHeard, tSent') /\ SentBy(tTaken, tSent')
    BY <2>3, SentByGrows DEF TagInv, TagRxPart, TagContextIs
  <2>5. TagRxPart'
    BY <2>1, <2>3, <2>4 DEF TagInv, TagRxPart, TagContextIs, OneId, SentBy, HeardSince, Sources,
       MixedByRoundOnly
  <2>6. QED
    BY <2>2, <2>5 DEF TagInv
<1>2. ASSUME NEW f \in Arriving(tSent), T!RxHandle(f)
      PROVE  TagInv'
  BY <1>2, TagHandleKeeps
<1>3. CASE UNCHANGED tVars
  <2>1. UNCHANGED <<tCtx, tBack, tDb, tHead, tCount, tSent, tTaken, tDecoded, tMet, tHeard>>
    BY <1>3 DEF tVars
  <2>2. TagDbInv'
    BY <2>1, TagDbSame DEF TagInv
  <2>3. TagRxPart'
    BY <2>1 DEF TagInv, TagRxPart, TagContextIs, OneId, SentBy, HeardSince, Sources,
       MixedByRoundOnly
  <2>4. QED
    BY <2>2, <2>3 DEF TagInv
<1>4. QED
  BY <1>1, <1>2, <1>3, TagSame DEF T!Next

LEMMA TagInvSays == TagInv => T!TypeOK /\ T!TagMixesByRoundOnly /\ TagsAreKept
<1> SUFFICES ASSUME TagInv PROVE T!TypeOK /\ T!TagMixesByRoundOnly /\ TagsAreKept
  OBVIOUS
<1>1. T!IsContext(tCtx)
  <2>1. /\ tCtx.active \in BOOLEAN /\ tCtx.tid \in 0..(TidMod - 1) /\ tCtx.total \in Nat
        /\ DOMAIN tCtx.got \subseteq 0..(tCtx.total - 1)
        /\ \A i \in DOMAIN tCtx.got : tCtx.got[i] \in Packets
    BY DEF TagInv, TagRxPart, TagContextIs, OneId, Contexts
  <2>2. QED
    BY <2>1 DEF T!IsContext, T!Sources, T!Packets, Packets
<1>2. tTaken \subseteq T!Packets /\ tHeard \subseteq T!Packets
  BY DEF TagInv, TagRxPart, SentBy, T!Packets, Packets
<1>3. T!TypeOK
  BY <1>1, <1>2 DEF T!TypeOK, TagInv, TagRxPart, TagDbInv, TagDbPart, Slots
<1>4. T!TagMixesByRoundOnly
  BY DEF TagInv, TagRxPart, T!TagMixesByRoundOnly, T!MixedByRoundOnly, MixedByRoundOnly,
     T!Tid, Tid
<1>5. TagsAreKept
  BY DEF TagInv, TagRxPart, TagContextIs, TagDbInv, T!SecondIsOwn, TagsAreKept
<1>6. QED
  BY <1>3, <1>4, <1>5

-----------------------------------------------------------------------------
(* The receivers together *)

RxInv == RadioInv /\ KmsInv /\ TagInv /\ StatusInv

\* What the two action properties of the run say of a step.
StepInOrder ==
  /\ R!AcceptsInOrder /\ R!WelcomesSuccessor
  /\ K!AcceptsInOrder
  /\ P!TakesInOrder /\ P!WelcomesSuccessor

StepTellsTaken ==
  /\ R!AcksLast /\ P!AcksTaken
  /\ which = "panel" => P!EventsAreChanges
  /\ which = "card" => C!EventsAreChanges

LEMMA RxInit == Init => RxInv
  BY RadioInit, KmsInit, TagInit, StatusInit DEF Init, RxInv

\* A step of one receiver is none of the others.
LEMMA RxNextKeeps ==
  ASSUME RxInv, [Next]_vars
  PROVE  RxInv' /\ StepInOrder /\ StepTellsTaken
<1>1. /\ R!Next \/ UNCHANGED rVars
      /\ K!Next \/ UNCHANGED kVars
      /\ T!Next \/ UNCHANGED tVars
      /\ P!Next \/ C!Next \/ UNCHANGED sVars
      /\ which = "panel" => P!Next \/ UNCHANGED sVars
      /\ which = "card" => C!Next \/ UNCHANGED sVars
  BY DEF Next, KmsStep, vars
<1>2. RadioInv' /\ RadioStepRight
  BY <1>1, RadioNextKeeps DEF RxInv
<1>3. KmsInv' /\ K!AcceptsInOrder
  BY <1>1, KmsNextKeeps DEF RxInv
<1>4. TagInv'
  BY <1>1, TagNextKeeps DEF RxInv
<1>5. StatusInv' /\ StatusStepRight
  BY <1>1, StatusNextKeeps DEF RxInv
<1>6. /\ which = "panel" => P!EventsAreChanges
      /\ which = "card" => C!EventsAreChanges
  BY <1>1, PanelLogsChanges, CardLogsChanges DEF RxInv
<1>7. RxInv'
  BY <1>2, <1>3, <1>4, <1>5 DEF RxInv
<1>8. QED
  BY <1>2, <1>3, <1>5, <1>6, <1>7 DEF StepInOrder, StepTellsTaken, RadioStepRight,
     StatusStepRight

\* The invariant of the four receivers.  In kms.c the context holds fragments
\* of one message, being dropped before the id comes round.  In radio.c and
\* rfid_rx.c, where it lies there as long as nothing replaces it, they are of
\* one id, and since the oldest of them nothing sent much later has been heard
\* that begins with another id.  The id that radio.c, kms.c and the status
\* handlers expect is that after the last packet taken over.
THEOREM Invariance == FairSpec => []RxInv
<1>1. RxInv /\ [Next]_vars => RxInv'
  BY RxNextKeeps
<1>2. QED
  BY <1>1, RxInit, PTL DEF FairSpec, Spec

\* kms_rx_handle never takes over a message whose fragments are of two,
\* whatever fragments come, late, twice or in whatever order.  radio_rx_handle
\* and rfid_rx_handle, without a timeout, do so only when the ids have gone
\* round and fragment 0 of no packet between was heard with another id.
THEOREM PacketsMixSeldom == FairSpec => []PacketsMixByRoundOnly
<1>1. RxInv => PacketsMixByRoundOnly
  BY RadioInvSays, KmsInvSays, TagInvSays, StatusInvSays DEF RxInv, PacketsMixByRoundOnly, TypeOK
<1>2. QED
  BY <1>1, Invariance, PTL

\* rfid_process_complete_tag: in a ring of any size, full or not, no place has
\* two entries, the last tag decoded is among them, and a location is checked
\* only by two decodings that match there with different duplicate bits.  The
\* second fragment in the context is the one whose bytes are in the buffer.
THEOREM TagsStayKept == FairSpec => []TagsAreKept
<1>1. RxInv => TagsAreKept
  BY TagInvSays DEF RxInv
<1>2. QED
  BY <1>1, Invariance, PTL

\* The checks of the transaction id in radio.c, kms.c, SMOCIP.c and
\* input_card.c let packets pass in the order in which they were sent, none
\* twice, and never turn away the one that is due.
THEOREM ReceivesInOrder == FairSpec => TakenInOrder
<1>1. RxInv /\ [Next]_vars => [StepInOrder]_vars
  BY RxNextKeeps
<1>2. FairSpec => [][StepInOrder]_vars
  BY <1>1, Invariance, PTL DEF FairSpec, Spec
<1>3. QED
  BY <1>2 DEF TakenInOrder, StepInOrder

\* What is told of a packet, the ACK and the events logged, is what has been
\* taken over of it.
THEOREM TellsWhatIsTaken == FairSpec => ToldIsTaken
<1>1. RxInv /\ [Next]_vars => [StepTellsTaken]_vars
  BY RxNextKeeps
<1>2. FairSpec => [][StepTellsTaken]_vars
  BY <1>1, Invariance, PTL DEF FairSpec, Spec
<1>3. QED
  BY <1>2 DEF ToldIsTaken, StepTellsTaken
=============================================================================
