------------------------------- MODULE RfidRx -------------------------------
(***************************************************************************)
(* Tags from the two RFID readers (rfid_rx_handle in Drivers/rfid_rx.c):   *)
(* reassembled in one context for both, decoded, and kept in rfid_db if no *)
(* entry matches.  Two tags lie at each place, one the duplicate of the    *)
(* other: an entry met by both has its location checked.                   *)
(*                                                                         *)
(* The readers are taken to number the tags alike.  rfid_rx_poll, which    *)
(* would drop an old partial tag, has no caller: it lies in the context    *)
(* until fragment 0 of another id, or of another number of fragments,      *)
(* comes.                                                                  *)
(*                                                                         *)
(* The bytes of a tag are at fixed places in rfid_ctx.data, which is never *)
(* cleared.  A tag of one fragment is decoded with the second seven bytes  *)
(* of the last tag that had two.                                           *)
(***************************************************************************)
EXTENDS Reassembly, Sequences

CONSTANTS
  RFID_DB_SIZE,
  Kind,       \* the type of each tag, 0 if it is not known
  Front,      \* its first seven bytes: id, location, and the lowest bit (low)
              \* of a junction's second location
  Back        \* the second seven: the higher bits (high) of that location, and
              \* is_duplicate

VARIABLES
  rfid_ctx,
  second,           \* the tag whose bytes are in rfid_ctx.data[7..13], or 0
  rfid_db,          \* entries, or NoEntry
  rfid_db_head,
  rfid_db_count,
  \* The readers (external).
  sent,             \* tags read so far
  \* History.
  taken,            \* the tags the fragments of the last one decoded are of
  decoded,          \* the last entry built
  met,              \* all the entries built, as they were built
  heard             \* the tags whose fragment 0 has come

dbVars == <<rfid_db, rfid_db_head, rfid_db_count>>
vars == <<rfid_ctx, second, dbVars, sent, taken, decoded, met, heard>>

RFID_MAX_FRAGMENTS == 2
RFID_TAG_JUNCTION == 4

NoEntry == [kind |-> 0, place |-> <<0>>, spare |-> FALSE, location_check |-> FALSE]

(***************************************************************************)
(* Slips a programmer could make in the definitions below.  Nothing uses   *)
(* them: put in the place of the originals, they make the properties fail. *)
(***************************************************************************)

\* The search does not look at the newest entry.
SearchedButNewest ==
  {i \in 0..(rfid_db_count - 1) : i # (rfid_db_head + RFID_DB_SIZE - 1) % RFID_DB_SIZE}

-----------------------------------------------------------------------------
Init ==
  /\ rfid_ctx = Idle /\ second = 0
  /\ rfid_db = [i \in 0..(RFID_DB_SIZE - 1) |-> NoEntry]
  /\ rfid_db_head = 0 /\ rfid_db_count = 0
  /\ sent = 0
  /\ taken = {} /\ decoded = NoEntry /\ met = {} /\ heard = {}

\* A reader comes to the next tag (external).
Read ==
  /\ sent < MaxPackets
  /\ sent' = sent + 1
  /\ UNCHANGED <<rfid_ctx, second, dbVars, taken, decoded, met, heard>>

(***************************************************************************)
(* The database.                                                           *)
(***************************************************************************)

\* The same type and id, and the same location: one of them, at a junction.
Match(old, e) ==
  /\ old.kind = e.kind
  /\ old.place[1] = e.place[1]
  /\ \E i \in 2..Len(e.place) : old.place[i] = e.place[i]

\* How many entries have been put in after the one at index i.
Age(i) == (rfid_db_head + RFID_DB_SIZE - 1 - i) % RFID_DB_SIZE

\* The entries searched.
Searched == {i \in 0..(RFID_DB_SIZE - 1) : Age(i) < rfid_db_count}

\* The entry in the database when e matches it.
Checked(old, e) ==
  IF old.spare # e.spare THEN [old EXCEPT !.location_check = TRUE] ELSE old

NextHead == (rfid_db_head + 1) % RFID_DB_SIZE

Put(e) ==
  /\ rfid_db' = [rfid_db EXCEPT ![rfid_db_head] = e]
  /\ rfid_db_head' = NextHead
  /\ rfid_db_count' = IF rfid_db_count < RFID_DB_SIZE THEN rfid_db_count + 1
                                                      ELSE rfid_db_count

Insert(e) ==
  LET matching == {i \in Searched : Match(rfid_db[i], e)}
  IN IF matching = {} THEN Put(e)
     ELSE \E i \in matching :
            /\ \A j \in matching : Age(i) <= Age(j)
            /\ rfid_db' = [rfid_db EXCEPT ![i] = Checked(@, e)]
            /\ UNCHANGED <<rfid_db_head, rfid_db_count>>

(***************************************************************************)
(* Reassembly.                                                             *)
(***************************************************************************)
Opens(f) ==
  \/ ~rfid_ctx.active
  \/ rfid_ctx.tid # Tid(f.pkt)
  \/ rfid_ctx.total # Total[f.pkt]

ContextFor(f) == IF Opens(f) THEN Begun(f) ELSE rfid_ctx

\* What the second seven bytes say when they are those of tag p.
Behind(p) == IF p = 0 THEN [high |-> 0, is_duplicate |-> FALSE] ELSE Back[p]

\* rfid_decode_normal_tag and its like, with the second seven bytes of tag p.
Decoded(ctx, p) ==
  LET front == Front[ctx.got[0]]
      here == <<front.id, front.location>>
  IN [place |-> IF Kind[ctx.got[0]] = RFID_TAG_JUNCTION
                THEN here \o <<front.low + 2 * Behind(p).high>> ELSE here,
      spare |-> Behind(p).is_duplicate]

Entry(ctx, p) ==
  [kind |-> Kind[ctx.got[0]], place |-> Decoded(ctx, p).place, spare |-> Decoded(ctx, p).spare,
   location_check |-> FALSE]

\* rfid_process_complete_tag.  A tag of unknown type leaves the context as it
\* is, complete: its repetitions are then ignored.
Store(f) ==
  LET ctx == Stored(ContextFor(f), f)
      back == IF f.index = 1 THEN f.pkt ELSE second
  IN /\ second' = back
     /\ IF Complete(ctx) /\ Kind[ctx.got[0]] # 0
        THEN /\ rfid_ctx' = Idle
             /\ Insert(Entry(ctx, back))
             /\ taken' = Sources(ctx)
             /\ decoded' = Entry(ctx, back)
             /\ met' = met \cup {Entry(ctx, back)}
        ELSE rfid_ctx' = ctx /\ UNCHANGED <<dbVars, taken, decoded, met>>

Rejected(f) == Total[f.pkt] > RFID_MAX_FRAGMENTS

\* Only fragment 0 opens a context; a fragment that is there is ignored.
Ignored(f) == f.index \in DOMAIN ContextFor(f).got \/ (Opens(f) /\ f.index # 0)

RxHandle(f) ==
  /\ IF Rejected(f) \/ Ignored(f)
     THEN UNCHANGED <<rfid_ctx, second, dbVars, taken, decoded, met>>
     ELSE Store(f)
  /\ heard' = IF f.index = 0 /\ ~Rejected(f) THEN heard \cup {f.pkt} ELSE heard
  /\ UNCHANGED sent

Next ==
  \/ Read
  \/ \E f \in Arriving(sent) : RxHandle(f)

Spec == Init /\ [][Next]_vars

-----------------------------------------------------------------------------
(* Properties *)

TypeOK ==
  /\ IsContext(rfid_ctx)
  /\ rfid_db_head \in 0..(RFID_DB_SIZE - 1)
  /\ rfid_db_count \in 0..RFID_DB_SIZE
  /\ DOMAIN rfid_db = 0..(RFID_DB_SIZE - 1)
  /\ sent \in 0..MaxPackets /\ second \in 0..MaxPackets
  /\ taken \subseteq Packets /\ heard \subseteq Packets

\* A tag is decoded from the fragments of one tag, though both readers write
\* into one context, unless the ids have gone round without a first fragment
\* of the tags between.
TagMixesByRoundOnly == MixedByRoundOnly(taken, heard)

\* The second seven bytes, never cleared, are those of the second fragment in
\* the context as soon as one is there.
SecondIsOwn == 1 \in DOMAIN rfid_ctx.got => second = rfid_ctx.got[1]

Entries == {i \in DOMAIN rfid_db : rfid_db[i] # NoEntry}

\* No two entries of the database are of one place.
DbDistinct == \A i, j \in Entries : i # j => ~Match(rfid_db[i], rfid_db[j])

\* A location is called checked only if two tags decoded match there and one
\* is a duplicate, the other not.  (Of a tag of one fragment that bit is what
\* an earlier tag has left in data[11]: read twice, it may match itself.)
CheckedMeansBoth ==
  \A i \in Entries : rfid_db[i].location_check =>
    \E e \in met : Match(e, rfid_db[i]) /\ e.spare # rfid_db[i].spare

\* The last tag decoded is found in the database, however full that was.
LastTagIsKept == taken # {} => \E i \in Entries : Match(rfid_db[i], decoded)
=============================================================================
