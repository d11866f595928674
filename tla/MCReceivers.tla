---------------------------- MODULE MCReceivers ----------------------------
(***************************************************************************)
(* The receivers of radio packets, KMS messages, RFID tags and status      *)
(* frames for TLC.  They share no variable, so a behaviour runs one of     *)
(* them (which) and leaves the others alone.                               *)
(***************************************************************************)
EXTENDS Reassembly, Sequences

CONSTANTS
  RxTimeout, QueryTimeout, MaxRetries, MaxQueries, RFID_DB_SIZE,
  RadioData, RadioParsed,     \* Data and Parsed of RadioRx
  KmsData, KmsValid,          \* Data and Valid of Kms
  Kind, Front, Back,          \* of RfidRx
  Value                       \* of StatusRx

\* Transaction ids take longer to come round than a message may be late and
\* its context last.
ASSUME ReceiversAssumption ==
  /\ MaxPackets # 0
  /\ RxTimeout \in Nat /\ QueryTimeout \in Nat \ {0}
  /\ MaxRetries \in Nat /\ MaxQueries \in Nat /\ RFID_DB_SIZE \in Nat \ {0}
  /\ MaxLate + RxTimeout + 2 < TidMod
  /\ Kind \in [Packets -> Nat]
  /\ Front \in [Packets -> [id : Nat, location : Nat, low : {0, 1}]]
  /\ Back \in [Packets -> [high : Nat, is_duplicate : BOOLEAN]]

VARIABLES
  which,        \* the receiver that runs
  rCtx, rLast, rExpected, rSent, rAccepted, rTaken, rConflict, rAcked, rHeard,
  kCtx, kAge, kLast, kExpected, kPending, kRetries, kQueryAge, kSecond, kSent, kRested,
  kAccepted, kTaken, kAsked, kTries, kFailed,
  tCtx, tBack, tDb, tHead, tCount, tSent, tTaken, tDecoded, tMet, tHeard,
  \* Those of StatusRx, by their names.
  saved, last, expected, inputs, sent, bus, taken, events, acked, refused

\* The seventh packet has the content, and the transaction id, of the second.
MCTotal == [p \in Packets |-> CASE p \in {3, 6} -> 1 [] p = 4 -> 3 [] OTHER -> 2]
MCRadioData == [p \in Packets |-> IF p = 7 THEN 2 ELSE p]
MCRadioParsed == Packets \ {2}

MCKmsData == [p \in Packets |-> p]
MCKmsValid == Packets \ {3}

\* Two normal tags at one place, one of an unknown type, one of three fragments,
\* and three at a junction, of which the sixth has one fragment.
MCKind == [p \in Packets |-> CASE p = 3 -> 0 [] p >= 5 -> 4 [] OTHER -> 9]
MCFront == [p \in Packets |-> [id |-> 1, location |-> IF p >= 6 THEN 2 ELSE 1, low |-> 0]]
MCBack == [p \in Packets |-> [high |-> IF p \in {5, 7} THEN 1 ELSE 0,
                              is_duplicate |-> p \in {2, 7}]]

\* A panel or an input card, whose seventh record is like its second.
MCValue == [p \in Packets |-> CASE p \in {2, 7} -> {1} [] p \in {3, 6} -> {1, 2}
                                [] p = 4 -> {2} [] OTHER -> {}]

R == INSTANCE RadioRx WITH
  Data <- RadioData, Parsed <- RadioParsed,
  radio_rx_ctx <- rCtx, radio_rx_last <- rLast,
  radio_rx_expected_transaction_id <- rExpected, sent <- rSent,
  accepted <- rAccepted, taken <- rTaken, conflict <- rConflict, acked <- rAcked,
  heard <- rHeard

K == INSTANCE Kms WITH
  Data <- KmsData, Valid <- KmsValid,
  kms_rx_context <- kCtx, rx_age <- kAge, kms_rx_last <- kLast,
  kms_rx_expected_transaction_id <- kExpected, kms_query_pending <- kPending,
  kms_query_retry_count <- kRetries, query_age <- kQueryAge, second_due <- kSecond,
  sent <- kSent, rested <- kRested, accepted <- kAccepted, taken <- kTaken,
  asked <- kAsked, tries <- kTries, failed <- kFailed

T == INSTANCE RfidRx WITH
  rfid_ctx <- tCtx, second <- tBack, rfid_db <- tDb, rfid_db_head <- tHead,
  rfid_db_count <- tCount, sent <- tSent, taken <- tTaken, decoded <- tDecoded,
  met <- tMet, heard <- tHeard

P == INSTANCE StatusRx WITH Panel <- TRUE
C == INSTANCE StatusRx WITH Panel <- FALSE

rVars == <<rCtx, rLast, rExpected, rSent, rAccepted, rTaken, rConflict, rAcked, rHeard>>
kVars == <<kCtx, kAge, kLast, kExpected, kPending, kRetries, kQueryAge, kSecond, kSent,
           kRested, kAccepted, kTaken, kAsked, kTries, kFailed>>
tVars == <<tCtx, tBack, tDb, tHead, tCount, tSent, tTaken, tDecoded, tMet, tHeard>>
sVars == <<saved, last, expected, inputs, sent, bus, taken, events, acked,
           refused>>
vars == <<which, rVars, kVars, tVars, sVars>>

Init ==
  /\ which \in {"radio", "kms", "rfid", "panel", "card"}
  /\ R!Init /\ K!Init /\ T!Init /\ P!Init

KmsStep(A) == which = "kms" /\ A /\ UNCHANGED <<which, rVars, tVars, sVars>>

Next ==
  \/ which = "radio" /\ R!Next /\ UNCHANGED <<which, kVars, tVars, sVars>>
  \/ KmsStep(K!Next)
  \/ which = "rfid" /\ T!Next /\ UNCHANGED <<which, rVars, kVars, sVars>>
  \/ which = "panel" /\ P!Next /\ UNCHANGED <<which, rVars, kVars, tVars>>
  \/ which = "card" /\ C!Next /\ UNCHANGED <<which, rVars, kVars, tVars>>

Spec == Init /\ [][Next]_vars

\* The one-second interrupt comes, and the main loop runs its task.
RxFairness == WF_vars(KmsStep(K!Second)) /\ WF_vars(KmsStep(K!Process1s))

FairSpec == Spec /\ RxFairness

-----------------------------------------------------------------------------
(* The properties of the four modules, under the names the runs give them. *)

\* All receivers keep the types of their variables.
TypeOK == R!TypeOK /\ K!TypeOK /\ T!TypeOK /\ P!TypeOK

\* kms.c takes over no message mixed from two; radio.c and rfid_rx.c, whose
\* partial packets are never dropped for their age, mix two only when the ids
\* have gone round and they have heard no first fragment in between.
PacketsMixByRoundOnly ==
  TypeOK /\ K!MessageIsWhole /\ R!PacketMixesByRoundOnly /\ T!TagMixesByRoundOnly

\* Packets, messages and status records are taken over in the order in which
\* they were sent, each at most once, and the radio packet or status record
\* that is due is never refused, whatever was refused before it.
TakenInOrder ==
  [][/\ R!AcceptsInOrder /\ R!WelcomesSuccessor
     /\ K!AcceptsInOrder
     /\ P!TakesInOrder /\ P!WelcomesSuccessor]_vars

\* What is told is what has been taken over: an ACK to a radio or to the
\* sender of a status record is for the values of the last one, and the events
\* logged by the panel's and by the cards' handler are what it changed.
ToldIsTaken ==
  [][/\ R!AcksLast /\ P!AcksTaken
     /\ which = "panel" => P!EventsAreChanges
     /\ which = "card" => C!EventsAreChanges]_vars

\* The tag database (rfid_db) holds each place once, the last tag among them,
\* with a location checked only by two decodings that match there and differ in
\* the duplicate bit; the bytes that a tag of two fragments is decoded from, in
\* a buffer that is never cleared, are its own.
TagsAreKept == T!SecondIsOwn /\ T!DbDistinct /\ T!LastTagIsKept /\ T!CheckedMeansBoth

\* A key query always ends.
QueryEnds == K!EveryQueryEnds
=============================================================================
