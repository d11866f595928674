-------------------------- MODULE CanManagerProofs --------------------------
(***************************************************************************)
(* The verdicts of the CAN manager, for every set of cards, of mandatory   *)
(* ones and of combined checksums, and every length of the periods; and    *)
(* the buffer of the packets from trains, for all packets.                 *)
(***************************************************************************)
EXTENDS CanManager, RadioPackets, TLAPS

\* The events are those of the last round: its mask has been taken over, and
\* it is one of active devices.
LoggedIsVerdict ==
  /\ last_logged_hb_miss_mask = hb_miss_mask
  /\ hb_miss_mask \subseteq ActiveDevices

\* The answers handled since the last heartbeat are in the mask.
AnswersAreKept == answered \cap ActiveDevices \subseteq hb_ack_bitmap

IInv == FlagFollowsVerdict /\ EventsTellState /\ LoggedIsVerdict /\ AnswersAreKept

-----------------------------------------------------------------------------
(* What a verdict is *)

\* A verdict divides the configured devices.
LEMMA VerdictFacts ==
  ASSUME NEW answers
  PROVE  /\ ActiveDevices = Configured
         /\ (ActiveDevices \cap answers) \cup (ActiveDevices \ answers) = Configured
         /\ (ActiveDevices \cap answers) \cap (ActiveDevices \ answers) = {}
         /\ (ActiveDevices \cap answers) \cup (ActiveDevices \ answers) # {}
         /\ ActiveDevices \cap answers \subseteq Devices
         /\ ActiveDevices \ answers \subseteq Devices
BY CanManagerAssumption DEF ActiveDevices

\* The masks a counter stays within.
LEMMA AtMostStays ==
  ASSUME NEW bound \in Nat, NEW n \in 0..bound
  PROVE  AtMost(n + 1, bound) \in 0..bound
BY DEF AtMost

\* A combined checksum is made of cards and receivers.
LEMMA ChecksumTypes == UpdateCardChecksums => card_checksums' \in [Groups -> Seq(Devices \cup Receivers)]
<1> SUFFICES ASSUME UpdateCardChecksums
             PROVE  card_checksums' \in [Groups -> Seq(Devices \cup Receivers)]
  OBVIOUS
<1>1. ASSUME NEW g \in Groups
      PROVE  PartsOf[g] \in Seq(Devices \cup Receivers) /\ NoChecksum \in Seq(Devices \cup Receivers)
  BY CanManagerAssumption DEF NoChecksum
<1>2. QED
  BY <1>1, Zenon DEF UpdateCardChecksums, CRC32_Calculate

\* The events of a round, as far as the log takes them: a device whose event
\* was not refused is told as the new mask has it.
LEMMA LogFacts ==
  ASSUME NEW new, NEW accepted \in SUBSET Devices, LogTransitions(new, accepted),
         last_logged_hb_miss_mask = hb_miss_mask, hb_miss_mask \subseteq ActiveDevices,
         new \subseteq ActiveDevices, EventsTellState,
         told \subseteq Devices, refused \subseteq Devices
  PROVE  /\ last_logged_hb_miss_mask' = new
         /\ \A d \in Devices \ refused' : d \in told' <=> d \in new
         /\ told' \subseteq Devices /\ refused' \subseteq Devices
<1> DEFINE changed == ActiveDevices \cap Changed(last_logged_hb_miss_mask, new)
<1>1. /\ accepted \subseteq changed
      /\ last_logged_hb_miss_mask' = new
      /\ told' = (told \ accepted) \cup (accepted \cap new)
      /\ refused' = refused \cup (changed \ accepted)
  BY DEF LogTransitions
<1>2. ActiveDevices \subseteq Devices
  BY DEF ActiveDevices
<1>3. ASSUME NEW d \in Devices \ refused'
      PROVE  d \in told' <=> d \in new
  <2>1. CASE d \in accepted
    BY <1>1, <2>1
  <2>2. CASE d \notin accepted
    <3>1. d \notin changed /\ d \notin refused
      BY <1>1, <1>3, <2>2
    <3>2. d \in new <=> d \in hb_miss_mask
      BY <3>1 DEF Changed
    <3>3. d \in told <=> d \in hb_miss_mask
      BY <1>3, <3>1 DEF EventsTellState
    <3>4. QED
      BY <1>1, <2>2, <3>2, <3>3
  <2>3. QED
    BY <2>1, <2>2
<1>4. told' \subseteq Devices /\ refused' \subseteq Devices
  BY <1>1, <1>2
<1>5. QED
  BY <1>1, <1>3, <1>4

-----------------------------------------------------------------------------
(* The invariant *)

LEMMA InitHolds == Init => IInv
<1> SUFFICES ASSUME Init PROVE IInv
  OBVIOUS
<1>1. TypeOK
  <2>1. /\ startup_age \in 0..StartupTimeout /\ hb_age \in 0..HbTimeout
        /\ since_hb_tx \in 0..HbPeriod /\ stalled \in 0..MaxStall
    BY CanManagerAssumption DEF Init
  <2>2. card_checksums \in [Groups -> Seq(Devices \cup Receivers)]
    BY DEF Init, NoChecksum
  <2>3. hb_acks \in [Devices -> AckStates]
    BY DEF Init, AckStates
  <2>4. QED
    BY <2>1, <2>2, <2>3 DEF Init, SendStartup, TypeOK
<1>2. QED
  BY <1>1 DEF Init, IInv, FlagFollowsVerdict, EventsTellState, LoggedIsVerdict, AnswersAreKept

\* Actions that decide nothing leave the verdicts alone.
verdictVars == <<startup_in_progress, ack_ok_mask, ack_miss_mask, hb_ok_mask, hb_miss_mask,
                 system_faulty_flag, logVars>>

LEMMA NoVerdict ==
  ASSUME IInv, TypeOK', UNCHANGED verdictVars
  PROVE  FlagFollowsVerdict' /\ EventsTellState' /\ LoggedIsVerdict'
<1>1. UNCHANGED <<startup_in_progress, ack_ok_mask, ack_miss_mask, hb_ok_mask, hb_miss_mask,
                  system_faulty_flag, last_logged_hb_miss_mask, told, refused>>
  BY DEF verdictVars, logVars
<1>2. FlagFollowsVerdict'
  BY <1>1 DEF IInv, FlagFollowsVerdict
<1>3. EventsTellState'
  BY <1>1 DEF IInv, EventsTellState
<1>4. LoggedIsVerdict'
  BY <1>1 DEF IInv, LoggedIsVerdict, ActiveDevices
<1>5. QED
  BY <1>2, <1>3, <1>4

\* can_manager_poll_startup ends the startup with a verdict.
LEMMA PollStartupKeeps == IInv /\ PollStartup => IInv'
<1> SUFFICES ASSUME IInv, PollStartup PROVE IInv'
  OBVIOUS
<1>1. TypeOK /\ startup_in_progress
  BY DEF IInv, FlagFollowsVerdict, PollStartup
<1>2. UNCHANGED <<hb_ok_mask, hb_miss_mask, hb_ack_bitmap, answered, told, refused,
                  last_logged_hb_miss_mask, ack_bitmap>>
  BY DEF PollStartup, roundVars, logVars
<1>3. AnswersAreKept' /\ EventsTellState' /\ LoggedIsVerdict'
  BY <1>2 DEF IInv, AnswersAreKept, EventsTellState, LoggedIsVerdict, ActiveDevices
<1>4. CASE startup_age >= StartupTimeout
  <2>1. /\ ~startup_in_progress'
        /\ ack_ok_mask' = ActiveDevices \cap ack_bitmap
        /\ ack_miss_mask' = ActiveDevices \ ack_bitmap
        /\ UpdateCardChecksums
        /\ system_faulty_flag' = Faulty(ack_miss_mask')
    BY <1>4 DEF PollStartup
  <2>2. TypeOK'
    <3>1. ack_ok_mask' \subseteq Devices /\ ack_miss_mask' \subseteq Devices
      BY <2>1, VerdictFacts
    <3>2. card_checksums' \in [Groups -> Seq(Devices \cup Receivers)]
      BY <2>1, ChecksumTypes
    <3>3. startup_in_progress' \in BOOLEAN /\ system_faulty_flag' \in BOOLEAN
      BY <1>4 DEF PollStartup, Faulty
    <3>4. QED
      BY <1>1, <3>1, <3>2, <3>3, Zenon
      DEF TypeOK, PollStartup, roundVars, clockVars, logVars, cardVars
  <2>3. hb_ok_mask' \cup hb_miss_mask' = {}
    BY <1>1, <1>2 DEF IInv, FlagFollowsVerdict
  <2>4. FlagFollowsVerdict'
    <3>1. /\ ack_ok_mask' \cup ack_miss_mask' = Configured
          /\ ack_ok_mask' \cap ack_miss_mask' = {}
      BY <2>1, VerdictFacts
    <3>2. system_faulty_flag' <=> \E d \in Mandatory : d \in ack_miss_mask'
      BY <2>1 DEF Faulty
    <3>3. QED
      BY <2>1, <2>2, <2>3, <3>1, <3>2 DEF FlagFollowsVerdict
  <2>5. QED
    BY <1>3, <2>4 DEF IInv
<1>5. CASE ~(startup_age >= StartupTimeout)
  <2>1. UNCHANGED <<startupVars, card_checksums, system_faulty_flag>>
    BY <1>5 DEF PollStartup
  <2>2. TypeOK'
    BY <1>1, <2>1, Zenon
    DEF TypeOK, PollStartup, startupVars, roundVars, clockVars, logVars, cardVars
  <2>3. QED
    BY <1>2, <1>3, <2>1, <2>2, NoVerdict DEF IInv, verdictVars, startupVars, logVars
<1>6. QED
  BY <1>4, <1>5

\* A closed round is a verdict, and its events are logged.
LEMMA PollHeartbeatKeeps == IInv /\ PollHeartbeat => IInv'
<1> SUFFICES ASSUME IInv, PollHeartbeat PROVE IInv'
  OBVIOUS
<1>1. TypeOK /\ ~startup_in_progress /\ ~startup_in_progress'
  BY DEF IInv, FlagFollowsVerdict, PollHeartbeat, startupVars
<1>2. AnswersAreKept'
  BY DEF IInv, AnswersAreKept, PollHeartbeat, ActiveDevices
<1>3. CASE hb_in_progress /\ hb_age >= HbTimeout
  <2>1. /\ hb_ok_mask' = ActiveDevices \cap hb_ack_bitmap
        /\ hb_miss_mask' = ActiveDevices \ hb_ack_bitmap
        /\ system_faulty_flag' = Faulty(hb_miss_mask')
        /\ hb_in_progress' = FALSE
    BY <1>3 DEF PollHeartbeat, CloseRound
  <2>2. PICK accepted \in SUBSET Devices : LogTransitions(hb_miss_mask', accepted)
    BY <1>3 DEF PollHeartbeat, CloseRound
  <2>3. hb_miss_mask' \subseteq ActiveDevices
    BY <2>1
  <2>4. /\ last_logged_hb_miss_mask' = hb_miss_mask'
        /\ \A d \in Devices \ refused' : d \in told' <=> d \in hb_miss_mask'
        /\ told' \subseteq Devices /\ refused' \subseteq Devices
    BY <1>1, <2>2, <2>3, LogFacts DEF IInv, LoggedIsVerdict, TypeOK
  <2>5. TypeOK'
    <3>1. hb_ok_mask' \subseteq Devices /\ hb_miss_mask' \subseteq Devices
      BY <2>1, VerdictFacts
    <3>2. /\ system_faulty_flag' \in BOOLEAN /\ hb_in_progress' \in BOOLEAN
          /\ pc' \in {"rx", "tasks"}
      BY <2>1 DEF Faulty, PollHeartbeat
    <3>3. last_logged_hb_miss_mask' \subseteq Devices
      BY <2>4, <3>1
    <3>4. QED
      BY <1>1, <2>4, <3>1, <3>2, <3>3, Zenon
      DEF TypeOK, PollHeartbeat, startupVars, clockVars, cardVars, checksumVars
  <2>6. FlagFollowsVerdict'
    <3>1. /\ hb_ok_mask' \cup hb_miss_mask' = Configured
          /\ hb_ok_mask' \cap hb_miss_mask' = {}
          /\ hb_ok_mask' \cup hb_miss_mask' # {}
      BY <2>1, VerdictFacts
    <3>2. system_faulty_flag' <=> \E d \in Mandatory : d \in hb_miss_mask'
      BY <2>1 DEF Faulty
    <3>3. QED
      BY <1>1, <2>5, <3>1, <3>2 DEF FlagFollowsVerdict
  <2>7. QED
    BY <1>2, <2>3, <2>4, <2>6 DEF IInv, EventsTellState, LoggedIsVerdict, ActiveDevices
<1>4. CASE ~(hb_in_progress /\ hb_age >= HbTimeout)
  <2>1. UNCHANGED <<startupVars, roundVars, system_faulty_flag, logVars>>
    BY <1>4 DEF PollHeartbeat
  <2>2. TypeOK'
    BY <1>1, <2>1, Zenon
    DEF TypeOK, PollHeartbeat, startupVars, roundVars, clockVars, logVars, cardVars, checksumVars
  <2>3. QED
    BY <1>2, <2>1, <2>2, NoVerdict DEF IInv, verdictVars, startupVars, roundVars
<1>5. QED
  BY <1>3, <1>4

\* v_1sTasks starts a round without answers.
LEMMA TasksKeeps == IInv /\ Tasks => IInv'
<1> SUFFICES ASSUME IInv, Tasks PROVE IInv'
  OBVIOUS
<1>1. TypeOK
  BY DEF IInv, FlagFollowsVerdict
<1>2. UNCHANGED verdictVars
  BY DEF Tasks, verdictVars, startupVars
<1>3. /\ hb_in_progress' \in BOOLEAN /\ hb_age' \in 0..HbTimeout /\ since_hb_tx' \in 0..HbPeriod
      /\ hb_ack_bitmap' \subseteq Devices /\ answered' \subseteq Devices
      /\ hb_acks' \in [Devices -> AckStates]
      /\ AnswersAreKept'
  <2>1. CASE StartRound
    <3>1. hb_acks' \in [Devices -> AckStates]
      BY <1>1, <2>1 DEF StartRound, SendHeartbeat, TypeOK, AckStates
    <3>2. hb_age' \in 0..HbTimeout /\ since_hb_tx' \in 0..HbPeriod
      BY <2>1, CanManagerAssumption DEF StartRound
    <3>3. QED
      BY <2>1, <3>1, <3>2 DEF StartRound, ClearedAnswers, AnswersAreKept
  <2>2. CASE UNCHANGED <<hb_in_progress, hb_age, since_hb_tx, hb_ack_bitmap, answered, hb_acks>>
    BY <1>1, <2>2 DEF TypeOK, IInv, AnswersAreKept, ActiveDevices
  <2>3. QED
    BY <2>1, <2>2 DEF Tasks
<1>4. gps_rx' \subseteq Receivers /\ gps_checksum_valid' \subseteq Receivers
  BY <1>1 DEF Tasks, GpsProcess, TypeOK
<1>5. stalled' \in 0..MaxStall /\ rti_1s_tick_flag' \in BOOLEAN /\ pc' \in {"rx", "tasks"}
  <2>1. 0 \in 0..MaxStall
    BY CanManagerAssumption
  <2>2. QED
    BY <2>1, Zenon DEF Tasks
<1>6. TypeOK'
  BY <1>1, <1>3, <1>4, <1>5, Zenon DEF TypeOK, Tasks, startupVars, logVars
<1>7. QED
  BY <1>2, <1>3, <1>6, NoVerdict DEF IInv

\* A second decides nothing.
LEMMA SecondKeeps == IInv /\ Second => IInv'
<1> SUFFICES ASSUME IInv, Second PROVE IInv'
  OBVIOUS
<1>1. TypeOK
  BY DEF IInv, FlagFollowsVerdict
<1>2. /\ startup_age' \in 0..StartupTimeout /\ hb_age' \in 0..HbTimeout
      /\ since_hb_tx' \in 0..HbPeriod
  BY <1>1, AtMostStays, CanManagerAssumption DEF TypeOK, Second
<1>3. stalled' \in 0..MaxStall
  BY <1>1, CanManagerAssumption DEF TypeOK, Second
<1>4. gps_rx' \subseteq Receivers /\ rti_1s_tick_flag' \in BOOLEAN
  BY DEF Second
<1>5. TypeOK'
  BY <1>1, <1>2, <1>3, <1>4, Zenon DEF TypeOK, Second, startupVars, roundVars, logVars, cardVars
<1>6. AnswersAreKept'
  BY DEF IInv, AnswersAreKept, Second, ActiveDevices
<1>7. QED
  BY <1>5, <1>6, NoVerdict DEF IInv, Second, verdictVars, startupVars, roundVars

\* Frames that come, or are lost, and cards that fail: no verdict either.
LEMMA HandleAckKeeps ==
  ASSUME IInv, NEW d \in startup_acks, HandleAck(d)
  PROVE  IInv'
<1>1. TypeOK /\ d \in Devices
  BY DEF IInv, FlagFollowsVerdict, TypeOK
<1>2. /\ startup_acks' \subseteq Devices /\ ack_bitmap' \subseteq Devices
      /\ peripheral_firmware_checksum' \subseteq Devices
  BY <1>1 DEF TypeOK, HandleAck
<1>3. TypeOK'
  BY <1>1, <1>2, Zenon DEF TypeOK, HandleAck, startupVars, roundVars, clockVars, logVars
<1>4. AnswersAreKept'
  BY DEF IInv, AnswersAreKept, HandleAck, ActiveDevices
<1>5. QED
  BY <1>3, <1>4, NoVerdict DEF IInv, HandleAck, verdictVars, startupVars, roundVars

LEMMA HandleHbAckKeeps ==
  ASSUME IInv, NEW d \in Devices, HandleHbAck(d)
  PROVE  IInv'
<1>1. TypeOK
  BY DEF IInv, FlagFollowsVerdict
<1>2. /\ hb_ack_bitmap' \subseteq Devices /\ answered' \subseteq Devices
      /\ hb_acks' \in [Devices -> AckStates]
  BY <1>1 DEF TypeOK, HandleHbAck, WithAnswer, AckStates
<1>3. TypeOK'
  BY <1>1, <1>2, Zenon
  DEF TypeOK, HandleHbAck, startupVars, roundVars, clockVars, logVars, checksumVars
<1>4. AnswersAreKept'
  BY DEF IInv, AnswersAreKept, HandleHbAck, WithAnswer, ActiveDevices
<1>5. QED
  BY <1>3, <1>4, NoVerdict DEF IInv, HandleHbAck, verdictVars, startupVars, roundVars

LEMMA CardsKeep ==
  ASSUME IInv, (\E d \in Devices : CardChanges(d)) \/ LoseAck
  PROVE  IInv'
<1>1. TypeOK
  BY DEF IInv, FlagFollowsVerdict
<1> DEFINE Others == /\ UNCHANGED <<startupVars, roundVars, clockVars, logVars, checksumVars,
                                     ack_bitmap, hb_ack_bitmap, system_faulty_flag, pc, answered>>
                     /\ alive' \subseteq Devices /\ startup_acks' \subseteq Devices
                     /\ hb_acks' \in [Devices -> AckStates]
<1>2. Others
  <2>1. ASSUME NEW d \in Devices, CardChanges(d)
        PROVE  Others
    BY <1>1, <2>1 DEF CardChanges, Toggle, TypeOK
  <2>2. CASE LoseAck
    BY <1>1, <2>2 DEF LoseAck, TypeOK, AckStates
  <2>3. QED
    BY <2>1, <2>2
<1>3. TypeOK'
  BY <1>1, <1>2, Zenon DEF TypeOK, startupVars, roundVars, clockVars, logVars, checksumVars
<1>4. AnswersAreKept'
  BY <1>2 DEF IInv, AnswersAreKept, ActiveDevices
<1>5. QED
  BY <1>2, <1>3, <1>4, NoVerdict DEF IInv, verdictVars, startupVars, roundVars

LEMMA NextKeeps == IInv /\ [Next]_vars => IInv'
<1> SUFFICES ASSUME IInv, [Next]_vars PROVE IInv'
  OBVIOUS
<1>1. ASSUME NEW d \in startup_acks, HandleAck(d)
      PROVE  IInv'
  BY <1>1, HandleAckKeeps
<1>2. ASSUME NEW d \in Devices, HandleHbAck(d)
      PROVE  IInv'
  BY <1>2, HandleHbAckKeeps
<1>3. CASE UNCHANGED vars
  <2>1. UNCHANGED <<startupVars, roundVars, clockVars, logVars, cardVars, checksumVars,
                    ack_bitmap, hb_ack_bitmap, system_faulty_flag, pc, answered>>
    BY <1>3 DEF vars
  <2>2. TypeOK'
    BY <2>1, Zenon
    DEF IInv, FlagFollowsVerdict, TypeOK, startupVars, roundVars, clockVars, logVars, cardVars,
        checksumVars
  <2>3. AnswersAreKept'
    BY <2>1 DEF IInv, AnswersAreKept, ActiveDevices
  <2>4. QED
    BY <2>1, <2>2, <2>3, NoVerdict DEF IInv, verdictVars, startupVars, roundVars
<1>4. QED
  BY <1>1, <1>2, <1>3, PollStartupKeeps, PollHeartbeatKeeps, TasksKeeps, SecondKeeps, CardsKeep
  DEF Next

-----------------------------------------------------------------------------
(* The theorems *)

\* The invariant that carries the three properties.
THEOREM Invariance == Spec => []IInv
BY InitHolds, NextKeeps, PTL DEF Spec

\* system_faulty_flag tells what the latest verdict says: the verdict of the
\* startup, and from the first round on that of the last round.
THEOREM FlagIsVerdict == Spec => []FlagFollowsVerdict
<1>1. IInv => FlagFollowsVerdict
  BY DEF IInv
<1>2. QED
  BY Invariance, <1>1, PTL

\* The last event of a device in the log tells what the last round found,
\* unless can_manager_log_heartbeat_transitions was refused one of its events.
THEOREM EventsAreTrue == Spec => []EventsTellState
<1>1. IInv => EventsTellState
  BY DEF IInv
<1>2. QED
  BY Invariance, <1>1, PTL

\* The verdict of a round is closed by the poll, from the answers in the mask.
LEMMA VerdictsComeFromPoll ==
  ASSUME IInv, Next, hb_in_progress, ~hb_in_progress'
  PROVE  hb_miss_mask' = ActiveDevices \ hb_ack_bitmap
<1>1. ASSUME NEW d \in startup_acks, HandleAck(d)
      PROVE  FALSE
  BY <1>1 DEF HandleAck, roundVars
<1>2. ASSUME NEW d \in Devices, HandleHbAck(d) \/ CardChanges(d)
      PROVE  FALSE
  BY <1>2 DEF HandleHbAck, CardChanges, roundVars
<1>3. ~PollStartup /\ ~Second /\ ~LoseAck
  BY DEF PollStartup, Second, LoseAck, roundVars
<1>4. ~Tasks
  BY DEF Tasks, StartRound
<1>5. CASE PollHeartbeat
  BY <1>5 DEF PollHeartbeat, CloseRound, roundVars
<1>6. QED
  BY <1>1, <1>2, <1>3, <1>4, <1>5 DEF Next

\* No card whose answer to the last heartbeat was handled is found missing.
THEOREM NoFalseAlarm == Spec => AnswerCounts
<1>1. IInv /\ [Next]_vars =>
        [hb_in_progress /\ ~hb_in_progress' => answered \cap hb_miss_mask' = {}]_vars
  <2> SUFFICES ASSUME IInv, Next, hb_in_progress, ~hb_in_progress'
               PROVE  answered \cap hb_miss_mask' = {}
    OBVIOUS
  <2>1. QED
    BY VerdictsComeFromPoll DEF IInv, AnswersAreKept
<1>2. QED
  BY Invariance, <1>1, PTL DEF Spec, AnswerCounts

-----------------------------------------------------------------------------
(* The bytes of packets from trains *)

\* What is kept of packets is of one that has come.
PacketInv ==
  /\ arrived \in 0..Len(Received)
  /\ DOMAIN rx_payload = 0..261
  /\ parsed = Nothing \/ parsed.pkt \in 1..arrived
  /\ PacketsLandInPlace

\* The first 43 fragments are stored one behind the other, the others from
\* the begin of the buffer again.
LEMMA OffsetFacts ==
  ASSUME NEW k \in 0..63
  PROVE  Offset(k) = IF k <= 42 THEN 6 * k ELSE 6 * k - 256
BY DEF Offset, PAYLOAD_BYTES

LEMMA LastFragment ==
  ASSUME NEW n \in 1..64, NEW b \in 0..261, Storing(b, n) # {}
  PROVE  \E k \in Storing(b, n) : k \in 0..63 /\ \A j \in Storing(b, n) : j <= k
<1>1. \A k \in Storing(b, n) :
        /\ k \in 0..63
        /\ k <= 42 => 6 * k <= b /\ b < 6 * k + 6
        /\ k > 42 => 6 * k - 256 <= b /\ b < 6 * k - 250
  BY OffsetFacts DEF Storing, PAYLOAD_BYTES
<1>2. CASE \E k \in Storing(b, n) : k > 42
  <2>1. PICK k \in Storing(b, n) : k > 42
    BY <1>2
  <2>2. \A j \in Storing(b, n) : j <= k
    BY <1>1, <2>1
  <2> QED
    BY <1>1, <2>1, <2>2
<1>3. CASE \A k \in Storing(b, n) : k <= 42
  <2>1. PICK k \in Storing(b, n) : TRUE
    OBVIOUS
  <2>2. \A j \in Storing(b, n) : j <= k
    BY <1>1, <1>3, <2>1
  <2> QED
    BY <1>1, <2>1, <2>2
<1> QED
  BY <1>1, <1>2, <1>3

LEMMA StoredFacts ==
  ASSUME NEW p, NEW n \in 1..64, NEW b \in DOMAIN rx_payload, DOMAIN rx_payload = 0..261,
         Storing(b, n) # {}
  PROVE  \E k \in Storing(b, n) :
           k \in 0..63 /\ b - Offset(k) \in 0..5 /\ Stored(p, n)[b] = Byte(p, k, b - Offset(k))
<1> DEFINE last == CHOOSE k \in Storing(b, n) : \A j \in Storing(b, n) : j <= k
<1>1. last \in Storing(b, n) /\ \A j \in Storing(b, n) : j <= last
  BY LastFragment
<1>2. last \in 0..63 /\ b - Offset(last) \in 0..5
  <2> HIDE DEF last
  <2>1. last \in 0..63 /\ b >= Offset(last) /\ b < Offset(last) + 6
    BY <1>1 DEF Storing, PAYLOAD_BYTES
  <2> QED
    BY <2>1, OffsetFacts
<1>3. Stored(p, n)[b] = Byte(p, last, b - Offset(last))
  BY DEF Stored
<1> QED
  BY <1>1, <1>2, <1>3

LEMMA InPlace ==
  ASSUME NEW p, NEW n \in 1..43, DOMAIN rx_payload = 0..261,
         NEW k \in 0..(n - 1), NEW i \in 0..5
  PROVE  Stored(p, n)[k * 6 + i] = Byte(p, k, i)
<1> DEFINE b == k * 6 + i
<1>1. b \in 0..261 /\ k \in 0..63 /\ Offset(k) = 6 * k
  BY OffsetFacts
<1>2. k \in Storing(b, n)
  BY <1>1 DEF Storing, PAYLOAD_BYTES
<1>3. \A j \in Storing(b, n) : j = k
  BY <1>1, OffsetFacts DEF Storing, PAYLOAD_BYTES
<1>4. Stored(p, n)[b] = Byte(p, k, b - Offset(k))
  <2> HIDE DEF b
  <2>1. b \in DOMAIN rx_payload /\ n \in 1..64 /\ Storing(b, n) # {}
    BY <1>1, <1>2
  <2> QED
    BY <1>3, <2>1, StoredFacts
<1>5. b - Offset(k) = i
  BY <1>1
<1> QED
  BY <1>4, <1>5

\* A packet of fewer than 30 bytes has fewer than five fragments, and every
\* byte of a longer one is its own.
LEMMA LongEnough ==
  ASSUME NEW n \in 1..64, PayloadLen(n) >= 30
  PROVE  n >= 5
<1> SUFFICES ASSUME n < 5 PROVE FALSE
  OBVIOUS
<1> DEFINE Ends == {Offset(k) + PAYLOAD_BYTES : k \in 0..(n - 1)}
           Covers(len) == \A k \in 0..(n - 1) : Offset(k) + PAYLOAD_BYTES <= len
<1>1. \A k \in 0..(n - 1) : Offset(k) + PAYLOAD_BYTES = 6 * k + 6
  BY OffsetFacts DEF PAYLOAD_BYTES
<1>2. 6 * n \in Ends
  <2>1. n - 1 \in 0..(n - 1) /\ 6 * n = 6 * (n - 1) + 6
    OBVIOUS
  <2> QED
    BY <1>1, <2>1
<1>3. Covers(6 * n)
  BY <1>1
<1>4. PayloadLen(n) \in Ends
  <2>1. PayloadLen(n) = CHOOSE len \in Ends : Covers(len)
    BY DEF PayloadLen
  <2> QED
    BY <1>2, <1>3, <2>1
<1>5. PICK k \in 0..(n - 1) : PayloadLen(n) = 6 * k + 6
  BY <1>1, <1>4
<1> QED
  BY <1>5

LEMMA BytesAreOwn ==
  ASSUME RadioPacketsAssumption, DOMAIN rx_payload = 0..261,
         NEW p \in DOMAIN Received, NEW n \in 5..64, NEW b \in 0..29
  PROVE  Stored(p, n)[b] # Nothing /\ Stored(p, n)[b].pkt = p
<1>1. b \div 6 \in 0..4 /\ 6 * (b \div 6) <= b /\ b < 6 * (b \div 6) + 6
  OBVIOUS
<1>2. b \div 6 \in Storing(b, n)
  <2>1. b \div 6 \in 0..(n - 1) /\ b \div 6 \in 0..63
    BY <1>1
  <2>2. Offset(b \div 6) = 6 * (b \div 6)
    BY <1>1, <2>1, OffsetFacts
  <2> QED
    BY <1>1, <2>1, <2>2 DEF Storing, PAYLOAD_BYTES
<1>3. PICK k \in Storing(b, n) :
        k \in 0..63 /\ b - Offset(k) \in 0..5 /\ Stored(p, n)[b] = Byte(p, k, b - Offset(k))
  <2>1. b \in DOMAIN rx_payload /\ n \in 1..64 /\ Storing(b, n) # {}
    BY <1>2
  <2> QED
    BY <2>1, StoredFacts
<1>4. Byte(p, k, b - Offset(k)) # Nothing
  <2>1. \A j \in 0..63, i \in 0..5 : Byte(p, j, i) # Nothing
    <3>1. 0..63 = 0..(MAX_FRAGMENTS - 1) /\ 0..5 = 0..(PAYLOAD_BYTES - 1)
      BY DEF MAX_FRAGMENTS, PAYLOAD_BYTES
    <3> QED
      BY <3>1 DEF RadioPacketsAssumption
  <2> QED
    BY <1>3, <2>1
<1>5. Byte(p, k, b - Offset(k)).pkt = p
  BY DEF Byte
<1> QED
  BY <1>3, <1>4, <1>5

\* The fields of both packets lie within 30 bytes.
LEMMA OrpStarts ==
  /\ Len(OrpFields) = 27 /\ DOMAIN OrpFields = 1..27
  /\ \A i \in DOMAIN OrpFields :
       Starts(OrpFields)[i] \in 0..239 /\ Starts(OrpFields)[i + 1] \in 1..240
<1> DEFINE S == Starts(OrpFields)
           at == <<0, 4, 11, 28, 48, 51, 74, 83, 92, 94, 105, 114, 116, 119, 123, 133, 134,
                     137, 146, 149, 151, 155, 156, 160, 162, 168, 200, 232>>
           Step(f) == [i \in 1..(Len(OrpFields) + 1) |->
                         IF i = 1 THEN 0 ELSE f[i - 1] + OrpFields[i - 1].width]
<1>1. Len(OrpFields) = 27 /\ DOMAIN OrpFields = 1..27
  BY DEF OrpFields
<1>2. at = Step(at)
  <2>1. \A i \in 1..28 : at[i] = Step(at)[i]
    BY <1>1 DEF OrpFields, Zero, Field
  <2> QED
    BY <1>1, <2>1
<1>3. S = CHOOSE f : f = Step(f)
  BY DEF Starts
<1>4. S = Step(S)
  <2> HIDE DEF Step, at, S
  <2> QED
    BY <1>2, <1>3
<1>5. \A i \in 1..28 : S[i] = IF i = 1 THEN 0 ELSE S[i - 1] + OrpFields[i - 1].width
  <2> HIDE DEF S
  <2> QED
    BY <1>1, <1>4
<1>6. \A i \in 1..28 : S[i] = at[i]
  <2> HIDE DEF S
  <2>1. S[1] = 0 /\ S[2] = 4 /\ S[3] = 11 /\ S[4] = 28 /\ S[5] = 48 /\ S[6] = 51 /\
        S[7] = 74 /\ S[8] = 83 /\ S[9] = 92 /\ S[10] = 94 /\ S[11] = 105 /\ S[12] = 114 /\
        S[13] = 116 /\ S[14] = 119 /\ S[15] = 123 /\ S[16] = 133 /\ S[17] = 134 /\
        S[18] = 137 /\ S[19] = 146 /\ S[20] = 149 /\ S[21] = 151 /\ S[22] = 155 /\
        S[23] = 156 /\ S[24] = 160 /\ S[25] = 162 /\ S[26] = 168 /\ S[27] = 200 /\ S[28] = 232
    BY <1>5 DEF OrpFields, Zero, Field
  <2> QED
    BY <2>1
<1>7. \A i \in 1..27 : S[i] \in 0..239 /\ S[i + 1] \in 1..240
  <2> HIDE DEF S
  <2>1. \A i \in 1..27 : at[i] \in 0..239 /\ at[i + 1] \in 1..240
    OBVIOUS
  <2>2. \A i \in 1..27 : i \in 1..28 /\ i + 1 \in 1..28
    OBVIOUS
  <2> HIDE DEF at
  <2>3. \A i \in 1..27 : S[i] \in 0..239 /\ S[i + 1] \in 1..240
    BY <1>6, <2>1, <2>2
  <2> QED
    BY <2>3
<1> HIDE DEF at, Step
<1>8. \A i \in DOMAIN OrpFields : S[i] \in 0..239 /\ S[i + 1] \in 1..240
  <2> HIDE DEF S
  <2> QED
    BY <1>1, <1>7
<1> QED
  BY <1>1, <1>8

LEMMA ArpStarts ==
  /\ Len(ArpFields) = 19 /\ DOMAIN ArpFields = 1..19
  /\ \A i \in DOMAIN ArpFields :
       Starts(ArpFields)[i] \in 0..239 /\ Starts(ArpFields)[i + 1] \in 1..240
<1> DEFINE S == Starts(ArpFields)
           at == <<0, 4, 11, 28, 48, 51, 74, 85, 94, 96, 99, 103, 119, 129, 138, 159, 179, 195,
                     200, 232>>
           Step(f) == [i \in 1..(Len(ArpFields) + 1) |->
                         IF i = 1 THEN 0 ELSE f[i - 1] + ArpFields[i - 1].width]
<1>1. Len(ArpFields) = 19 /\ DOMAIN ArpFields = 1..19
  BY DEF ArpFields
<1>2. at = Step(at)
  <2>1. \A i \in 1..20 : at[i] = Step(at)[i]
    BY <1>1 DEF ArpFields, Zero, Field
  <2> QED
    BY <1>1, <2>1
<1>3. S = CHOOSE f : f = Step(f)
  BY DEF Starts
<1>4. S = Step(S)
  <2> HIDE DEF Step, at, S
  <2> QED
    BY <1>2, <1>3
<1>5. \A i \in 1..20 : S[i] = IF i = 1 THEN 0 ELSE S[i - 1] + ArpFields[i - 1].width
  <2> HIDE DEF S
  <2> QED
    BY <1>1, <1>4
<1>6. \A i \in 1..20 : S[i] = at[i]
  <2> HIDE DEF S
  <2>1. S[1] = 0 /\ S[2] = 4 /\ S[3] = 11 /\ S[4] = 28 /\ S[5] = 48 /\ S[6] = 51 /\
        S[7] = 74 /\ S[8] = 85 /\ S[9] = 94 /\ S[10] = 96 /\ S[11] = 99 /\ S[12] = 103 /\
        S[13] = 119 /\ S[14] = 129 /\ S[15] = 138 /\ S[16] = 159 /\ S[17] = 179 /\
        S[18] = 195 /\ S[19] = 200 /\ S[20] = 232
    BY <1>5 DEF ArpFields, Zero, Field
  <2> QED
    BY <2>1
<1>7. \A i \in 1..19 : S[i] \in 0..239 /\ S[i + 1] \in 1..240
  <2> HIDE DEF S
  <2>1. \A i \in 1..19 : at[i] \in 0..239 /\ at[i + 1] \in 1..240
    OBVIOUS
  <2>2. \A i \in 1..19 : i \in 1..20 /\ i + 1 \in 1..20
    OBVIOUS
  <2> HIDE DEF at
  <2>3. \A i \in 1..19 : S[i] \in 0..239 /\ S[i + 1] \in 1..240
    BY <1>6, <2>1, <2>2
  <2> QED
    BY <2>3
<1> HIDE DEF at, Step
<1>8. \A i \in DOMAIN ArpFields : S[i] \in 0..239 /\ S[i + 1] \in 1..240
  <2> HIDE DEF S
  <2> QED
    BY <1>1, <1>7
<1> QED
  BY <1>1, <1>8

LEMMA ParsedInBounds ==
  ASSUME NEW type \in {ORP, ARP}, NEW bytes,
         NEW j \in DOMAIN Parse(IF type = ORP THEN OrpFields ELSE ArpFields, bytes),
         NEW v \in Parse(IF type = ORP THEN OrpFields ELSE ArpFields, bytes)[j].from
  PROVE  \E b \in 0..29 : v = bytes[b]
<1> DEFINE fields == IF type = ORP THEN OrpFields ELSE ArpFields
           start == Starts(fields)
<1>1. \A i \in DOMAIN fields : start[i] \in 0..239 /\ start[i + 1] \in 1..240
  <2>1. CASE type = ORP
    <3>1. fields = OrpFields /\ start = Starts(OrpFields)
      BY <2>1
    <3> HIDE DEF fields, start
    <3> QED
      BY <3>1, OrpStarts
  <2>2. CASE type # ORP
    <3>1. fields = ArpFields /\ start = Starts(ArpFields)
      BY <2>2
    <3> HIDE DEF fields, start
    <3> QED
      BY <3>1, ArpStarts
  <2> QED
    BY <2>1, <2>2
<1>2. Parse(fields, bytes) =
        [i \in DOMAIN fields |->
           [name |-> fields[i].name,
            from |-> {bytes[b] : b \in (start[i] \div 8)..((start[i + 1] - 1) \div 8)}]]
  BY DEF Parse
<1> HIDE DEF fields, start
<1>3. j \in DOMAIN fields
  BY <1>2 DEF fields
<1>4. v \in {bytes[b] : b \in (start[j] \div 8)..((start[j + 1] - 1) \div 8)}
  BY <1>2, <1>3 DEF fields
<1>5. PICK b \in (start[j] \div 8)..((start[j + 1] - 1) \div 8) : v = bytes[b]
  BY <1>4
<1>6. b \in 0..29
  <2>1. start[j] \in 0..239 /\ start[j + 1] \in 1..240
    BY <1>1, <1>3
  <2> HIDE DEF start
  <2>2. start[j] \div 8 >= 0 /\ (start[j + 1] - 1) \div 8 <= 29 /\ start[j] \div 8 \in Int
        /\ (start[j + 1] - 1) \div 8 \in Int
    BY <2>1
  <2> QED
    BY <2>2
<1> QED
  BY <1>5, <1>6

LEMMA ReceiveKeeps ==
  ASSUME RadioPacketsAssumption, PacketInv, ReceivePacket
  PROVE  PacketInv'
<1> DEFINE p == arrived + 1
           n == Received[p].fragments
           type == Received[p].type
<1>1. p \in DOMAIN Received /\ p \in 1..Len(Received) /\ n \in 1..64
  <2>1. Received \in Seq([type : Nat, fragments : 1..64])
    BY DEF RadioPacketsAssumption, MAX_FRAGMENTS
  <2>2. arrived \in 0..Len(Received) /\ arrived < Len(Received) /\ Len(Received) \in Nat
    BY <2>1 DEF PacketInv, ReceivePacket
  <2>3. p \in 1..Len(Received)
    BY <2>2
  <2>4. DOMAIN Received = 1..Len(Received) /\ Received[p] \in [type : Nat, fragments : 1..64]
    <3>1. ASSUME NEW S, Received \in Seq(S)
          PROVE  DOMAIN Received = 1..Len(Received)
                 /\ \A i \in 1..Len(Received) : Received[i] \in S
      BY <3>1
    <3> HIDE DEF p
    <3> QED
      BY <2>1, <2>3, <3>1
  <2> QED
    BY <2>3, <2>4
<1>2. arrived' = p /\ rx_payload' = Stored(p, n)
  BY DEF ReceivePacket
<1>3. parsed' = IF PayloadLen(n) < 18 \/ type \notin {ORP, ARP} THEN parsed
                ELSE [pkt |-> p, len |-> PayloadLen(n),
                      fields |-> Parse(IF type = ORP THEN OrpFields ELSE ArpFields, Stored(p, n))]
  BY DEF ReceivePacket, ProcessCompletePacket
<1>4. DOMAIN rx_payload = 0..261 /\ arrived \in 0..Len(Received)
      /\ (parsed = Nothing \/ parsed.pkt \in 1..arrived)
  BY DEF PacketInv
<1>5. DOMAIN rx_payload' = 0..261
  BY <1>2, <1>4 DEF Stored
<1> HIDE DEF n, type
<1>6. parsed' = Nothing \/ parsed'.pkt \in 1..arrived'
  BY <1>1, <1>2, <1>3, <1>4
<1>7. n <= 43 => \A k \in 0..(n - 1), i \in 0..5 : rx_payload'[k * 6 + i] = Byte(p, k, i)
  <2> SUFFICES ASSUME n <= 43, NEW k \in 0..(n - 1), NEW i \in 0..5
               PROVE  rx_payload'[k * 6 + i] = Byte(p, k, i)
    OBVIOUS
  <2>1. n \in 1..43
    BY <1>1
  <2> HIDE DEF p
  <2>2. Stored(p, n)[k * 6 + i] = Byte(p, k, i)
    BY <1>4, <2>1, InPlace
  <2> QED
    BY <1>2, <2>2
<1>8. ASSUME parsed' # Nothing, parsed'.pkt = p, parsed'.len >= 30,
             NEW j \in DOMAIN parsed'.fields, NEW v \in parsed'.fields[j].from
      PROVE  v # Nothing /\ v.pkt = p
  <2>1. parsed' # parsed
    BY <1>1, <1>4, <1>8
  <2>2. type \in {ORP, ARP} /\ parsed'.len = PayloadLen(n)
        /\ parsed'.fields = Parse(IF type = ORP THEN OrpFields ELSE ArpFields, Stored(p, n))
    BY <1>3, <2>1
  <2>3. n \in 5..64
    <3>1. n \in 1..64 /\ PayloadLen(n) >= 30
      BY <1>1, <1>8, <2>2
    <3>2. n >= 5
      BY <3>1, LongEnough
    <3> QED
      BY <3>1, <3>2
  <2>4. PICK b \in 0..29 : v = Stored(p, n)[b]
    BY <1>8, <2>2, ParsedInBounds
  <2> QED
    BY <1>1, <1>4, <2>3, <2>4, BytesAreOwn
<1>9. PacketsLandInPlace'
  BY <1>2, <1>7, <1>8 DEF PacketsLandInPlace, PAYLOAD_BYTES, n
<1> QED
  BY <1>1, <1>2, <1>5, <1>6, <1>9 DEF PacketInv

\* A packet lies in the buffer as it was sent, whatever was received before it,
\* and what is parsed of a packet that is long enough is its own: the buffer
\* of radio_rx_handle, and the fields of radio_parse_orp and radio_parse_arp.
THEOREM PacketsArePlaced == ASSUME RadioPacketsAssumption PROVE PacketSpec => []PacketsLandInPlace
<1>1. PacketInit => PacketInv
  BY DEF PacketInit, PacketInv, PacketsLandInPlace, RadioPacketsAssumption
<1>2. PacketInv /\ [PacketNext]_<<txVars, rxVars>> => PacketInv'
  <2> SUFFICES ASSUME PacketInv, [PacketNext]_<<txVars, rxVars>> PROVE PacketInv'
    OBVIOUS
  <2>1. CASE ReceivePacket
    BY <2>1, ReceiveKeeps
  <2>2. CASE UNCHANGED rxVars
    BY <2>2 DEF rxVars, PacketInv, PacketsLandInPlace
  <2>3. ASSUME NEW s \in Seconds, UpdateFrameNumber(s) PROVE UNCHANGED rxVars
    BY <2>3 DEF UpdateFrameNumber
  <2>4. ASSUME SendAap \/ SendAep \/ SendRegType1 \/ SendRegType2 PROVE UNCHANGED rxVars
    BY <2>4 DEF SendAap, SendAep, SendRegType1, SendRegType2, Send
  <2>5. CASE UNCHANGED <<txVars, rxVars>>
    BY <2>2, <2>5
  <2> QED
    BY <2>1, <2>2, <2>3, <2>4, <2>5 DEF PacketNext
<1>3. PacketInv => PacketsLandInPlace
  BY DEF PacketInv
<1> QED
  BY <1>1, <1>2, <1>3, PTL DEF PacketSpec
=============================================================================
