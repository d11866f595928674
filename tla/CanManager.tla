---------------------------- MODULE CanManager ----------------------------
(***************************************************************************)
(* Supervision of the cards on the CAN buses (Drivers/can_manager.c).  At  *)
(* startup the CPU waits for the ACKs of all cards; afterwards v_1sTasks   *)
(* sends a heartbeat in regular periods, and can_manager_poll_startup,     *)
(* which the main loop calls in every pass, decides some seconds later     *)
(* which cards have answered, and logs what has changed.                   *)
(*                                                                         *)
(* A pass of the main loop handles received frames, polls, and runs the    *)
(* tasks whose flags are set (pc); seconds pass at any moment.  The cards  *)
(* fail and recover, and an ACK, sent on both buses, may be lost or come   *)
(* in a later round.  The event log takes as many of the events of one     *)
(* call as it has room for.                                                *)
(*                                                                         *)
(* A startup ACK carries the checksum of the card's firmware; at the end   *)
(* of the startup the checksums of each group of cards (COMM CARD 1, ...)  *)
(* are combined, with those of the GPS receivers in the group, which       *)
(* gps_process reads.  A combined checksum is the sequence of its parts.   *)
(***************************************************************************)
EXTENDS Naturals, Sequences

CONSTANTS
  NumDevices,      \* CAN_DEVICE_COUNT
  Configured,      \* the devices that are no input cards, or configured ones
  Mandatory,       \* devices with mandatory = 1
  StartupTimeout,  \* STARTUP_ACK_TIMEOUT_SEC
  HbPeriod,        \* HEARTBEAT_PERIOD_SEC
  HbTimeout,       \* HEARTBEAT_ACK_TIMEOUT
  Receivers,       \* the GPS receivers
  Groups,          \* the cards with a combined checksum: COMM CARD 1, MVI, ...
  PartsOf,         \* what each of them combines, in order: devices and receivers
  MaxStall         \* bound: seconds between the poll and the tasks of one pass

Devices == 1..NumDevices

ASSUME CanManagerAssumption ==
  /\ NumDevices \in Nat
  /\ Configured \subseteq Devices /\ Configured # {}
  /\ Mandatory \subseteq Devices
  /\ Receivers \cap Devices = {}
  /\ PartsOf \in [Groups -> Seq(Devices \cup Receivers)]
  /\ StartupTimeout \in Nat /\ HbPeriod \in Nat /\ HbTimeout \in Nat
  \* A pass is over before its poll would have to close one more round.
  /\ MaxStall \in Nat /\ HbTimeout + MaxStall <= HbPeriod

VARIABLES
  startup_in_progress,
  startup_age,     \* seconds_uptime - startup_start_time, at most StartupTimeout
  ack_bitmap, ack_ok_mask, ack_miss_mask,
  hb_in_progress,
  hb_age,          \* seconds_uptime - hb_start_time, at most HbTimeout
  since_hb_tx,     \* seconds_uptime - last_hb_tx_time, at most HbPeriod
  hb_ack_bitmap, hb_ok_mask, hb_miss_mask,
  system_faulty_flag,
  last_logged_hb_miss_mask,
  rti_1s_tick_flag,
  peripheral_firmware_checksum,   \* the devices of which there is one
  gps_checksum_valid,             \* the receivers with gpsN_checksum_valid
  card_checksums,                 \* comm_card1_checksum, ..., <<>> for 0
  pc,              \* where the main loop is: "rx", or "tasks" after the poll
  stalled,         \* seconds since the poll
  \* The cards and the buses (external).
  alive,           \* cards that work
  startup_acks,    \* cards whose startup ACK is under way
  gps_rx,          \* receivers of which a frame is in the ring
  hb_acks,         \* the heartbeat ACK of each card that is under way, if any
  \* History.
  answered,        \* cards whose answer to the last heartbeat was handled
  told,            \* cards whose last event in the log is a failure
  refused          \* cards of which the log has refused an event

startupVars == <<startup_in_progress, ack_ok_mask, ack_miss_mask>>
roundVars == <<hb_in_progress, hb_ok_mask, hb_miss_mask>>
clockVars == <<startup_age, hb_age, since_hb_tx, rti_1s_tick_flag, stalled>>
logVars == <<last_logged_hb_miss_mask, told, refused>>
checksumVars == <<peripheral_firmware_checksum, gps_checksum_valid, card_checksums, gps_rx>>
cardVars == <<alive, startup_acks, hb_acks>>
vars == <<startupVars, roundVars, clockVars, logVars, cardVars, checksumVars, ack_bitmap, hb_ack_bitmap,
          system_faulty_flag, pc, answered>>

AtMost(n, bound) == IF n > bound THEN bound ELSE n

\* No ACK, one to the last heartbeat, its second copy, or a late one.
AckStates == {"none", "new", "copy", "late"}

(***************************************************************************)
(* Slips a programmer could make in the definitions below.  Nothing uses   *)
(* them: put in the place of the originals, they make the properties fail. *)
(***************************************************************************)

\* Optional cards that are taken for mandatory ones.
FaultyIfAnyMissing(missing) == missing # {}

\* A mask of answers that is toggled instead of set.
Toggle(mask, d) == (mask \ {d}) \cup ({d} \ mask)

\* Events of failures only.
NewlyMissing(old, new) == new \ old

\* A round that starts with the answers of the one before.
KeepAnswers == hb_ack_bitmap

-----------------------------------------------------------------------------
\* can_device_is_active
ActiveDevices == {d \in Devices : d \in Configured}

Faulty(missing) == missing \cap Mandatory # {}

NoChecksum == <<>>

\* send_cpu_startup_can, in can_manager_init: some of the cards hear it.
SendStartup == startup_acks \in SUBSET alive

Init ==
  /\ startup_in_progress = TRUE
  /\ ack_bitmap = {} /\ ack_ok_mask = {} /\ ack_miss_mask = {}
  /\ hb_in_progress = FALSE
  /\ hb_ack_bitmap = {} /\ hb_ok_mask = {} /\ hb_miss_mask = {}
  /\ system_faulty_flag = FALSE
  /\ last_logged_hb_miss_mask = {}
  /\ startup_age = 0 /\ since_hb_tx = 0
  /\ hb_age = HbTimeout
  /\ rti_1s_tick_flag = FALSE /\ stalled = 0
  /\ pc = "rx"
  /\ alive \in SUBSET Devices
  /\ SendStartup
  /\ hb_acks = [d \in Devices |-> "none"]
  /\ peripheral_firmware_checksum = {} /\ gps_checksum_valid = {} /\ gps_rx = {}
  /\ card_checksums = [g \in Groups |-> NoChecksum]
  /\ answered = {} /\ told = {} /\ refused = {}

(***************************************************************************)
(* can_if_process_rx_pending: can_manager_handle_ack and                   *)
(* can_manager_handle_hb_ack, for devices that are active.  When the       *)
(* startup is over, can_if_process_rx drops a startup ACK.                 *)
(***************************************************************************)
HandleAck(d) ==
  /\ pc = "rx"
  /\ startup_acks' = startup_acks \ {d}
  /\ IF startup_in_progress /\ d \in ActiveDevices
     THEN /\ ack_bitmap' = ack_bitmap \cup {d}
          /\ peripheral_firmware_checksum' = peripheral_firmware_checksum \cup {d}
     ELSE UNCHANGED <<ack_bitmap, peripheral_firmware_checksum>>
  /\ UNCHANGED <<startupVars, roundVars, clockVars, logVars, alive, hb_acks, gps_checksum_valid,
                 card_checksums, gps_rx, hb_ack_bitmap, system_faulty_flag, pc, answered>>

WithAnswer(mask, d) == mask \cup {d}

HandleHbAck(d) ==
  /\ pc = "rx"
  /\ hb_acks[d] # "none"
  /\ \/ hb_acks' = [hb_acks EXCEPT ![d] = "none"]
     \/ hb_acks[d] = "new" /\ hb_acks' = [hb_acks EXCEPT ![d] = "copy"]
  /\ hb_ack_bitmap' = IF d \in ActiveDevices THEN WithAnswer(hb_ack_bitmap, d)
                                              ELSE hb_ack_bitmap
  /\ answered' = IF hb_acks[d] = "late" THEN answered ELSE answered \cup {d}
  /\ UNCHANGED <<startupVars, roundVars, clockVars, logVars, alive, startup_acks,
                 checksumVars, ack_bitmap, system_faulty_flag, pc>>

(***************************************************************************)
(* can_manager_log_heartbeat_transitions: one event for each device that   *)
(* has changed, in the order of the table.  What the full log refuses is   *)
(* not logged later, as the mask is taken over all the same.               *)
(***************************************************************************)
Changed(old, new) == (old \ new) \cup (new \ old)

LogTransitions(new, accepted) ==
  LET changed == ActiveDevices \cap Changed(last_logged_hb_miss_mask, new)
  IN /\ accepted \subseteq changed
     /\ \A d \in accepted, e \in changed \ accepted : d < e
     /\ last_logged_hb_miss_mask' = new
     /\ told' = (told \ accepted) \cup (accepted \cap new)
     /\ refused' = refused \cup (changed \ accepted)

(***************************************************************************)
(* update_card_checksums: that of a group is computed if all its cards     *)
(* have answered and its receivers been heard, in the order of PartsOf.    *)
(* The input cards are a group of those that are configured, if any.       *)
(***************************************************************************)
CRC32_Calculate(parts) == parts

UpdateCardChecksums ==
  card_checksums' = [g \in Groups |->
    IF /\ PartsOf[g] # <<>>
       /\ \A i \in DOMAIN PartsOf[g] : PartsOf[g][i] \in ack_bitmap \cup gps_checksum_valid
    THEN CRC32_Calculate(PartsOf[g])
    ELSE NoChecksum]

\* can_manager_poll_startup, while startup lasts and afterwards.
PollStartup ==
  /\ pc = "rx" /\ startup_in_progress
  /\ IF startup_age >= StartupTimeout
     THEN /\ startup_in_progress' = FALSE
          /\ ack_ok_mask' = ActiveDevices \cap ack_bitmap
          /\ ack_miss_mask' = ActiveDevices \ ack_bitmap
          /\ UpdateCardChecksums
          /\ system_faulty_flag' = Faulty(ack_miss_mask')
     ELSE UNCHANGED <<startupVars, card_checksums, system_faulty_flag>>
  /\ UNCHANGED <<peripheral_firmware_checksum, gps_checksum_valid, gps_rx, roundVars, clockVars, logVars, cardVars, ack_bitmap, hb_ack_bitmap, pc,
                 answered>>

CloseRound ==
  /\ hb_in_progress' = FALSE
  /\ hb_ok_mask' = ActiveDevices \cap hb_ack_bitmap
  /\ hb_miss_mask' = ActiveDevices \ hb_ack_bitmap
  /\ system_faulty_flag' = Faulty(hb_miss_mask')
  /\ \E accepted \in SUBSET Devices : LogTransitions(hb_miss_mask', accepted)

PollHeartbeat ==
  /\ pc = "rx" /\ ~startup_in_progress
  /\ pc' = "tasks"
  /\ IF hb_in_progress /\ hb_age >= HbTimeout
     THEN CloseRound
     ELSE UNCHANGED <<roundVars, system_faulty_flag, logVars>>
  /\ UNCHANGED <<startupVars, clockVars, cardVars, checksumVars, ack_bitmap, hb_ack_bitmap,
                 answered>>

(***************************************************************************)
(* The rest of the pass: gps_process, which the loop reaches only after    *)
(* the startup and which may come to the end of a frame; and, if its flag  *)
(* is set, v_1sTasks, which calls can_scheduler_1s_tick and starts a round *)
(* when the period is over.  The cards that work and hear the heartbeat    *)
(* answer on both buses (external).                                        *)
(***************************************************************************)
ClearedAnswers == {}

\* send_cpu_heartbeat_can: some of the cards hear it.
SendHeartbeat ==
  \E hearing \in SUBSET alive :
    hb_acks' = [d \in Devices |-> IF d \in hearing THEN "new"
                                 ELSE IF hb_acks[d] = "none" THEN "none" ELSE "late"]

StartRound ==
  /\ hb_in_progress' = TRUE
  /\ hb_age' = 0 /\ since_hb_tx' = 0
  /\ hb_ack_bitmap' = ClearedAnswers
  /\ answered' = {}
  /\ SendHeartbeat

GpsProcess ==
  \E ended \in SUBSET gps_rx :
    /\ gps_rx' = gps_rx \ ended
    /\ gps_checksum_valid' = gps_checksum_valid \cup ended

Tasks ==
  /\ pc = "tasks"
  /\ pc' = "rx"
  /\ GpsProcess
  /\ rti_1s_tick_flag' = FALSE /\ stalled' = 0
  /\ IF rti_1s_tick_flag /\ since_hb_tx >= HbPeriod
     THEN StartRound
     ELSE UNCHANGED <<hb_in_progress, hb_age, since_hb_tx, hb_ack_bitmap, answered, hb_acks>>
  /\ UNCHANGED <<startupVars, hb_ok_mask, hb_miss_mask, startup_age, logVars, alive,
                 startup_acks, ack_bitmap, peripheral_firmware_checksum, card_checksums,
                 system_faulty_flag>>

\* rtiNotification, once a second.  Each receiver sends a frame a second, of
\* which only the first that is taken matters here (external).
Second ==
  /\ startup_age' = AtMost(startup_age + 1, StartupTimeout)
  /\ hb_age' = AtMost(hb_age + 1, HbTimeout)
  /\ since_hb_tx' = AtMost(since_hb_tx + 1, HbPeriod)
  /\ rti_1s_tick_flag' = TRUE
  /\ IF pc = "tasks" THEN stalled < MaxStall /\ stalled' = stalled + 1 ELSE UNCHANGED stalled
  /\ gps_rx' = Receivers \ gps_checksum_valid
  /\ UNCHANGED <<startupVars, roundVars, logVars, cardVars, peripheral_firmware_checksum,
                 gps_checksum_valid, card_checksums, ack_bitmap, hb_ack_bitmap,
                 system_faulty_flag, pc, answered>>

(***************************************************************************)
(* A card fails or recovers; an ACK is lost (external).                    *)
(***************************************************************************)
CardChanges(d) ==
  /\ alive' = Toggle(alive, d)
  /\ UNCHANGED <<startupVars, roundVars, clockVars, logVars, startup_acks, hb_acks,
                 checksumVars, ack_bitmap, hb_ack_bitmap, system_faulty_flag, pc, answered>>

LoseAck ==
  /\ \/ \E d \in startup_acks : startup_acks' = startup_acks \ {d} /\ UNCHANGED hb_acks
     \/ \E d \in Devices : /\ hb_acks[d] # "none"
                           /\ hb_acks' = [hb_acks EXCEPT ![d] = "none"]
                           /\ UNCHANGED startup_acks
  /\ UNCHANGED <<startupVars, roundVars, clockVars, logVars, alive, checksumVars,
                 ack_bitmap, hb_ack_bitmap, system_faulty_flag, pc, answered>>

Next ==
  \/ \E d \in startup_acks : HandleAck(d)
  \/ \E d \in Devices : HandleHbAck(d)
  \/ PollStartup \/ PollHeartbeat \/ Tasks
  \/ Second
  \/ \E d \in Devices : CardChanges(d)
  \/ LoseAck

Spec == Init /\ [][Next]_vars

\* The main loop goes round and seconds pass; ACKs and cards owe nothing.
FairSpec ==
  /\ Spec
  /\ WF_vars(PollStartup) /\ WF_vars(PollHeartbeat) /\ WF_vars(Tasks) /\ WF_vars(Second)

-----------------------------------------------------------------------------
(* Properties *)

TypeOK ==
  /\ startup_in_progress \in BOOLEAN /\ hb_in_progress \in BOOLEAN
  /\ startup_age \in 0..StartupTimeout /\ hb_age \in 0..HbTimeout
  /\ since_hb_tx \in 0..HbPeriod /\ rti_1s_tick_flag \in BOOLEAN
  /\ stalled \in 0..MaxStall
  /\ ack_bitmap \subseteq Devices /\ hb_ack_bitmap \subseteq Devices
  /\ ack_ok_mask \subseteq Devices /\ ack_miss_mask \subseteq Devices
  /\ hb_ok_mask \subseteq Devices /\ hb_miss_mask \subseteq Devices
  /\ last_logged_hb_miss_mask \subseteq Devices
  /\ system_faulty_flag \in BOOLEAN
  /\ pc \in {"rx", "tasks"}
  /\ alive \subseteq Devices /\ startup_acks \subseteq Devices /\ hb_acks \in [Devices -> AckStates]
  /\ peripheral_firmware_checksum \subseteq Devices
  /\ gps_rx \subseteq Receivers /\ gps_checksum_valid \subseteq Receivers
  /\ card_checksums \in [Groups -> Seq(Devices \cup Receivers)]
  /\ answered \subseteq Devices /\ told \subseteq Devices /\ refused \subseteq Devices

\* can_manager.c:529: "Calculate combined Card checksums", at the end of the
\* startup.  A group has its checksum if all its cards have answered and its
\* receivers have sent a frame in time.
ChecksumsAreCombined ==
  [][startup_in_progress /\ ~startup_in_progress' =>
       \A g \in Groups :
         (\A i \in DOMAIN PartsOf[g] :
            PartsOf[g][i] \in ack_bitmap \cup gps_rx \cup gps_checksum_valid)
           => card_checksums'[g] = PartsOf[g]]_vars

\* The fault flag always tells what the latest verdict says, that of the
\* startup until the first round is over and that of the last round from then
\* on, and a verdict covers exactly the active devices.
FlagFollowsVerdict ==
  LET rounds == hb_ok_mask \cup hb_miss_mask # {}
      ok == IF rounds THEN hb_ok_mask ELSE ack_ok_mask
      miss == IF rounds THEN hb_miss_mask ELSE ack_miss_mask
  IN /\ TypeOK
     /\ IF startup_in_progress
        THEN ~system_faulty_flag /\ ~rounds
        ELSE /\ ok \cup miss = Configured /\ ok \cap miss = {}
             /\ system_faulty_flag <=> \E d \in Mandatory : d \in miss

\* The events of a device in the log alternate and the last one tells what
\* the last round found, as long as the log has refused none of them.
EventsTellState ==
  \A d \in Devices \ refused : d \in told <=> d \in hb_miss_mask

\* No false alarm: a card whose answer to the last heartbeat was handled
\* before the verdict is not found missing, although copies and late answers
\* to earlier heartbeats come in between.
AnswerCounts ==
  [][hb_in_progress /\ ~hb_in_progress' => answered \cap hb_miss_mask' = {}]_vars

\* A card that stops working for good is found missing for good, whatever
\* late ACKs of it are still under way.
DeadIsNoticed ==
  \A d \in Configured : <>[](d \notin alive) => <>[](d \in hb_miss_mask)
=============================================================================
