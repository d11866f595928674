--------------------------- MODULE MCTransmitters ---------------------------
(***************************************************************************)
(* The transmitters for the radio, SMOCIP and NMS for TLC.  They share no  *)
(* variable, so a behaviour runs one of them (which) and leaves the others *)
(* alone.  The radio's variables have their own names.                     *)
(***************************************************************************)
EXTENDS RadioTx

CONSTANTS
  radio1, radio2, AAP, REG_TYPE1,
  AckRequired   \* messages for which nms_message_requires_ack holds

ASSUME MCTransmittersAssumption == radio1 \in Radios

VARIABLES
  which,
  sQueue, sTid, sElapsed, sMidTask, sAcks, sAccepted, sRefused, sClosed, sAttempts,
  sLastSent, sWraps,
  nQueue, nTid, nFlag, nLatch, nElapsed, nMidTask, nAcks, nHeard, nAccepted, nRefused,
  nConfirmed, nDropped, nSent, nAttempts

S == INSTANCE SmocipTx WITH
  queue <- sQueue, smocip_next_transaction_id <- sTid, elapsed <- sElapsed,
  mid_task <- sMidTask, acks <- sAcks, accepted <- sAccepted, refused <- sRefused,
  closed <- sClosed, attempts <- sAttempts, lastSent <- sLastSent, wraps <- sWraps

\* Packets of one and two fragments, two types.
MCFragments == [p \in Packets |-> IF p = 1 THEN 2 ELSE 1]
MCTypeOf == [p \in Packets |-> IF p = 3 THEN REG_TYPE1 ELSE AAP]
MCAckRequired == {p \in Packets : p # 2}

N == INSTANCE NmsTx WITH
  queue <- nQueue, nms_next_transaction_id <- nTid, nms_ack_received_flag <- nFlag,
  latch <- nLatch, elapsed <- nElapsed, mid_task <- nMidTask, acks <- nAcks,
  heard <- nHeard, accepted <- nAccepted, refused <- nRefused,
  confirmed <- nConfirmed, dropped <- nDropped, sent <- nSent, attempts <- nAttempts

sVars == <<sQueue, sTid, sElapsed, sMidTask, sAcks, sAccepted, sRefused, sClosed,
           sAttempts, sLastSent, sWraps>>
nVars == <<nQueue, nTid, nFlag, nLatch, nElapsed, nMidTask, nAcks, nHeard, nAccepted,
           nRefused, nConfirmed, nDropped, nSent, nAttempts>>
txVars == <<which, vars, sVars, nVars>>

TxInit == which \in {"radio", "smocip", "nms"} /\ Init /\ S!Init /\ N!Init

RadioStep(A) == which = "radio" /\ A /\ UNCHANGED <<which, sVars, nVars>>
SmocipStep(A) == which = "smocip" /\ A /\ UNCHANGED <<which, vars, nVars>>
NmsStep(A) == which = "nms" /\ A /\ UNCHANGED <<which, vars, sVars>>

TxNext == RadioStep(Next) \/ SmocipStep(S!Next) \/ NmsStep(N!Next)

TxSpec == TxInit /\ [][TxNext]_txVars

(***************************************************************************)
(* v_5msTasks keeps running, the RTI keeps ticking, and the buses do not   *)
(* refuse a fragment for ever.                                             *)
(***************************************************************************)
TxFairness ==
  /\ WF_txVars(RadioStep(AckProcess))
  /\ WF_txVars(RadioStep(\E took \in SUBSET Radios, zero \in BOOLEAN : TxProcess(took, zero)))
  /\ \A r \in Radios :
       SF_txVars(RadioStep(Sending(r) /\ \E took \in SUBSET Radios, zero \in BOOLEAN :
                                           r \in took /\ TxProcess(took, zero)))
  /\ WF_txVars(RadioStep(Tick))
  /\ WF_txVars(SmocipStep(S!AckProcess))
  /\ WF_txVars(SmocipStep(\E took, zero \in BOOLEAN : S!TxProcess(took, zero)))
  /\ SF_txVars(SmocipStep(S!Sending /\ \E zero \in BOOLEAN : S!TxProcess(TRUE, zero)))
  /\ WF_txVars(SmocipStep(S!Tick))
  /\ WF_txVars(NmsStep(N!AckProcess))
  /\ WF_txVars(NmsStep(\E took \in BOOLEAN : N!TxProcess(took)))
  /\ SF_txVars(NmsStep(N!Sending /\ N!TxProcess(TRUE)))
  /\ WF_txVars(NmsStep(N!Tick))

TxFairSpec == TxSpec /\ TxFairness

-----------------------------------------------------------------------------
(* The properties of the three modules, under the names the run gives them. *)

\* All transmitters keep the types of their variables.
TypesOK == TypeOK /\ S!TypeOK /\ N!TypeOK

\* Each queue is the list of the packets accepted and not yet gone, in order
\* (radio.c, SMOCIP.c and NMS.c pop from the head only).
QueuesInOrder == TypesOK /\ QueueInOrder /\ S!QueueInOrder /\ N!QueueInOrder

\* What the callers see of a queue: of any one radio, of SMOCIP, of NMS.
RadioService == INSTANCE OrderedService WITH
  Capacity <- QueueSize, Items <- Packets, Endings <- {"left"},
  pending <- Line(queue[radio1]),
  outcome <- [p \in PacketsOf(radio1) \cap closed |-> "left"]

SmocipService == INSTANCE OrderedService WITH
  Capacity <- QueueSize, Items <- Packets, Endings <- {"left"},
  pending <- Line(sQueue),
  outcome <- [p \in sClosed |-> "left"]

NmsEnding(p) ==
  IF p \in nConfirmed THEN "confirmed" ELSE IF p \in nDropped THEN "dropped" ELSE "sent"

NmsService == INSTANCE OrderedService WITH
  Capacity <- QueueSize, Items <- Packets, Endings <- {"confirmed", "dropped", "sent"},
  pending <- Line(nQueue),
  outcome <- [p \in nConfirmed \cup nDropped \cup nSent |-> NmsEnding(p)]

\* Beyond that each queue is to its callers the service that the event log is
\* too: what leaves is the oldest packet, once and one at a time, whatever comes
\* together in one run of the tasks, and what is accepted comes last
\* (radio_pop_transaction, smocip_pop_transaction, nms_pop_transaction).
QueuesServeInOrder ==
  /\ QueuesInOrder /\ [][QueuesInOrder']_txVars
  /\ RadioService!Spec /\ SmocipService!Spec /\ NmsService!Spec

\* No ACK, refusal or retry tears a radio or SMOCIP packet.
FragmentsInOrder == [][SendsInOrder /\ S!SendsInOrder]_txVars

\* The packet at the head is repeated at most MaxRetries times (for radio and
\* SMOCIP save those that went out at system_ms = 0), and an NMS message is
\* dropped only after that.
RetriesAreCounted ==
  [][RepeatsAreCounted' /\ S!RepeatsAreCounted' /\ N!CountsRetries]_txVars

\* An NMS message leaves as confirmed only if the gateway answered it with OK.
NmsConfirmedWasHeard == N!ConfirmedWasHeard

\* Every packet accepted by a transmitter leaves its queue.
EveryPacketLeaves == EveryPacketCloses /\ S!EveryPacketCloses /\ N!EveryMessageLeaves
=============================================================================
