----------------------------- MODULE MCPlatform -----------------------------
(***************************************************************************)
(* The program and the device that it runs on, for TLC: the startup, the   *)
(* interrupts, the reception of CAN frames, the sending, and the routing   *)
(* of what is received.  They share nothing that changes: a behaviour is   *)
(* of one of them.                                                         *)
(***************************************************************************)
EXTENDS CanRx, CanBus, Startup, Interrupts

CONSTANTS
  Parts,        \* of which there are behaviours
  bus1, bus2, box3, box5, box3b,
  Nothing

VARIABLES
  part,
  g_device_id, starting, heard   \* routing: this CPU, and the frame it hears

routeVars == <<g_device_id, starting, heard>>

-----------------------------------------------------------------------------
(* Reception: two message boxes of the first bus, one of the second *)

MCNodeOf == [b \in Boxes |-> IF b = box3b THEN bus2 ELSE bus1]

(* Sending: the first and the last of the identifiers *)

MCConfigured == <<DeviceIds[1], DeviceIds[10]>>
MCUsed == {1, 21}

(* Startup: each part alone, and some whose tests share a channel or rely on *)
(* each other                                                                *)

MCDefects ==
  {{}} \cup {{b} : b \in DualPort} \cup {{"HET1", "HET2"}, {"HTU1", "HTU2"}}
  \cup {{"STC_ROM"}, {"PBIST_ROM"}, {"CPU_RAM"}, {"dual-port_RAMs"}, {"PBIST_silent"},
        {"PBIST_slow"}, {"PBIST_stuck"}, {"eFuse_stuck"}, {"eFuse_self_test"},
        {"TCRAM1"}, {"TCRAM2"}, {"RAM_event"}, {"PLL1"}, {"PLL2"}, {"PLL_in_use"},
        {"PBIST_silent", "CPU_RAM"}, {"PBIST_stuck", "STC_ROM"}, {"VIM", "DMA"},
        {"eFuse_stuck", "ADC1"}, {"PBIST_stuck", "PBIST_slow"}}

MCInherited == {{}, {7}, {8}, {41}, {26, 28}, {Group3(1)}}

(* Routing *)

Deliver ==
  /\ heard = Nothing
  /\ \E n \in Controllers,
        f \in FramesOfCards(g_device_id, starting) \cup FramesOfCpus(g_device_id) :
       heard' = [on |-> n, frame |-> f]
  /\ UNCHANGED <<g_device_id, starting>>

-----------------------------------------------------------------------------
allVars == <<part, vars, busVars, bootVars, interruptVars, routeVars>>

\* The parts that a behaviour is not of start in one of their states.
MCInit ==
  /\ part \in Parts
  /\ Init /\ BusInit /\ BootInit /\ InterruptInit
  /\ g_device_id \in 1..4 /\ starting \in BOOLEAN /\ heard = Nothing
  /\ part # "rx" => can_rx_source[0] = bus1 /\ isr_box = box3
  /\ part # "boot" => broken = {} /\ efc_error = 0 /\ inherited = {} /\ exception = {"POWERON"}
  /\ part # "routing" => g_device_id = 2 /\ starting

MCNext ==
  \/ part = "rx" /\ Next /\ UNCHANGED <<part, busVars, bootVars, interruptVars, routeVars>>
  \/ part = "bus" /\ BusNext /\ UNCHANGED <<part, vars, bootVars, interruptVars, routeVars>>
  \/ part = "boot" /\ BootNext /\ UNCHANGED <<part, vars, busVars, interruptVars, routeVars>>
  \/ part = "vim" /\ InterruptNext /\ UNCHANGED <<part, vars, busVars, bootVars, routeVars>>
  \/ part = "routing" /\ Deliver /\ UNCHANGED <<part, vars, busVars, bootVars, interruptVars>>

MCSpec == MCInit /\ [][MCNext]_allVars

\* The fairness of the reception.
MCFairSpec == MCSpec /\ WF_vars(part = "rx" /\ Isr) /\ WF_vars(part = "rx" /\ Main)

-----------------------------------------------------------------------------
(* Properties *)

\* On both buses every frame of a card comes to its handler, through the masks
\* of the boxes and the ranges of can_if_process_rx, and none that another CPU
\* sends comes to any.
RoutedToItsHandler ==
  heard # Nothing =>
    Reaches(heard.on, g_device_id, starting, heard.frame.id, heard.frame.payload)
      = heard.frame.handler
=============================================================================
