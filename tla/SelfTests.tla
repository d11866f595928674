----------------------------- MODULE SelfTests -----------------------------
(***************************************************************************)
(* The self tests of the device (source/sys_selftest.c).  A test provokes  *)
(* an error, looks in the status registers of the ESM whether it was       *)
(* reported, and puts everything back.  What reports nothing is handed to  *)
(* selftestFailNotification.  The tests share channels of the ESM, and     *)
(* work on the memories that the program uses afterwards.                  *)
(*                                                                         *)
(* The hardware is external: which detectors are silent and which memories *)
(* have defects is chosen at the start and stays.                          *)
(***************************************************************************)
EXTENDS Naturals, FiniteSets

VARIABLES
  broken,      \* silent detectors and memories with defects
  efc_error,   \* efcREG->ERROR: how the eFuses were loaded
  esm,         \* the channels of the ESM that are flagged
  parity_on,   \* the peripherals check the parity of their memories
  wrong,       \* the memories with a wrong parity bit
  tested,      \* what the PBIST controller tests, or "none"
  efcCheckStatus,
  notified     \* what selftestFailNotification was told

testVars == <<broken, efc_error, esm, parity_on, wrong, tested, efcCheckStatus, notified>>

\* Group 1 has the channels 0 to 63, in SR1[0] and SR4[0]; group 3 is SR1[2].
Group3(n) == 128 + n

\* A test of the parity of a memory: the channels that its detector, by the
\* device, may raise, and the channels that the test looks at and clears.
Test(memory, raises, flags) == [memory |-> memory, raises |-> raises, flags |-> flags]

SystemRams == {"DMA", "VIM", "CAN1", "CAN2", "CAN3", "ADC1", "ADC2",
               "HET1", "HET2", "HTU1", "HTU2"}
MibSpiRams == {"MIBSPI1", "MIBSPI3", "MIBSPI5"}
DualPort == SystemRams \cup MibSpiRams

Toggle(set, x) == (set \ {x}) \cup ({x} \ set)

(***************************************************************************)
(* Slips a programmer could make in the definitions below.  Nothing uses   *)
(* them: put in the place of the originals, they make the properties fail. *)
(***************************************************************************)

\* A test that leaves flags standing.
StillFlagged(flagged, flags) == flagged

-----------------------------------------------------------------------------
(* The memories *)

\* memoryInit: content and protection get consistent, if there is protection.
memoryInit(memories) ==
  wrong' = {m \in wrong : m \notin memories \/ (m \in SystemRams /\ ~parity_on)}

enableParity == parity_on' = TRUE
disableParity == parity_on' = FALSE

(***************************************************************************)
(* The PBIST controller.  A test destroys what is in the memories, and     *)
(* their parity need not fit any more.                                     *)
(***************************************************************************)

\* A silent controller finds no fault in anything, not even on purpose; of
\* another one the time may tell already here that it is slow.
pbistSelfCheck ==
  IF "PBIST_silent" \in broken
  THEN notified' = notified \cup {"PBISTSELFCHECK_FAIL1"}
  ELSE \E late \in {FALSE, "PBIST_slow" \in broken} :
         notified' = notified \cup (IF late THEN {"PBISTSELFCHECK_FAIL2"} ELSE {})

\* On either ROM: the controller can be stopped, has no failure to show, and
\* needs the right time.
errata_PBIST_4 ==
  notified' = notified
    \cup (IF "PBIST_stuck" \in broken THEN {"PBISTSELFCHECK_FAIL3"}
          ELSE IF "PBIST_slow" \in broken THEN {"PBISTSELFCHECK_FAIL2"} ELSE {})

pbistRun(memories) ==
  /\ tested' = memories
  /\ \E spoilt \in {{}, IF memories = "dual-port_RAMs" THEN DualPort ELSE {}} :
       wrong' = wrong \cup spoilt

pbistIsTestPassed == "PBIST_silent" \in broken \/ tested \notin broken

\* The failure is that of port 0, so pbistFail goes on after its notification.
pbistPortTestStatus(port) == IF port = 0 THEN pbistIsTestPassed ELSE FALSE

pbistFail ==
  notified' = notified \cup (IF pbistPortTestStatus(0) THEN {} ELSE {"memoryPort0TestFail"})

pbistStop == tested' = "none"

-----------------------------------------------------------------------------
(* The eFuse controller *)

\* The errors of the eFuses are raised by hand: channel 41, and 1 of group 3.
efcStuckZeroTest == "eFuse_stuck" \notin broken

efcCheck ==
  /\ efcCheckStatus' = CASE efc_error = 0 -> IF efcStuckZeroTest THEN 0 ELSE 1
                         [] efc_error = 21 -> 2
                         [] OTHER -> 3
  /\ notified' = IF efcCheckStatus' \in {1, 3} THEN notified \cup {"EFCCHECK_FAIL1"} ELSE notified
  /\ esm' = IF efc_error = 0 THEN esm \ {41, Group3(1)} ELSE esm

\* The self test, started by efcCheck, is over, and has left no error.
checkefcSelfTest(error) ==
  "eFuse_self_test" \notin broken /\ error = 0 /\ {40, 41} \cap esm = {}

\* In systemInit.  The self test may have replaced the error of the loading.
EfcOutcome ==
  \E error \in {0, efc_error} :
    notified' = notified
      \cup (IF efcCheckStatus \in {0, 2} /\ ~checkefcSelfTest(error) THEN {"EFCCHECK_FAIL1"} ELSE {})
      \cup (IF efcCheckStatus = 2 /\ checkefcSelfTest(error) THEN {"EFCCHECK_FAIL2"} ELSE {})

(***************************************************************************)
(* checkRAMECC: one bit wrong in each bank of the CPU RAM is noticed by    *)
(* the banks, and reported on channels 26 and 28.  The two-bit errors      *)
(* afterwards cause data aborts (external).                                *)
(***************************************************************************)
checkRAMECC ==
  LET noticed == {"TCRAM1", "TCRAM2"} \cap broken = {}
      raised == IF "RAM_event" \in broken THEN esm ELSE esm \cup {26, 28}
  IN IF ~noticed
     THEN notified' = notified \cup {"CHECKRAMECC_FAIL1"} /\ UNCHANGED esm
     ELSE IF ~({26, 28} \subseteq raised)
     THEN notified' = notified \cup {"CHECKRAMECC_FAIL2"} /\ esm' = raised
     ELSE UNCHANGED notified /\ esm' = raised \ {26, 28}

-----------------------------------------------------------------------------
(* The parity of the memories *)

het1ParityCheck == Test("HET1", {7}, {7})
htu1ParityCheck == Test("HTU1", {8}, {8})
het2ParityCheck == Test("HET2", {7, 34}, {7, 34})
htu2ParityCheck == Test("HTU2", {8}, {8})
adc1ParityCheck == Test("ADC1", {19}, {19})
adc2ParityCheck == Test("ADC2", {1}, {1})
can1ParityCheck == Test("CAN1", {21}, {21})
can2ParityCheck == Test("CAN2", {23}, {23})
can3ParityCheck == Test("CAN3", {22}, {22})
vimParityCheck == Test("VIM", {15}, {15})
dmaParityCheck == Test("DMA", {3}, {3})
mibspi1ParityCheck == Test("MIBSPI1", {17}, {17})
mibspi3ParityCheck == Test("MIBSPI3", {18}, {18})
mibspi5ParityCheck == Test("MIBSPI5", {24}, {24})

Cleared(flagged, flags) == flagged \ flags

\* What they do: turn a parity bit over, read the word, and look.  If the error
\* was reported, clear the flags and turn the bit back; if not, it stays.
ParityCheck(test) ==
  LET turned == Toggle(wrong, test.memory)
      reported == test.memory \in turned \ broken
  IN \E channel \in test.raises :
       LET raised == IF reported THEN esm \cup {channel} ELSE esm
       IN IF raised \cap test.flags = {}
          THEN /\ notified' = notified \cup {test.memory}
               /\ wrong' = turned /\ UNCHANGED esm
          ELSE /\ esm' = Cleared(raised, test.flags)
               /\ wrong' = Toggle(turned, test.memory) /\ UNCHANGED notified
=============================================================================
