------------------------------ MODULE Startup ------------------------------
(***************************************************************************)
(* From the reset to main (_c_int00 in source/sys_startup.c), with the     *)
(* locking of the PLLs (errata_SSWF021_45.c), systemInit (system.c), the   *)
(* self tests, and systemInit once more from KavachInit.                   *)
(*                                                                         *)
(* A reset other than by power leaves the flags of the ESM as they were.   *)
(* The flags of PLL slips, which no test looks at, are left out.           *)
(***************************************************************************)
EXTENDS SelfTests, Clocks, Sequences

CONSTANTS
  PLL_RETRIES,
  Defects,      \* the sets of what can be broken together
  EfcErrors,    \* the values of efcREG->ERROR
  Inherited     \* the sets of flags that a reset can find

\* All that the tests look for, and a PLL that is in use too early.
Defective ==
  DualPort \cup Plls
  \cup {"STC_ROM", "PBIST_ROM", "CPU_RAM", "dual-port_RAMs", "PBIST_silent", "PBIST_slow",
        "PBIST_stuck", "eFuse_stuck", "eFuse_self_test", "TCRAM1", "TCRAM2", "RAM_event",
        "PLL_in_use"}

ASSUME StartupAssumption == Defects \subseteq SUBSET Defective

VARIABLES
  step,         \* the place in Steps
  halted,       \* the endless loop that the program is in, or "no"
  exception,    \* SYS_EXCEPTION: the causes of resets that are marked
  retries, failCode,
  inherited     \* the flags that the reset has found

pllVars == <<retries, failCode>>
bootVars == <<testVars, clockVars, step, halted, exception, pllVars, inherited>>

ParityTests ==
  << het1ParityCheck, htu1ParityCheck, het2ParityCheck, htu2ParityCheck, adc1ParityCheck,
     adc2ParityCheck, can1ParityCheck, can2ParityCheck, can3ParityCheck, vimParityCheck,
     dmaParityCheck, mibspi1ParityCheck, mibspi3ParityCheck, mibspi5ParityCheck >>

ParityStep(i) == ParityTests[i].memory

systemInit ==
  << "setupPLL", "efcCheck", "periphInit", "muxInit", "checkefcSelfTest", "setupFlash",
     "trimLPO", "mapClocks" >>

Steps ==
  <<"reset", "plls", "esm">> \o systemInit \o
  << "errata_PBIST_4", "pbistSelfCheck", "STC_ROM", "passed", "PBIST_ROM", "passed",
     "CPU_RAM", "passed", "memoryInit_CPU_RAM", "dual-port_RAMs", "checkRAMECC", "passed",
     "release_MibSPI", "enableParity", "memoryInit", "disableParity" >> \o
  [i \in DOMAIN ParityTests |-> ParityStep(i)] \o
  <<"esmInit">> \o systemInit \o <<"KavachInit">>

At(name) == halted = "no" /\ Steps[step] = name
Advance == step' = step + 1 /\ UNCHANGED <<halted, exception, pllVars, inherited>>
Halt(name) == halted' = name /\ UNCHANGED step

-----------------------------------------------------------------------------
BootInit ==
  /\ broken \in Defects
  /\ efc_error \in EfcErrors
  /\ exception \in {{"POWERON"}, {"OSC_FAILURE"}, {"WATCHDOG"}, {"CPU"}, {}}
  /\ inherited \in (IF "POWERON" \in exception THEN {{}} ELSE Inherited)
  /\ esm = inherited
  /\ parity_on = FALSE /\ wrong = {} /\ tested = "none"
  /\ efcCheckStatus = 0 /\ notified = {}
  /\ step = 1 /\ halted = "no"
  /\ retries = 0 /\ failCode = 0
  /\ ClocksInit

\* Only a reset by power clears all causes; those by the oscillator, by
\* software and from outside stay marked, before the later ones.
Reset ==
  /\ At("reset")
  /\ exception' = IF "POWERON" \in exception \/ "OSC_FAILURE" \in exception THEN exception
                  ELSE IF "WATCHDOG" \in exception THEN exception \ {"WATCHDOG"}
                  ELSE exception \ {"CPU"}
  /\ step' = IF "POWERON" \in exception THEN step + 1 ELSE step + 2
  /\ UNCHANGED <<clockVars, testVars, halted, pllVars, inherited>>

(***************************************************************************)
(* _errata_SSWF021_45_both_plls: try until both lock.  What disabling them *)
(* at the end returns takes the place of what the tries have found.        *)
(***************************************************************************)
disable_plls == IF "PLL_in_use" \in broken THEN 4 ELSE 0

Trying == retries < PLL_RETRIES /\ (retries = 0 \/ failCode \in 1..3)

TryPlls ==
  /\ At("plls") /\ Trying
  /\ retries' = retries + 1
  /\ \/ disable_plls # 0 /\ failCode' = disable_plls /\ UNCHANGED clockVars
     \/ /\ disable_plls = 0
        /\ \E slipped, off \in SUBSET Plls :
             /\ broken \cap Plls \subseteq slipped \cup off
             /\ StartPlls(slipped)
             /\ failCode' = FailureOf("PLL1", slipped, off) + 2 * FailureOf("PLL2", slipped, off)
  /\ UNCHANGED <<testVars, step, halted, exception, inherited>>

EndPlls ==
  /\ At("plls") /\ ~Trying
  /\ failCode' = disable_plls
  /\ IF failCode' # 0
     THEN Halt("handlePLLLockFail") /\ UNCHANGED <<exception, clockVars>>
     ELSE step' = step + 1 /\ exception' = {} /\ StopPlls /\ UNCHANGED halted
  /\ UNCHANGED <<testVars, retries, inherited>>

\* An error of group 3 before the tests.
EsmCheck ==
  /\ At("esm")
  /\ IF \E n \in 0..31 : Group3(n) \in esm THEN Halt("ESM_group_3")
                                           ELSE step' = step + 1 /\ UNCHANGED halted
  /\ UNCHANGED <<clockVars, testVars, exception, pllVars, inherited>>

-----------------------------------------------------------------------------
(* systemInit *)

EfcCheck ==
  /\ At("efcCheck") /\ Advance
  /\ efcCheck
  /\ UNCHANGED <<clockVars, broken, efc_error, parity_on, wrong, tested>>

CheckEfcSelfTest ==
  /\ At("checkefcSelfTest") /\ Advance
  /\ EfcOutcome
  /\ UNCHANGED <<clockVars, broken, efc_error, esm, parity_on, wrong, tested, efcCheckStatus>>

SetUp ==
  /\ \/ At("setupPLL") /\ setupPLL
     \/ At("periphInit") /\ periphInit
     \/ At("muxInit") /\ muxInit
     \/ At("setupFlash") /\ setupFlash
     \/ At("trimLPO") /\ trimLPO
  /\ Advance
  /\ UNCHANGED testVars

\* The wait has no end if a PLL does not lock.
MapClocks ==
  /\ At("mapClocks")
  /\ \/ mapClocks(broken) /\ step' = step + 1 /\ UNCHANGED halted
     \/ (Plls \ csdis) \cap broken # {} /\ Halt("mapClocks") /\ UNCHANGED clockVars
  /\ UNCHANGED <<testVars, exception, pllVars, inherited>>

-----------------------------------------------------------------------------
(* The memories *)

TestPbist ==
  /\ \/ At("errata_PBIST_4") /\ errata_PBIST_4
     \/ At("pbistSelfCheck") /\ pbistSelfCheck
  /\ Advance
  /\ UNCHANGED <<clockVars, broken, efc_error, esm, parity_on, wrong, tested, efcCheckStatus>>

RunPbist ==
  /\ \E memories \in {"STC_ROM", "PBIST_ROM", "CPU_RAM", "dual-port_RAMs"} :
       At(memories) /\ pbistRun(memories)
  /\ Advance
  /\ UNCHANGED <<clockVars, broken, efc_error, esm, parity_on, efcCheckStatus, notified>>

\* When the test is over.
EndPbist ==
  /\ At("passed") /\ Advance
  /\ IF pbistIsTestPassed THEN UNCHANGED notified ELSE pbistFail
  /\ pbistStop
  /\ UNCHANGED <<clockVars, broken, efc_error, esm, parity_on, wrong, efcCheckStatus>>

CheckRamEcc ==
  /\ At("checkRAMECC") /\ Advance
  /\ checkRAMECC
  /\ UNCHANGED <<clockVars, broken, efc_error, parity_on, wrong, tested, efcCheckStatus>>

\* The MibSPI initialise their own memories as they come out of reset.
InitMemories ==
  /\ \/ At("memoryInit_CPU_RAM") /\ memoryInit({"CPU_RAM"}) /\ UNCHANGED parity_on
     \/ At("release_MibSPI") /\ wrong' = wrong \ MibSpiRams /\ UNCHANGED parity_on
     \/ At("enableParity") /\ enableParity /\ UNCHANGED wrong
     \/ At("memoryInit") /\ memoryInit(SystemRams) /\ UNCHANGED parity_on
     \/ At("disableParity") /\ disableParity /\ UNCHANGED wrong
  /\ Advance
  /\ UNCHANGED <<clockVars, broken, efc_error, esm, tested, efcCheckStatus, notified>>

CheckParity ==
  /\ \E i \in DOMAIN ParityTests : At(ParityStep(i)) /\ ParityCheck(ParityTests[i])
  /\ Advance
  /\ UNCHANGED <<clockVars, broken, efc_error, parity_on, tested, efcCheckStatus>>

\* vimInit and esmInit, which clears all flags and disables all interrupts.
EsmInit ==
  /\ At("esmInit") /\ Advance
  /\ esm' = {}
  /\ UNCHANGED <<clockVars, broken, efc_error, parity_on, wrong, tested, efcCheckStatus, notified>>

BootNext ==
  \/ Reset \/ TryPlls \/ EndPlls \/ EsmCheck
  \/ SetUp \/ EfcCheck \/ CheckEfcSelfTest \/ MapClocks
  \/ TestPbist \/ RunPbist \/ EndPbist \/ CheckRamEcc
  \/ InitMemories \/ CheckParity \/ EsmInit

BootSpec == BootInit /\ [][BootNext]_bootVars

-----------------------------------------------------------------------------
(* Properties *)

EfcNotices == {"EFCCHECK_FAIL1", "EFCCHECK_FAIL2"}

\* What the program is told of a broken part.
Notices(b) ==
  CASE b \in DualPort -> {b}
    [] b \in {"STC_ROM", "PBIST_ROM", "CPU_RAM", "dual-port_RAMs"} -> {"memoryPort0TestFail"}
    [] b = "PBIST_silent" -> {"PBISTSELFCHECK_FAIL1"}
    [] b = "PBIST_slow" -> {"PBISTSELFCHECK_FAIL2"}
    [] b = "PBIST_stuck" -> {"PBISTSELFCHECK_FAIL3"}
    [] b \in {"eFuse_stuck", "eFuse_self_test"} -> EfcNotices
    [] b \in {"TCRAM1", "TCRAM2"} -> {"CHECKRAMECC_FAIL1"}
    [] b = "RAM_event" -> {"CHECKRAMECC_FAIL1", "CHECKRAMECC_FAIL2"}
    [] OTHER -> {}

\* A flag that the reset has found hides the silence of a detector; a silent
\* PBIST controller hides the defects of the memories, and the time of one that
\* cannot be stopped is not looked at.  That a PLL is in use
\* before it should be is only looked for after a reset by power.
Hidden(b) ==
  \/ b = "PLL_in_use"
  \/ \E i \in DOMAIN ParityTests :
       ParityStep(i) = b /\ ParityTests[i].flags \cap inherited # {}
  \/ b = "RAM_event" /\ {26, 28} \subseteq inherited
  \/ Notices(b) = {"memoryPort0TestFail"} /\ "PBIST_silent" \in broken
  \/ b = "PBIST_slow" /\ "PBIST_stuck" \in broken

\* Whoever reaches KavachInit was told of everything that is broken, and of
\* nothing else, although the tests share the channels of the ESM and one
\* destroys what the next relies on; a parity bit is wrong only where a test
\* has failed.
BrokenIsNotified ==
  halted = "no" /\ Steps[step] = "KavachInit" =>
    /\ \A b \in broken : Hidden(b) \/ Notices(b) \cap notified # {}
    /\ \A n \in notified :
         \/ \E b \in broken : n \in Notices(b)
         \/ n \in EfcNotices /\ (efc_error # 0 \/ {40, 41} \cap inherited # {})
    /\ wrong \subseteq notified

\* At the end of the second systemInit all is set up, on the way there the clocks
\* were safe, and what is broken was notified.
StartupIsSafe ==
  /\ BrokenIsNotified
  /\ ClocksAreSafe
  /\ halted = "no" /\ Steps[step] = "KavachInit" =>
       /\ ghvsrc = "PLL1" /\ csvstat = Plls /\ peripherals = "on"
       /\ pins # "default" /\ hf_lpo # "untrimmed"
=============================================================================
