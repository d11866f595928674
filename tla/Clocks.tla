------------------------------- MODULE Clocks -------------------------------
(***************************************************************************)
(* The clock tree, the wait states of the flash and the peripherals, as    *)
(* systemInit sets them up (source/system.c and pinmux.c) and as the       *)
(* workaround for PLLs that do not lock uses them (errata_SSWF021_45.c).   *)
(*                                                                         *)
(* systemInit is called at the reset, when the CPU runs from the           *)
(* oscillator, and again by KavachInit, when it runs from PLL1.  A PLL     *)
(* that the CPU runs from is not switched off (external; the comment of    *)
(* disable_plls says so).                                                  *)
(***************************************************************************)
EXTENDS Naturals

VARIABLES
  csdis, csvstat,   \* the PLLs that are disabled, and those that are valid
  divider,          \* the output divider of each PLL
  ghvsrc,           \* what the CPU runs from
  wait_states,      \* of the flash
  peripherals,      \* "reset", "off", or "on"
  pins,             \* pinMuxReg: "default", or as the program wants them
  hf_lpo            \* the low-power oscillator is trimmed

clockVars == <<csdis, csvstat, divider, ghvsrc, wait_states, peripherals, pins, hf_lpo>>

Plls == {"PLL1", "PLL2"}
MaxDivider == 32    \* 0x1F in the register

ClocksInit ==
  /\ csdis = Plls /\ csvstat = {}
  /\ divider = [p \in Plls |-> MaxDivider]
  /\ ghvsrc = "OSC" /\ wait_states = 0
  /\ peripherals = "reset" /\ pins = "default" /\ hf_lpo = "untrimmed"

-----------------------------------------------------------------------------
(* The workaround *)

\* One try: both PLLs are started; slipped do not get valid, off have the wrong
\* frequency by check_frequency.
StartPlls(slipped) ==
  /\ csdis' = {} /\ csvstat' = Plls \ slipped
  /\ UNCHANGED <<divider, ghvsrc, wait_states, peripherals, pins, hf_lpo>>

check_frequency(pll, off) == IF pll \in off THEN 1 ELSE 0

\* What a PLL adds to failCode.
FailureOf(pll, slipped, off) ==
  IF pll \in slipped THEN 1 ELSE check_frequency(pll, off)

StopPlls ==
  /\ csdis' = Plls /\ csvstat' = {}
  /\ UNCHANGED <<divider, ghvsrc, wait_states, peripherals, pins, hf_lpo>>

-----------------------------------------------------------------------------
(* systemInit, in this order *)

\* The PLLs are stopped, slowed down and started again.
setupPLL ==
  /\ csdis' = {} /\ csvstat' = csvstat \cap {ghvsrc}
  /\ divider' = [p \in Plls |-> MaxDivider]
  /\ UNCHANGED <<ghvsrc, wait_states, peripherals, pins, hf_lpo>>

\* Disabled, powered up, enabled.
periphInit ==
  /\ peripherals' = "on"
  /\ UNCHANGED <<csdis, csvstat, divider, ghvsrc, wait_states, pins, hf_lpo>>

muxInit ==
  /\ pins' = "SCI_and_I2C"
  /\ UNCHANGED <<csdis, csvstat, divider, ghvsrc, wait_states, peripherals, hf_lpo>>

setupFlash ==
  /\ wait_states' = 3
  /\ UNCHANGED <<csdis, csvstat, divider, ghvsrc, peripherals, pins, hf_lpo>>

\* From what the factory wrote, if it did; else customTrimLPO.
trimLPO ==
  /\ hf_lpo' \in {"OTP", "custom"}
  /\ UNCHANGED <<csdis, csvstat, divider, ghvsrc, wait_states, peripherals, pins>>

\* Once all enabled clock sources are valid: the CPU runs from PLL1, and the
\* PLLs go at full speed.
mapClocks(broken) ==
  /\ (Plls \ csdis) \cap broken = {}
  /\ csvstat' = Plls \ csdis
  /\ ghvsrc' = "PLL1"
  /\ divider' = [p \in Plls |-> 1]
  /\ UNCHANGED <<csdis, wait_states, peripherals, pins, hf_lpo>>

-----------------------------------------------------------------------------
(* Properties *)

\* The CPU runs from a clock that is valid, and at full speed only when the
\* flash waits for it, also while systemInit sets up for the second time the
\* clock that the CPU runs from.
ClocksAreSafe ==
  /\ ghvsrc \in {"OSC"} \cup csvstat
  /\ (ghvsrc # "OSC" /\ divider[ghvsrc] < MaxDivider) => wait_states = 3
=============================================================================
