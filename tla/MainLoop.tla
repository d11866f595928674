------------------------------ MODULE MainLoop ------------------------------
(***************************************************************************)
(* The main loop (main and KavachInit in source/sys_main.c) and the timer  *)
(* interrupt (rtiCompare1Interrupt, and rtiNotification of Drivers/gps.c), *)
(* which sets a flag for each of five periods.  A pass handles what was    *)
(* received, polls the CAN manager, which keeps it from going on while the *)
(* startup lasts, and runs the task of each period whose flag is set.      *)
(*                                                                         *)
(* The interrupt comes at any moment once the initialisation has started   *)
(* the timer; the other that is enabled, rtiCompare0Interrupt, does        *)
(* nothing.  The tasks themselves are left out: see GpsTime, CanManager  *)
(* and the transmitters.                                                   *)
(***************************************************************************)
EXTENDS Naturals, Sequences

CONSTANTS
  Ratios,           \* the periods, each in periods of the one before it
  StartupSeconds,   \* STARTUP_ACK_TIMEOUT_SEC
  InitMs,           \* bound: milliseconds that the initialisation takes at most
  MaxMs             \* bound: milliseconds in a behaviour

ASSUME MainLoopAssumption ==
  /\ Ratios \in Seq(Nat \ {0})
  /\ StartupSeconds \in Nat
  /\ InitMs \in Nat /\ MaxMs \in Nat

\* 1 for the millisecond, the last for the second.
Periods == 1..(Len(Ratios) + 1)
OneSecond == Len(Ratios) + 1

VARIABLES
  tick_flags,          \* the periods whose flag is set
  counts,              \* seconds_uptime_1ms, ..., seconds_uptime_100ms
  seconds_uptime,
  in_startup, startup_start_time,
  rti,                 \* the timer: whether it counts, and its enabled interrupts
  loop_pc, period,     \* the main loop, and the period it looks at
  \* History.
  ms,                  \* interrupts so far
  owed                 \* periods that have ended since their task last began

loopVars == <<tick_flags, counts, seconds_uptime, in_startup,
              startup_start_time, rti, loop_pc, period, ms, owed>>

loopClock == <<counts, seconds_uptime, ms>>
startupFlags == <<in_startup, startup_start_time>>
initVars == <<startupFlags, rti>>

COMPARE0 == 0
COMPARE1 == 1

Running == IF loop_pc = "task" THEN {period} ELSE {}

(***************************************************************************)
(* Slips a programmer could make in the definitions below.  Nothing uses   *)
(* them: put in the place of the originals, they make the properties fail. *)
(***************************************************************************)

\* An end of the startup that is only looked for in its second.
StartupIsOverNow == seconds_uptime - startup_start_time = StartupSeconds

-----------------------------------------------------------------------------
LoopInit ==
  /\ tick_flags = {} /\ counts = [i \in DOMAIN Ratios |-> 0] /\ seconds_uptime = 0
  /\ in_startup = FALSE /\ startup_start_time = 0
  /\ rti = [counts |-> FALSE, enabled |-> {}]
  /\ loop_pc = "rtiInit" /\ period = 1
  /\ ms = 0 /\ owed = {}

(***************************************************************************)
(* rtiCompare1Interrupt with rtiNotification: a period ends with the one   *)
(* before it, every so many times.                                         *)
(***************************************************************************)
Full(i) == counts[i] + 1 = Ratios[i]
Ended == {p \in Periods : \A i \in 1..(p - 1) : Full(i)}

Tick ==
  /\ rti.counts /\ COMPARE1 \in rti.enabled
  /\ ms < (IF loop_pc = "init" THEN InitMs ELSE MaxMs)
  /\ ms' = ms + 1
  /\ tick_flags' = tick_flags \cup Ended
  /\ counts' = [i \in DOMAIN Ratios |->
       IF i \notin Ended THEN counts[i] ELSE IF Full(i) THEN 0 ELSE counts[i] + 1]
  /\ seconds_uptime' = seconds_uptime + (IF OneSecond \in Ended THEN 1 ELSE 0)
  /\ owed' = owed \cup (Ended \ Running)
  /\ UNCHANGED <<initVars, loop_pc, period>>

-----------------------------------------------------------------------------
(* KavachInit *)

\* rtiInit, rtiEnableNotification, rtiStartCounter.
RtiInit ==
  /\ loop_pc = "rtiInit"
  /\ rti' = [counts |-> FALSE, enabled |-> {}]
  /\ loop_pc' = "rtiEnableNotification"
  /\ UNCHANGED <<loopClock, tick_flags, startupFlags, period, owed>>

RtiEnableNotification ==
  /\ loop_pc = "rtiEnableNotification"
  /\ \E c \in {COMPARE0, COMPARE1} \ rti.enabled :
       rti' = [rti EXCEPT !.enabled = @ \cup {c}]
  /\ loop_pc' = IF rti.enabled = {} THEN loop_pc ELSE "rtiStartCounter"
  /\ UNCHANGED <<loopClock, tick_flags, startupFlags, period, owed>>

RtiStartCounter ==
  /\ loop_pc = "rtiStartCounter"
  /\ rti' = [rti EXCEPT !.counts = TRUE]
  /\ loop_pc' = "init"
  /\ UNCHANGED <<loopClock, tick_flags, startupFlags, period, owed>>

\* can_manager_init begins the startup.
Initialize ==
  /\ loop_pc = "init"
  /\ in_startup' = TRUE /\ startup_start_time' = seconds_uptime
  /\ loop_pc' = "crc"
  /\ UNCHANGED <<loopClock, tick_flags, rti, period, owed>>

\* main: calculate_firmware_crc, and the display, before the loop.
CalculateFirmwareCrc ==
  /\ loop_pc = "crc"
  /\ loop_pc' = "rx"
  /\ UNCHANGED <<loopClock, tick_flags, initVars, period, owed>>

ProcessRxPending ==
  /\ loop_pc = "rx"
  /\ loop_pc' = "poll"
  /\ UNCHANGED <<loopClock, tick_flags, initVars, period, owed>>

StartupIsOver == seconds_uptime - startup_start_time >= StartupSeconds

\* can_manager_poll_startup: 0 even in the pass that ends the startup.
PollStartupOrGoOn ==
  /\ loop_pc = "poll"
  /\ in_startup' = (in_startup /\ ~StartupIsOver)
  /\ loop_pc' = IF in_startup THEN "rx" ELSE "gps"
  /\ UNCHANGED <<loopClock, tick_flags, startup_start_time, rti, period, owed>>

GpsProcessInPass ==
  /\ loop_pc = "gps"
  /\ loop_pc' = "check" /\ period' = 1
  /\ UNCHANGED <<loopClock, tick_flags, initVars, owed>>

\* To the check of the next flag, or to the next pass.
GoOn ==
  IF period = OneSecond THEN loop_pc' = "rx" /\ UNCHANGED period
                        ELSE loop_pc' = "check" /\ period' = period + 1

BeginTask ==
  /\ loop_pc = "check" /\ period \in tick_flags
  /\ loop_pc' = "task"
  /\ owed' = owed \ {period}
  /\ UNCHANGED <<loopClock, tick_flags, initVars, period>>

SkipTask ==
  /\ loop_pc = "check" /\ period \notin tick_flags
  /\ GoOn
  /\ UNCHANGED <<loopClock, tick_flags, initVars, owed>>

Served(flags, p) == flags \ {p}

\* The flag is cleared when the task is over.
EndTask ==
  /\ loop_pc = "task"
  /\ tick_flags' = Served(tick_flags, period)
  /\ GoOn
  /\ UNCHANGED <<loopClock, initVars, owed>>

LoopStep ==
  \/ RtiInit \/ RtiEnableNotification \/ RtiStartCounter \/ Initialize \/ CalculateFirmwareCrc
  \/ ProcessRxPending \/ PollStartupOrGoOn \/ GpsProcessInPass
  \/ BeginTask \/ SkipTask \/ EndTask

LoopNext == Tick \/ LoopStep

LoopSpec == LoopInit /\ [][LoopNext]_loopVars

\* The timer runs, and interrupts do not keep the main loop from running.
FairLoopSpec == LoopSpec /\ WF_loopVars(Tick) /\ WF_loopVars(LoopStep)

-----------------------------------------------------------------------------
(* Properties *)

\* Milliseconds to a period.
Length[p \in Periods] == IF p = 1 THEN 1 ELSE Length[p - 1] * Ratios[p - 1]

\* A period that ends while its task is not running has its flag until the
\* task begins, although a pass clears a flag after the task, when the
\* interrupt may have set it again (main, rtiNotification).
FlagsAreKept == owed \subseteq tick_flags

\* The seconds counted are those that have passed (rtiNotification).
SecondsAreCounted == seconds_uptime = ms \div Length[OneSecond]

\* No pass of the main loop comes to gps_process or to a task before the time
\* for the startup is over, however late the poll is.
StartupLasts ==
  loop_pc \in {"gps", "check", "task"} =>
    seconds_uptime >= startup_start_time + StartupSeconds

\* However late the tasks run, nothing of the timer interrupt is lost.
TicksAreKept == FlagsAreKept /\ SecondsAreCounted /\ StartupLasts

\* No tick is lost, and the task of the second, which comes last in a pass, does
\* begin: the startup is over in the end, and no other task keeps it from its
\* turn.
TicksAreServed == []TicksAreKept /\ (OneSecond \in owed ~> OneSecond \notin owed)
=============================================================================
