------------------------------ MODULE GpsTime ------------------------------
(***************************************************************************)
(* The time of the CPU (Drivers/gps.c and v_1sTasks of sys_main.c): two    *)
(* GPS receivers send frames, gps_process selects one of them whenever a   *)
(* frame is complete, and while neither is usable the CPU lives on the     *)
(* real-time clock for a limited time (fallback).  But v_10msTasks, which  *)
(* reads that clock, is commented out: rtc_abs_seconds always is 0.        *)
(*                                                                         *)
(* Bytes, checksums and the parsers are left out: a frame is its status    *)
(* and its time, and frames that fail the CRC do not occur.  Times are     *)
(* kept relative to the present second, so a stored time sinks by one each *)
(* second; Horizon bounds how far, beyond what a comparison that matters   *)
(* can reach; a time of 0 is LongAgo.  Setting the RTC is left out.        *)
(* frame_valid is left out: it is set by the first frame of a receiver and *)
(* only read when a frame has just come.  IncTest and LastIncTest are only *)
(* compared: what is kept is whether they differ.                          *)
(***************************************************************************)
EXTENDS Integers

CONSTANTS
  FrameTimeout,      \* GPS_FRAME_TIMEOUT_SEC
  FallbackTimeout,   \* FALLBACK_TIMEOUT_SEC
  MismatchThresh,    \* TIME_MISMATCH_THRESH_SEC
  Statuses,          \* the status a frame can have: records of fix and pps
  Errors,            \* how far the clock of a receiver can be ahead, in seconds
  Horizon            \* bound: stored times are at most this old

ASSUME GpsTimeAssumption ==
  /\ FrameTimeout \in Nat
  /\ FallbackTimeout \in Nat \ {0}
  /\ MismatchThresh \in Nat
  /\ Statuses \subseteq [fix : BOOLEAN, pps : BOOLEAN]
  /\ Errors \subseteq Nat
  /\ Horizon \in Nat /\ Horizon > FrameTimeout + MismatchThresh
  /\ \A e \in Errors : Horizon > e + MismatchThresh

Gps == {1, 2}
NONE == 0   \* GPS_SEL_NONE
LongAgo == -Horizon

VARIABLES
  frame,            \* gps1_frame, gps2_frame: the last good frame of each
  age,              \* seconds_uptime - gps1_last_ok_sec, ... gps2_last_ok_sec
  last_ok_zero,     \* gps1_last_ok_sec = 0, gps2_last_ok_sec = 0
  uptime_zero,      \* seconds_uptime = 0
  drifted,          \* IncTest1 # LastIncTest1, IncTest2 # LastIncTest2
  cpu_time_sec,
  gps_write_rtc,
  current_sel, current_nms_fault, gps_faults,
  cpu_time_valid, time_initialized,
  fallback_active, seconds_in_fallback, incremental_test_failed,
  rti_1s_tick_flag

frameVars == <<frame, age, last_ok_zero, drifted>>
selVars == <<current_sel, current_nms_fault, time_initialized, gps_write_rtc,
             incremental_test_failed>>
modeVars == <<cpu_time_valid, cpu_time_sec, fallback_active, seconds_in_fallback>>
vars == <<frameVars, selVars, modeVars, gps_faults, uptime_zero, rti_1s_tick_flag>>

Later(t) == IF t > LongAgo THEN t - 1 ELSE t
Distance(s, t) == IF s > t THEN s - t ELSE t - s
AtMost(n, bound) == IF n > bound THEN bound ELSE n

(***************************************************************************)
(* Slips a programmer could make in the definitions below.  Nothing uses   *)
(* them: put in the place of the originals, they make the properties fail. *)
(***************************************************************************)

\* A frame that never grows old.
NeverTimedOut(g, ages, zero) == zero[g]

\* A fallback whose seconds start anew at every frame without a fix.
RestartFallback(failed, write) ==
  /\ fallback_active' = TRUE
  /\ seconds_in_fallback' = 0
  /\ IF fallback_active THEN gps_write_rtc' = write /\ UNCHANGED cpu_time_valid
                        ELSE gps_write_rtc' = TRUE /\ cpu_time_valid' = TRUE

\* A fallback that is not left when a receiver is selected.
StayInFallback == cpu_time_valid' = TRUE /\ UNCHANGED <<fallback_active, seconds_in_fallback>>

\* A mismatch that is not taken for a fault.
FaultOfOneReceiver(faults) == faults \ {"TIME_MISMATCH"} # {}

-----------------------------------------------------------------------------
(* The decision: decide_gps_primary *)

\* gps_fix_bit and gps_pps_bit of the last frame.
Good(frames, g) == frames[g].fix /\ frames[g].pps

\* gps_time_mismatch
Mismatch(frames) ==
  Good(frames, 1) /\ Good(frames, 2)
  /\ Distance(frames[1].time, frames[2].time) > MismatchThresh

\* The RTC is to be set: a GPS that would be believed, each in its case, is
\* off rtc_abs_seconds by more than the threshold, as every GPS is off 0.
RtcIsOff(frames) == ~Mismatch(frames) /\ \E g \in Gps : Good(frames, g)

\* Both receivers have drifted against the RTC, as it was read, between their
\* last two frames.
IncrementalTestFails(frames, drift) ==
  /\ Mismatch(frames)
  /\ ~(gps_write_rtc \/ RtcIsOff(frames))
  /\ drift[1] /\ drift[2]

TimedOut(g, ages, zero) == zero[g] \/ ages[g] > FrameTimeout

Fix(frames, ages, zero) == [g \in Gps |-> frames[g].fix /\ ~TimedOut(g, ages, zero)]
Pps(frames, ages, zero) == [g \in Gps |-> frames[g].pps /\ ~TimedOut(g, ages, zero)]

\* The truth table of the selection, which has the last word.
Selected(fix, pps) ==
  CASE ~fix[1] /\ ~fix[2] -> NONE
    [] ~fix[1] /\ fix[2]  -> IF pps[2] THEN 2 ELSE NONE
    [] fix[1] /\ ~fix[2]  -> IF pps[1] THEN 1 ELSE NONE
    [] fix[1] /\ fix[2]   -> IF pps[1] THEN 1 ELSE IF pps[2] THEN 2 ELSE NONE

Faults(frames, ages, zero) ==
       (IF frames[1].fix THEN {} ELSE {"G1_NO_FIX"})
  \cup (IF frames[1].pps THEN {} ELSE {"G1_NO_PPS"})
  \cup (IF frames[2].fix THEN {} ELSE {"G2_NO_FIX"})
  \cup (IF frames[2].pps THEN {} ELSE {"G2_NO_PPS"})
  \cup (IF Mismatch(frames) THEN {"TIME_MISMATCH"} ELSE {})
  \cup (IF TimedOut(1, ages, zero) THEN {"G1_TIMEOUT"} ELSE {})
  \cup (IF TimedOut(2, ages, zero) THEN {"G2_TIMEOUT"} ELSE {})

NmsFault(faults) == faults # {}

-----------------------------------------------------------------------------
Init ==
  /\ frame = [g \in Gps |-> [fix |-> FALSE, pps |-> FALSE, time |-> LongAgo]]
  /\ age = [g \in Gps |-> 0]
  /\ last_ok_zero = [g \in Gps |-> TRUE]
  /\ uptime_zero = TRUE
  /\ drifted = [g \in Gps |-> FALSE]
  /\ cpu_time_sec = LongAgo
  /\ gps_write_rtc = TRUE
  /\ current_sel = NONE /\ current_nms_fault = TRUE /\ gps_faults = {}
  /\ cpu_time_valid = FALSE /\ time_initialized = FALSE
  /\ fallback_active = FALSE /\ seconds_in_fallback = 0
  /\ incremental_test_failed = FALSE
  /\ rti_1s_tick_flag = FALSE

\* A GPS is selected: its time is the CPU time, and goes to the RTC if asked.
LeaveFallback ==
  /\ fallback_active' = FALSE
  /\ seconds_in_fallback' = 0
  /\ cpu_time_valid' = TRUE

TakeGpsTime ==
  /\ LeaveFallback
  /\ cpu_time_sec' = frame'[current_sel'].time
  /\ incremental_test_failed' = FALSE
  /\ time_initialized' = TRUE
  /\ gps_write_rtc' = FALSE

\* No GPS is selected: live on the RTC, from the first time this happens.  A
\* failed incremental test has started the fallback already.
EnterFallback(failed, write) ==
  /\ fallback_active' = TRUE
  /\ IF fallback_active \/ failed
     THEN /\ seconds_in_fallback' = IF failed THEN 0 ELSE seconds_in_fallback
          /\ gps_write_rtc' = write
          /\ UNCHANGED cpu_time_valid
     ELSE seconds_in_fallback' = 0 /\ gps_write_rtc' = TRUE /\ cpu_time_valid' = TRUE

LoseGpsTime(failed, write) ==
  /\ EnterFallback(failed, write)
  /\ incremental_test_failed' = (incremental_test_failed \/ failed)
  /\ UNCHANGED <<cpu_time_sec, time_initialized>>

StayAtStartup(failed, write) ==
  /\ fallback_active' = FALSE
  /\ seconds_in_fallback' = IF failed THEN 0 ELSE seconds_in_fallback
  /\ cpu_time_valid' = FALSE
  /\ incremental_test_failed' = FALSE
  /\ gps_write_rtc' = write
  /\ UNCHANGED <<cpu_time_sec, time_initialized>>

(***************************************************************************)
(* gps_process, on the byte that completes a frame of the receivers "new". *)
(* A failed incremental test switches to the fallback, before the truth    *)
(* table decides; what it sets is overwritten when that selects a GPS.     *)
(***************************************************************************)
Store(new, received) ==
  /\ frame' = [g \in Gps |-> IF g \in new THEN received[g] ELSE frame[g]]
  /\ drifted' = [g \in Gps |-> IF g \in new THEN received[g].time # frame[g].time
                                         ELSE drifted[g]]
  /\ age' = [g \in Gps |-> IF g \in new THEN 0 ELSE age[g]]
  /\ last_ok_zero' = [g \in Gps |-> IF g \in new THEN uptime_zero ELSE last_ok_zero[g]]

Decide ==
  LET write == gps_write_rtc \/ RtcIsOff(frame')
      failed == IncrementalTestFails(frame', drifted')
  IN /\ current_sel' = Selected(Fix(frame', age', last_ok_zero'), Pps(frame', age', last_ok_zero'))
     /\ gps_faults' = Faults(frame', age', last_ok_zero')
     /\ current_nms_fault' = NmsFault(gps_faults')
     /\ \/ current_sel' # NONE /\ TakeGpsTime
        \/ current_sel' = NONE /\ time_initialized /\ LoseGpsTime(failed, write)
        \/ current_sel' = NONE /\ ~time_initialized /\ StayAtStartup(failed, write)

GpsProcess(new, received) ==
  /\ new # {}
  /\ Store(new, received)
  /\ Decide
  /\ UNCHANGED <<uptime_zero, rti_1s_tick_flag>>

\* What the receivers in "new" can send now: good frames, the clock right or
\* ahead, and bad ones, which are not believed.
ReceivedFrames(new) ==
  LET good == [fix : {TRUE}, pps : {TRUE}, time : Errors]
      bad == [fix : BOOLEAN, pps : BOOLEAN, time : {0}]
  IN [new -> {f \in good \cup bad : [fix |-> f.fix, pps |-> f.pps] \in Statuses}]

(***************************************************************************)
(* v_1sTasks: in fallback rtc_abs_seconds is the time, until it has been   *)
(* so for FallbackTimeout seconds.  Main clears the flag after the tasks.         *)
(***************************************************************************)
Expires(seconds) == seconds = FallbackTimeout
Counted(seconds) == AtMost(seconds + 1, FallbackTimeout + 1)

OneSecondTask ==
  /\ rti_1s_tick_flag
  /\ rti_1s_tick_flag' = FALSE
  /\ IF fallback_active
     THEN /\ seconds_in_fallback' = Counted(seconds_in_fallback)
          /\ cpu_time_sec' = IF cpu_time_valid THEN LongAgo ELSE cpu_time_sec
          /\ cpu_time_valid' = (cpu_time_valid /\ ~Expires(seconds_in_fallback'))
     ELSE UNCHANGED <<seconds_in_fallback, cpu_time_sec, cpu_time_valid>>
  /\ gps_faults' = IF cpu_time_valid' THEN gps_faults \ {"CPU_TIME_INV"}
                                      ELSE gps_faults \cup {"CPU_TIME_INV"}
  /\ UNCHANGED <<frameVars, selVars, fallback_active, uptime_zero>>

(***************************************************************************)
(* rtiNotification, once a second.  A second that ends before v_1sTasks    *)
(* has run sees its flag still set, and is not counted twice.              *)
(***************************************************************************)
Second ==
  /\ uptime_zero' = FALSE
  /\ age' = [g \in Gps |-> AtMost(age[g] + 1, FrameTimeout + 1)]
  /\ frame' = [g \in Gps |-> [frame[g] EXCEPT !.time = Later(@)]]
  /\ cpu_time_sec' = Later(cpu_time_sec)
  /\ rti_1s_tick_flag' = TRUE
  /\ UNCHANGED <<last_ok_zero, drifted, selVars, cpu_time_valid, fallback_active,
                 seconds_in_fallback, gps_faults>>

Next ==
  \/ \E new \in SUBSET Gps : \E received \in ReceivedFrames(new) : GpsProcess(new, received)
  \/ OneSecondTask
  \/ Second

Spec == Init /\ [][Next]_vars

\* Seconds pass and the main loop comes round; the receivers owe nothing.
FairSpec == Spec /\ WF_vars(Second) /\ WF_vars(OneSecondTask)

-----------------------------------------------------------------------------
(* Properties *)

AllFaults == {"G1_NO_FIX", "G1_NO_PPS", "G2_NO_FIX", "G2_NO_PPS", "TIME_MISMATCH",
              "G1_TIMEOUT", "G2_TIMEOUT", "CPU_TIME_INV"}

TypeOK ==
  /\ frame \in [Gps -> [fix : BOOLEAN, pps : BOOLEAN, time : Int]]
  /\ age \in [Gps -> 0..(FrameTimeout + 1)]
  /\ last_ok_zero \in [Gps -> BOOLEAN] /\ uptime_zero \in BOOLEAN
  /\ drifted \in [Gps -> BOOLEAN]
  /\ cpu_time_sec \in Int
  /\ gps_write_rtc \in BOOLEAN
  /\ current_sel \in {NONE, 1, 2} /\ current_nms_fault \in BOOLEAN
  /\ gps_faults \subseteq AllFaults
  /\ cpu_time_valid \in BOOLEAN /\ time_initialized \in BOOLEAN
  /\ fallback_active \in BOOLEAN /\ incremental_test_failed \in BOOLEAN
  /\ seconds_in_fallback \in 0..(FallbackTimeout + 1)
  /\ rti_1s_tick_flag \in BOOLEAN

\* A valid CPU time comes from a selected GPS or from a fallback that is not
\* over; fallback and a selected GPS exclude each other, and the incremental
\* test, seconds lost to a late main loop and changing receivers do not mix
\* them up (gps_process and v_1sTasks both write the three variables).
ValidTimeHasSource ==
  /\ TypeOK
  /\ fallback_active => time_initialized /\ current_sel = NONE
  /\ cpu_time_valid => IF fallback_active THEN seconds_in_fallback < FallbackTimeout
                                          ELSE current_sel # NONE
  /\ time_initialized /\ ~cpu_time_valid => fallback_active

\* gps.c:774: "NMS_fault is 1 whenever any fault bit is set" - also for the
\* bit that v_1sTasks sets later, which does not update current_nms_fault.
NmsFaultCoversFaults == gps_faults # {} => current_nms_fault

\* The stored state justifies the last decision of decide_gps_primary, which
\* is not repeated while nothing comes.  The selected GPS had fix and PPS, and
\* when the last frame of any receiver came its own was not older than the
\* timeout; NONE is selected only if no receiver is usable.
Usable(g) == Good(frame, g) /\ age[g] <= FrameTimeout /\ ~last_ok_zero[g]

SelectionIsUsable ==
  IF current_sel = NONE
  THEN \A g \in Gps : ~Usable(g)
  ELSE /\ Good(frame, current_sel) /\ ~last_ok_zero[current_sel]
       /\ \A g \in Gps : age[current_sel] <= FrameTimeout + age[g]

\* A fallback that no GPS ends makes the CPU time invalid in the end.
FallbackExpires == fallback_active ~> (~fallback_active \/ ~cpu_time_valid)

\* gps.c:141: "bit5: GPS1 frame timeout (no valid frame for
\* GPS_FRAME_TIMEOUT_SEC)", and bit6 for GPS2: a GPS that is silent for longer
\* is reported at last, or sends again.
TimeoutFault(g) == IF g = 1 THEN "G1_TIMEOUT" ELSE "G2_TIMEOUT"

TimeoutIsReported == \A g \in Gps :
  (age[g] > FrameTimeout) ~> (age[g] <= FrameTimeout \/ TimeoutFault(g) \in gps_faults)
=============================================================================
