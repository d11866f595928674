---------------------------- MODULE GpsTimeProofs ----------------------------
(***************************************************************************)
(* Safety of the time of the CPU, for every frame timeout, length of the   *)
(* fallback, threshold and error of the receivers; of the flags that the   *)
(* timer interrupt shares with the main loop, for all periods; and of the  *)
(* startup, for every set of defects and every number of tries.            *)
(***************************************************************************)
EXTENDS GpsTime, MainLoop, Startup, WellFoundedInduction, TLAPS

\* Without a fault a GPS was selected, and no fallback has begun since: what
\* v_1sTasks adds to the faults therefore never is the first.
FaultlessIsSelected == ~current_nms_fault => ~fallback_active /\ cpu_time_valid

IInv == ValidTimeHasSource /\ NmsFaultCoversFaults /\ SelectionIsUsable /\ FaultlessIsSelected

-----------------------------------------------------------------------------
(* The decision *)

\* The truth table selects a receiver that has fix and PPS, if there is one.
LEMMA SelectedFacts ==
  ASSUME NEW fix \in [Gps -> BOOLEAN], NEW pps \in [Gps -> BOOLEAN]
  PROVE  /\ Selected(fix, pps) \in {NONE, 1, 2}
         /\ \A g \in Gps : Selected(fix, pps) = g => fix[g] /\ pps[g]
         /\ Selected(fix, pps) = NONE => \A g \in Gps : ~(fix[g] /\ pps[g])
BY DEF Selected, Gps, NONE

\* The part of the type invariant that the decision works on.
FrameTypes(frames, ages, zero) ==
  /\ frames \in [Gps -> [fix : BOOLEAN, pps : BOOLEAN, time : Int]]
  /\ ages \in [Gps -> 0..(FrameTimeout + 1)]
  /\ zero \in [Gps -> BOOLEAN]

IsUsable(frames, ages, zero, g) ==
  Good(frames, g) /\ ages[g] <= FrameTimeout /\ ~zero[g]

\* A receiver has fix and PPS for the table exactly if it is usable.
LEMMA DecisionFacts ==
  ASSUME NEW frames, NEW ages, NEW zero, FrameTypes(frames, ages, zero)
  PROVE  LET sel == Selected(Fix(frames, ages, zero), Pps(frames, ages, zero))
         IN /\ sel \in {NONE, 1, 2}
            /\ \A g \in Gps : sel = g => IsUsable(frames, ages, zero, g)
            /\ sel = NONE => \A g \in Gps : ~IsUsable(frames, ages, zero, g)
<1>1. /\ Fix(frames, ages, zero) \in [Gps -> BOOLEAN]
      /\ Pps(frames, ages, zero) \in [Gps -> BOOLEAN]
  BY DEF Fix, Pps, TimedOut, FrameTypes
<1>2. ASSUME NEW g \in Gps
      PROVE  (Fix(frames, ages, zero)[g] /\ Pps(frames, ages, zero)[g])
               <=> IsUsable(frames, ages, zero, g)
  <2>1. TimedOut(g, ages, zero) <=> zero[g] \/ ~(ages[g] <= FrameTimeout)
    BY GpsTimeAssumption DEF TimedOut, FrameTypes
  <2>2. /\ Fix(frames, ages, zero)[g] <=> frames[g].fix /\ ~TimedOut(g, ages, zero)
        /\ Pps(frames, ages, zero)[g] <=> frames[g].pps /\ ~TimedOut(g, ages, zero)
    BY Zenon DEF Fix, Pps
  <2>3. QED
    BY <2>1, <2>2, Zenon DEF IsUsable, Good
<1>3. QED
  BY <1>1, <1>2, SelectedFacts

\* A receiver that is not usable is a fault.
LEMMA FaultFacts ==
  ASSUME NEW frames, NEW ages, NEW zero, FrameTypes(frames, ages, zero)
  PROVE  /\ Faults(frames, ages, zero) \subseteq AllFaults
         /\ Faults(frames, ages, zero) = {} =>
              \A g \in Gps : IsUsable(frames, ages, zero, g)
<1>1. Faults(frames, ages, zero) \subseteq AllFaults
  BY DEF Faults, AllFaults
<1>2. ASSUME Faults(frames, ages, zero) = {}
      PROVE  \A g \in Gps : Good(frames, g) /\ ~TimedOut(g, ages, zero)
  BY <1>2 DEF Faults, Good, Gps
<1>3. QED
  BY <1>1, <1>2, GpsTimeAssumption DEF IsUsable, TimedOut, FrameTypes

-----------------------------------------------------------------------------
(* gps_process *)

\* The decision of a frame leaves the four properties true.
LEMMA GpsProcessKeeps ==
  ASSUME IInv, NEW new \in SUBSET Gps, NEW received \in ReceivedFrames(new),
         GpsProcess(new, received)
  PROVE  IInv'
<1> DEFINE fresh == FrameTypes(frame', age', last_ok_zero')
           write == gps_write_rtc \/ RtcIsOff(frame')
           failed == IncrementalTestFails(frame', drifted')
<1>1. TypeOK
  BY DEF IInv, ValidTimeHasSource
<1>2. fresh /\ drifted' \in [Gps -> BOOLEAN]
  <2>1. received \in [new -> [fix : BOOLEAN, pps : BOOLEAN, time : Int]]
    <3> DEFINE good == [fix : {TRUE}, pps : {TRUE}, time : Errors]
               bad == [fix : BOOLEAN, pps : BOOLEAN, time : {0}]
               ok == {f \in good \cup bad : [fix |-> f.fix, pps |-> f.pps] \in Statuses}
    <3>1. good \subseteq [fix : BOOLEAN, pps : BOOLEAN, time : Int]
      <4>1. Errors \subseteq Int
        BY GpsTimeAssumption
      <4>2. QED
        BY <4>1
    <3>2. bad \subseteq [fix : BOOLEAN, pps : BOOLEAN, time : Int]
      OBVIOUS
    <3>3. ok \subseteq [fix : BOOLEAN, pps : BOOLEAN, time : Int]
      BY <3>1, <3>2
    <3> HIDE DEF good, bad
    <3>4. received \in [new -> ok]
      BY Zenon DEF ReceivedFrames, good, bad
    <3> HIDE DEF ok
    <3>5. QED
      BY <3>3, <3>4
  <2>2. /\ frame' \in [Gps -> [fix : BOOLEAN, pps : BOOLEAN, time : Int]]
        /\ drifted' \in [Gps -> BOOLEAN]
    BY <1>1, <2>1 DEF GpsProcess, Store, TypeOK
  <2>3. age' \in [Gps -> 0..(FrameTimeout + 1)] /\ last_ok_zero' \in [Gps -> BOOLEAN]
    BY <1>1, GpsTimeAssumption DEF GpsProcess, Store, TypeOK
  <2>4. QED
    BY <2>2, <2>3 DEF FrameTypes
<1>3. PICK h \in Gps : age'[h] = 0
  BY DEF GpsProcess, Store
<1>4. /\ current_sel' \in {NONE, 1, 2}
      /\ \A g \in Gps : current_sel' = g => IsUsable(frame', age', last_ok_zero', g)
      /\ current_sel' = NONE => \A g \in Gps : ~IsUsable(frame', age', last_ok_zero', g)
  BY <1>2, DecisionFacts DEF GpsProcess, Decide
<1>5. /\ gps_faults' \subseteq AllFaults
      /\ current_nms_fault' <=> gps_faults' # {}
      /\ current_nms_fault' \in BOOLEAN
      /\ ~current_nms_fault' => \A g \in Gps : IsUsable(frame', age', last_ok_zero', g)
  BY <1>2, FaultFacts DEF GpsProcess, Decide, NmsFault
<1>6. NmsFaultCoversFaults'
  BY <1>5 DEF NmsFaultCoversFaults
<1>7. SelectionIsUsable'
  <2>1. CASE current_sel' = NONE
    BY <1>4, <2>1, Zenon DEF SelectionIsUsable, Usable, IsUsable
  <2>2. CASE current_sel' # NONE
    <3>1. current_sel' \in Gps /\ IsUsable(frame', age', last_ok_zero', current_sel')
      BY <1>4, <2>2 DEF Gps
    <3>2. Good(frame', current_sel') /\ ~last_ok_zero'[current_sel']
      BY <3>1 DEF IsUsable
    <3>3. \A g \in Gps : age'[current_sel'] <= FrameTimeout + age'[g]
      BY <1>2, <3>1, GpsTimeAssumption DEF IsUsable, FrameTypes
    <3>4. QED
      BY <2>2, <3>2, <3>3 DEF SelectionIsUsable
  <2>3. QED
    BY <2>1, <2>2
<1>8. current_sel' = NONE => current_nms_fault'
  BY <1>4, <1>5 DEF Gps
<1> DEFINE Numbers == cpu_time_sec' \in Int /\ seconds_in_fallback' \in 0..(FallbackTimeout + 1)
           Flags == /\ gps_write_rtc' \in BOOLEAN
                    /\ cpu_time_valid' \in BOOLEAN /\ time_initialized' \in BOOLEAN
                    /\ fallback_active' \in BOOLEAN /\ incremental_test_failed' \in BOOLEAN
           Modes == /\ fallback_active' => time_initialized' /\ current_sel' = NONE
                    /\ cpu_time_valid' =>
                         IF fallback_active' THEN seconds_in_fallback' < FallbackTimeout
                                             ELSE current_sel' # NONE
                    /\ time_initialized' /\ ~cpu_time_valid' => fallback_active'
                    /\ current_sel' # NONE => ~fallback_active' /\ cpu_time_valid'
<1>9. Numbers /\ Flags /\ Modes
  <2>1. CASE current_sel' # NONE /\ TakeGpsTime
    <3>1. frame'[current_sel'].time \in Int
      BY <1>2, <1>4, <2>1 DEF FrameTypes, Gps
    <3>2. Numbers
      BY <2>1, <3>1, GpsTimeAssumption DEF TakeGpsTime, LeaveFallback
    <3>3. Flags /\ Modes
      BY <2>1, Zenon DEF TakeGpsTime, LeaveFallback
    <3>4. QED
      BY <3>2, <3>3
  <2>2. CASE current_sel' = NONE /\ time_initialized /\ LoseGpsTime(failed, write)
    <3>1. write \in BOOLEAN /\ failed \in BOOLEAN
      BY <1>1 DEF TypeOK, RtcIsOff, IncrementalTestFails
    <3> HIDE DEF write, failed
    <3>2. 0 \in 0..(FallbackTimeout + 1) /\ 0 < FallbackTimeout
      BY GpsTimeAssumption
    <3>3. Numbers
      BY <1>1, <2>2, <3>2, Zenon DEF LoseGpsTime, EnterFallback, TypeOK
    <3>4. Flags
      BY <1>1, <2>2, <3>1, Zenon DEF LoseGpsTime, EnterFallback, TypeOK
    <3>5. Modes
      <4>1. fallback_active' /\ time_initialized'
        BY <2>2, Zenon DEF LoseGpsTime, EnterFallback
      <4>2. cpu_time_valid' => seconds_in_fallback' < FallbackTimeout
        BY <2>2, <3>2, Zenon DEF LoseGpsTime, EnterFallback, IInv, ValidTimeHasSource
      <4>3. QED
        BY <2>2, <4>1, <4>2, Zenon
    <3>6. QED
      BY <3>3, <3>4, <3>5
  <2>3. CASE current_sel' = NONE /\ ~time_initialized /\ StayAtStartup(failed, write)
    <3>1. write \in BOOLEAN
      BY <1>1 DEF TypeOK, RtcIsOff
    <3> HIDE DEF write, failed
    <3>2. 0 \in 0..(FallbackTimeout + 1)
      BY GpsTimeAssumption
    <3>3. Numbers
      BY <1>1, <2>3, <3>2, Zenon DEF StayAtStartup, TypeOK
    <3>4. Flags
      BY <1>1, <2>3, <3>1, Zenon DEF StayAtStartup, TypeOK
    <3>5. Modes
      BY <2>3, Zenon DEF StayAtStartup
    <3>6. QED
      BY <3>3, <3>4, <3>5
  <2>4. QED
    BY <2>1, <2>2, <2>3, Zenon DEF GpsProcess, Decide
<1>10. TypeOK'
  <2>1. uptime_zero' \in BOOLEAN /\ rti_1s_tick_flag' \in BOOLEAN
    BY <1>1, Zenon DEF TypeOK, GpsProcess
  <2>2. QED
    BY <1>2, <1>4, <1>5, <1>9, <2>1, Zenon DEF TypeOK, FrameTypes
<1>11. QED
  BY <1>6, <1>7, <1>8, <1>9, <1>10, Zenon DEF IInv, ValidTimeHasSource, FaultlessIsSelected

-----------------------------------------------------------------------------
(* v_1sTasks and rtiNotification *)

\* v_1sTasks ends a fallback at its limit, and its fault is never the first.
LEMMA OneSecondTaskKeeps ==
  ASSUME IInv, OneSecondTask
  PROVE  IInv'
<1>1. TypeOK
  BY DEF IInv, ValidTimeHasSource
<1>2. UNCHANGED <<frame, age, last_ok_zero, drifted, current_sel, current_nms_fault,
                  time_initialized, gps_write_rtc, incremental_test_failed,
                  fallback_active, uptime_zero>>
  BY DEF OneSecondTask, frameVars, selVars
<1>3. seconds_in_fallback' \in 0..(FallbackTimeout + 1)
  <2>1. Counted(seconds_in_fallback) \in 0..(FallbackTimeout + 1)
    BY <1>1, GpsTimeAssumption DEF TypeOK, Counted, AtMost
  <2>2. QED
    BY <1>1, <2>1, Zenon DEF OneSecondTask, TypeOK
<1>4. cpu_time_sec' \in Int
  <2>1. LongAgo \in Int
    BY GpsTimeAssumption DEF LongAgo
  <2>2. QED
    BY <1>1, <2>1, Zenon DEF OneSecondTask, TypeOK
<1>5. cpu_time_valid' \in BOOLEAN /\ (cpu_time_valid' => cpu_time_valid)
  BY <1>1, Zenon DEF OneSecondTask, TypeOK
<1>6. gps_faults' \subseteq AllFaults
  BY <1>1 DEF OneSecondTask, TypeOK, AllFaults
<1>7. TypeOK'
  BY <1>1, <1>2, <1>3, <1>4, <1>5, <1>6, Zenon DEF TypeOK, OneSecondTask
<1>8. ASSUME cpu_time_valid', fallback_active
      PROVE  seconds_in_fallback' < FallbackTimeout
  <2>1. cpu_time_valid /\ seconds_in_fallback < FallbackTimeout
    BY <1>5, <1>8, Zenon DEF IInv, ValidTimeHasSource
  <2>2. seconds_in_fallback' = Counted(seconds_in_fallback)
        /\ ~Expires(seconds_in_fallback')
    BY <1>8, Zenon DEF OneSecondTask
  <2>3. seconds_in_fallback \in Nat
    BY <1>1 DEF TypeOK
  <2>4. QED
    BY <2>1, <2>2, <2>3, GpsTimeAssumption DEF Counted, AtMost, Expires
<1>9. fallback_active \/ (cpu_time_valid' <=> cpu_time_valid)
  BY Zenon DEF OneSecondTask
<1>10. ValidTimeHasSource'
  BY <1>2, <1>5, <1>7, <1>8, <1>9, Zenon DEF IInv, ValidTimeHasSource
<1>11. SelectionIsUsable'
  BY <1>2 DEF IInv, SelectionIsUsable, Usable, Good
<1>12. FaultlessIsSelected'
  BY <1>2, <1>9, Zenon DEF IInv, FaultlessIsSelected
<1>13. NmsFaultCoversFaults'
  <2>1. CASE current_nms_fault
    BY <1>2, <2>1, Zenon DEF NmsFaultCoversFaults
  <2>2. CASE ~current_nms_fault
    <3>1. cpu_time_valid' /\ gps_faults = {}
      BY <1>9, <2>2, Zenon DEF IInv, FaultlessIsSelected, NmsFaultCoversFaults
    <3>2. gps_faults' = {}
      BY <3>1 DEF OneSecondTask
    <3>3. QED
      BY <3>2 DEF NmsFaultCoversFaults
  <2>3. QED
    BY <2>1, <2>2
<1>14. QED
  BY <1>10, <1>11, <1>12, <1>13 DEF IInv

\* A second makes every frame older alike, up to the age that counts as old.
LEMMA SecondKeeps ==
  ASSUME IInv, Second
  PROVE  IInv'
<1>1. TypeOK
  BY DEF IInv, ValidTimeHasSource
<1>2. UNCHANGED <<last_ok_zero, drifted, current_sel, current_nms_fault, time_initialized,
                  gps_write_rtc, incremental_test_failed, cpu_time_valid,
                  fallback_active, seconds_in_fallback, gps_faults>>
  BY DEF Second, selVars
<1>3. /\ age' \in [Gps -> 0..(FrameTimeout + 1)]
      /\ \A g \in Gps : age'[g] = IF age[g] + 1 > FrameTimeout + 1 THEN FrameTimeout + 1
                                                                   ELSE age[g] + 1
  BY <1>1, GpsTimeAssumption DEF TypeOK, Second, AtMost
<1>4. ASSUME NEW t \in Int
      PROVE  Later(t) \in Int
  BY <1>4 DEF Later
<1>5. cpu_time_sec' \in Int
  BY <1>1, <1>4 DEF TypeOK, Second
<1>6. /\ frame' \in [Gps -> [fix : BOOLEAN, pps : BOOLEAN, time : Int]]
      /\ \A g \in Gps : frame'[g].fix = frame[g].fix /\ frame'[g].pps = frame[g].pps
  <2>1. ASSUME NEW g \in Gps
        PROVE  LET later == [frame[g] EXCEPT !.time = Later(@)]
               IN /\ later \in [fix : BOOLEAN, pps : BOOLEAN, time : Int]
                  /\ later.fix = frame[g].fix /\ later.pps = frame[g].pps
    <3>1. frame[g] \in [fix : BOOLEAN, pps : BOOLEAN, time : Int]
      BY <1>1, Zenon DEF TypeOK
    <3>2. Later(frame[g].time) \in Int
      BY <1>4, <3>1
    <3>3. QED
      BY <3>1, <3>2
  <2>2. frame' = [g \in Gps |-> [frame[g] EXCEPT !.time = Later(@)]]
    BY DEF Second
  <2>3. QED
    BY <2>1, <2>2, Zenon
<1>7. TypeOK'
  BY <1>1, <1>2, <1>3, <1>5, <1>6, Zenon DEF TypeOK, Second
<1>8. \A g \in Gps : Good(frame', g) <=> Good(frame, g)
  BY <1>6, Zenon DEF Good
<1>9. \A g \in Gps : age'[g] <= FrameTimeout => age[g] <= FrameTimeout
  BY <1>1, <1>3, GpsTimeAssumption DEF TypeOK
<1>10. ASSUME NEW s \in Gps, NEW g \in Gps, age[s] <= FrameTimeout + age[g]
       PROVE  age'[s] <= FrameTimeout + age'[g]
  BY <1>1, <1>3, <1>10, GpsTimeAssumption DEF TypeOK
<1>11. SelectionIsUsable'
  <2>1. CASE current_sel = NONE
    <3>1. \A g \in Gps : Usable(g)' => Usable(g)
      BY <1>2, <1>8, <1>9, Zenon DEF Usable
    <3>2. QED
      BY <1>2, <2>1, <3>1, Zenon DEF IInv, SelectionIsUsable
  <2>2. CASE current_sel # NONE
    <3>1. current_sel \in Gps
      BY <1>1, <2>2 DEF TypeOK, Gps
    <3>2. QED
      BY <1>2, <1>8, <1>10, <2>2, <3>1, Zenon DEF IInv, SelectionIsUsable
  <2>3. QED
    BY <2>1, <2>2
<1>12. QED
  BY <1>2, <1>7, <1>11, Zenon
  DEF IInv, ValidTimeHasSource, NmsFaultCoversFaults, FaultlessIsSelected

-----------------------------------------------------------------------------
(* The theorems *)

LEMMA InitHolds == Init => IInv
<1> SUFFICES ASSUME Init PROVE IInv
  OBVIOUS
<1>1. /\ frame \in [Gps -> [fix : BOOLEAN, pps : BOOLEAN, time : Int]]
      /\ age \in [Gps -> 0..(FrameTimeout + 1)]
      /\ cpu_time_sec \in Int /\ seconds_in_fallback \in 0..(FallbackTimeout + 1)
  BY GpsTimeAssumption DEF Init, LongAgo
<1>2. TypeOK
  BY <1>1 DEF Init, TypeOK, NONE
<1>3. QED
  BY <1>2, Zenon DEF Init, IInv, ValidTimeHasSource, NmsFaultCoversFaults, SelectionIsUsable,
                     FaultlessIsSelected, Usable

LEMMA NextKeeps == IInv /\ [Next]_vars => IInv'
<1> SUFFICES ASSUME IInv, [Next]_vars PROVE IInv'
  OBVIOUS
<1>1. ASSUME NEW new \in SUBSET Gps, NEW received \in ReceivedFrames(new),
             GpsProcess(new, received)
      PROVE  IInv'
  BY <1>1, GpsProcessKeeps
<1>2. CASE OneSecondTask
  BY <1>2, OneSecondTaskKeeps
<1>3. CASE Second
  BY <1>3, SecondKeeps
<1>4. CASE UNCHANGED vars
  BY <1>4, Zenon
  DEF vars, frameVars, selVars, modeVars, IInv, ValidTimeHasSource, TypeOK,
      NmsFaultCoversFaults, SelectionIsUsable, FaultlessIsSelected, Usable, Good
<1>5. QED
  BY <1>1, <1>2, <1>3, <1>4 DEF Next

\* The invariant that carries the three properties.
THEOREM Invariance == Spec => []IInv
BY InitHolds, NextKeeps, PTL DEF Spec

\* gps_process and v_1sTasks never leave a valid CPU time without a source: a
\* selected receiver, or a fallback within its limit.
THEOREM TimeHasSource == Spec => []ValidTimeHasSource
<1>1. IInv => ValidTimeHasSource
  BY DEF IInv
<1>2. QED
  BY Invariance, <1>1, PTL

\* Whenever a fault bit is set, v_1sTasks's included, the NMS fault is set.
THEOREM FaultsReachNms == Spec => []NmsFaultCoversFaults
<1>1. IInv => NmsFaultCoversFaults
  BY DEF IInv
<1>2. QED
  BY Invariance, <1>1, PTL

\* The selection of decide_gps_primary stays justified by the frames stored.
THEOREM SelectionHolds == Spec => []SelectionIsUsable
<1>1. IInv => SelectionIsUsable
  BY DEF IInv
<1>2. QED
  BY Invariance, <1>1, PTL

-----------------------------------------------------------------------------
(* The main loop *)

\* No task that runs is owed, and a startup that is over has lasted.
LoopInv ==
  /\ seconds_uptime \in Nat /\ startup_start_time \in Nat
  /\ FlagsAreKept /\ StartupLasts
  /\ loop_pc = "task" => period \notin owed
  /\ loop_pc \in {"crc", "rx", "poll"} /\ ~in_startup =>
       seconds_uptime >= startup_start_time + StartupSeconds
  /\ loop_pc = "crc" => in_startup
  /\ loop_pc \in {"gps", "check", "task"} => ~in_startup

LEMMA TickKeepsLoop ==
  ASSUME LoopInv, Tick
  PROVE  LoopInv'
<1>1. /\ tick_flags' = tick_flags \cup Ended
      /\ owed' = owed \cup (Ended \ Running)
      /\ UNCHANGED <<in_startup, startup_start_time, loop_pc, period>>
  BY DEF Tick, initVars, startupFlags
<1>2. seconds_uptime' \in Nat /\ seconds_uptime' >= seconds_uptime
  BY DEF Tick, LoopInv
<1>3. FlagsAreKept'
  BY <1>1 DEF LoopInv, FlagsAreKept
<1>4. loop_pc' = "task" => period' \notin owed'
  BY <1>1 DEF LoopInv, Running
<1>5. seconds_uptime >= startup_start_time + StartupSeconds
        => seconds_uptime' >= startup_start_time' + StartupSeconds
  BY <1>1, <1>2, MainLoopAssumption DEF LoopInv
<1>6. QED
  BY <1>1, <1>2, <1>3, <1>4, <1>5 DEF LoopInv, StartupLasts

LEMMA StepKeepsLoop ==
  ASSUME LoopInv, LoopStep
  PROVE  LoopInv'
<1>1. CASE RtiInit \/ RtiEnableNotification \/ RtiStartCounter
  BY <1>1 DEF RtiInit, RtiEnableNotification, RtiStartCounter, loopClock, startupFlags, LoopInv,
     FlagsAreKept, StartupLasts
<1>2. CASE Initialize \/ CalculateFirmwareCrc \/ ProcessRxPending
  BY <1>2 DEF Initialize, CalculateFirmwareCrc, ProcessRxPending, loopClock, startupFlags,
     initVars, LoopInv, FlagsAreKept, StartupLasts
<1>3. CASE PollStartupOrGoOn
  <2>1. /\ loop_pc = "poll" /\ in_startup' = (in_startup /\ ~StartupIsOver)
        /\ loop_pc' = IF in_startup THEN "rx" ELSE "gps"
        /\ UNCHANGED <<seconds_uptime, startup_start_time, tick_flags, owed, period>>
    BY <1>3 DEF PollStartupOrGoOn, loopClock
  <2>2. StartupIsOver => seconds_uptime >= startup_start_time + StartupSeconds
    BY MainLoopAssumption DEF StartupIsOver, LoopInv
  <2>3. QED
    BY <2>1, <2>2 DEF LoopInv, FlagsAreKept, StartupLasts
<1>4. CASE GpsProcessInPass \/ SkipTask
  BY <1>4 DEF GpsProcessInPass, SkipTask, GoOn, loopClock, startupFlags, initVars, LoopInv,
     FlagsAreKept, StartupLasts
<1>5. CASE BeginTask
  BY <1>5 DEF BeginTask, loopClock, startupFlags, initVars, LoopInv, FlagsAreKept, StartupLasts
<1>6. CASE EndTask
  BY <1>6 DEF EndTask, Served, GoOn, loopClock, startupFlags, initVars, LoopInv, FlagsAreKept,
     StartupLasts
<1>7. QED
  BY <1>1, <1>2, <1>3, <1>4, <1>5, <1>6 DEF LoopStep

-----------------------------------------------------------------------------
(***************************************************************************)
(* The seconds.  What they are worth is the product of the ratios, which   *)
(* Length computes from period to period: so there is induction over the   *)
(* periods, from the order of the natural numbers.                         *)
(***************************************************************************)
Before == {p \in Nat \X Nat : p[1] < p[2]}

\* The naturals have no infinite descent.
LEMMA BeforeIsWellFounded == IsWellFoundedOn(Before, Nat)
<1>1. OpToRel(<, Nat) = Before
  BY DEF OpToRel, Before
<1>2. QED
  BY <1>1, NatLessThanWellFounded

\* Induction over a set: of the numbers that are not in it none would be the first.
LEMMA Induction ==
  ASSUME NEW S, 0 \in S, \A n \in Nat : n \in S => n + 1 \in S
  PROVE  Nat \subseteq S
<1>1. SUFFICES ASSUME NEW m \in Nat, m \notin S PROVE FALSE
  OBVIOUS
<1> DEFINE T == Nat \ S
<1>2. PICK x \in T : \A y \in T : ~(<<y, x>> \in Before)
  <2>1. T \subseteq Nat /\ T # {}
    BY <1>1
  <2>2. QED
    BY ONLY BeforeIsWellFounded, WFMin, <2>1
<1>3. x \in Nat /\ x # 0
  BY DEF T
<1>4. x - 1 \in Nat /\ x - 1 < x /\ (x - 1) + 1 = x
  BY <1>3
<1>5. <<x - 1, x>> \in Before
  BY <1>3, <1>4 DEF Before
<1>6. QED
  BY <1>2, <1>3, <1>4, <1>5

\* Induction over the periods: what holds of the first, and with one of the next.
LEMMA PeriodInduction ==
  ASSUME NEW S, 1 \in S, \A p \in Periods : p \in S /\ p + 1 \in Periods => p + 1 \in S
  PROVE  Periods \subseteq S
<1> DEFINE T == {n \in Nat : n + 1 \in Periods => n + 1 \in S}
<1>1. Len(Ratios) \in Nat
  BY MainLoopAssumption
<1>2. 0 \in T
  OBVIOUS
<1>3. ASSUME NEW n \in Nat, n \in T  PROVE  n + 1 \in T
  <2>1. CASE (n + 1) + 1 \in Periods
    <3>1. n + 1 \in Periods
      BY <1>1, <2>1 DEF Periods
    <3>2. n + 1 \in S
      BY <1>3, <3>1
    <3>3. (n + 1) + 1 \in S
      BY <2>1, <3>1, <3>2
    <3>4. QED
      BY <3>3
  <2>2. QED
    BY <2>1
<1>4. Nat \subseteq T
  <2> HIDE DEF T
  <2>1. QED
    BY <1>2, <1>3, Induction
<1>5. ASSUME NEW p \in Periods  PROVE  p \in S
  <2>1. p - 1 \in Nat /\ (p - 1) + 1 = p
    BY <1>1 DEF Periods
  <2>2. p - 1 \in T
    BY <1>4, <2>1
  <2>3. QED
    BY <2>1, <2>2
<1>6. QED
  BY <1>5

\* f is Length as far as the first n periods.
LengthsTo(f, n) == f = [p \in 1..n |-> IF p = 1 THEN 1 ELSE f[p - 1] * Ratios[p - 1]]

\* There is a function that satisfies the recursion of Length.
LEMMA LengthIsDefined ==
  Length = [p \in Periods |-> IF p = 1 THEN 1 ELSE Length[p - 1] * Ratios[p - 1]]
<1> DEFINE S == {p \in Periods : \E f : LengthsTo(f, p)}
<1>1. Len(Ratios) \in Nat
  BY MainLoopAssumption
<1>2. 1 \in S
  <2>1. 1 \in Periods
    BY <1>1 DEF Periods
  <2>2. LengthsTo([p \in 1..1 |-> 1], 1)
    BY DEF LengthsTo
  <2>3. QED
    BY <2>1, <2>2
<1>3. ASSUME NEW p \in Periods, p \in S, p + 1 \in Periods  PROVE  p + 1 \in S
  <2>1. PICK f : LengthsTo(f, p)
    BY <1>3
  <2>2. p \in Nat /\ p >= 1
    BY <1>1 DEF Periods
  <2> DEFINE Entry(q) == IF q = 1 THEN 1 ELSE f[q - 1] * Ratios[q - 1]
             g == [q \in 1..(p + 1) |-> Entry(q)]
  <2>3. \A q \in 1..p : f[q] = Entry(q)
    BY <2>1 DEF LengthsTo
  <2>4. \A q \in 1..p : g[q] = f[q]
    BY <2>2, <2>3
  <2>5. \A q \in 1..(p + 1) : Entry(q) = IF q = 1 THEN 1 ELSE g[q - 1] * Ratios[q - 1]
    <3>1. \A q \in 1..(p + 1) : q # 1 => q - 1 \in 1..p
      BY <2>2
    <3> HIDE DEF g
    <3>2. QED
      BY <2>4, <3>1
  <2>6. g = [q \in 1..(p + 1) |-> IF q = 1 THEN 1 ELSE g[q - 1] * Ratios[q - 1]]
    <3>1. g = [q \in 1..(p + 1) |-> Entry(q)]
      OBVIOUS
    <3> HIDE DEF g, Entry
    <3>2. QED
      BY <2>5, <3>1
  <2>7. LengthsTo(g, p + 1)
    BY <2>6 DEF LengthsTo
  <2>8. QED
    BY <1>3, <2>7
<1>4. Periods \subseteq S
  <2> HIDE DEF S
  <2>1. QED
    BY <1>2, <1>3, PeriodInduction
<1>5. OneSecond \in Periods /\ Periods = 1..OneSecond
  BY <1>1 DEF Periods, OneSecond
<1>6. PICK f : LengthsTo(f, OneSecond)
  BY <1>4, <1>5
<1>7. f = [p \in Periods |-> IF p = 1 THEN 1 ELSE f[p - 1] * Ratios[p - 1]]
  BY <1>5, <1>6 DEF LengthsTo
<1>8. QED
  BY <1>7 DEF Length

\* The first period is a millisecond, each other so many of the one before.
LEMMA LengthFacts ==
  /\ Length[1] = 1
  /\ \A p \in Periods : Length[p] \in Nat \ {0}
  /\ \A p \in DOMAIN Ratios : Length[p + 1] = Length[p] * Ratios[p]
<1>1. /\ Len(Ratios) \in Nat /\ DOMAIN Ratios = 1..Len(Ratios)
      /\ \A p \in DOMAIN Ratios : Ratios[p] \in Nat \ {0}
  BY MainLoopAssumption
<1>2. /\ 1 \in Periods
      /\ \A p \in DOMAIN Ratios : p + 1 \in Periods /\ p \in Periods /\ p + 1 # 1 /\ (p + 1) - 1 = p
      /\ \A p \in Periods : p + 1 \in Periods => p \in DOMAIN Ratios
  BY <1>1 DEF Periods
<1>3. Length[1] = 1
  BY <1>2, LengthIsDefined
<1>4. \A p \in DOMAIN Ratios : Length[p + 1] = Length[p] * Ratios[p]
  BY <1>2, LengthIsDefined
<1> DEFINE S == {p \in Periods : Length[p] \in Nat \ {0}}
<1>5. 1 \in S
  BY <1>2, <1>3
<1>6. ASSUME NEW p \in Periods, p \in S, p + 1 \in Periods  PROVE  p + 1 \in S
  <2>1. /\ Length[p] \in Nat \ {0} /\ Ratios[p] \in Nat \ {0}
        /\ Length[p + 1] = Length[p] * Ratios[p]
    BY <1>1, <1>2, <1>4, <1>6
  <2>2. \A a, b \in Nat \ {0} : a * b \in Nat \ {0}
    OBVIOUS
  <2>3. QED
    BY <1>6, <2>1, <2>2
<1>7. Periods \subseteq S
  <2> HIDE DEF S
  <2>1. QED
    BY <1>5, <1>6, PeriodInduction
<1>8. QED
  BY <1>3, <1>4, <1>7

\* The time is made up of the seconds and of what the counters have since then:
\* rest[p] is what those below period p are worth.
Worth(rest, c) ==
  /\ rest \in [Periods -> Nat]
  /\ rest[1] = 0
  /\ \A p \in DOMAIN Ratios : rest[p + 1] = rest[p] + c[p] * Length[p]

\* Each counter is below its ratio, and together with the seconds they tell the time.
SecondsInv ==
  /\ ms \in Nat /\ seconds_uptime \in Nat
  /\ counts \in [DOMAIN Ratios -> Nat]
  /\ \A i \in DOMAIN Ratios : counts[i] < Ratios[i]
  /\ \E rest : Worth(rest, counts) /\ ms = seconds_uptime * Length[OneSecond] + rest[OneSecond]

\* What has ended has all that is below it full, or had nothing to count.
LEMMA EndedFacts ==
  /\ 1 \in Ended
  /\ \A p \in DOMAIN Ratios : p + 1 \in Ended <=> p \in Ended /\ Full(p)
<1>1. Len(Ratios) \in Nat /\ DOMAIN Ratios = 1..Len(Ratios)
  BY MainLoopAssumption
<1>2. 1 \in Periods /\ \A p \in DOMAIN Ratios : p + 1 \in Periods /\ p \in Periods
  BY <1>1 DEF Periods
<1>3. 1 \in Ended
  BY <1>2 DEF Ended
<1>4. ASSUME NEW p \in DOMAIN Ratios
      PROVE  p + 1 \in Ended <=> p \in Ended /\ Full(p)
  <2>1. p \in Nat /\ (p + 1) - 1 = p /\ 1..p = 1..(p - 1) \cup {p}
    BY <1>1
  <2> HIDE DEF Full
  <2>2. QED
    BY <1>2, <2>1 DEF Ended
<1>5. QED
  BY <1>3, <1>4

\* What has ended was about to be full, and nothing else was.
LEMMA EndedIsFull ==
  ASSUME SecondsInv, NEW rest, Worth(rest, counts)
  PROVE  \A p \in Periods :
           IF p \in Ended THEN rest[p] + 1 = Length[p] ELSE rest[p] + 1 < Length[p]
<1> DEFINE Fits(p) == IF p \in Ended THEN rest[p] + 1 = Length[p] ELSE rest[p] + 1 < Length[p]
           S == {p \in Periods : Fits(p)}
<1>1. /\ Len(Ratios) \in Nat /\ DOMAIN Ratios = 1..Len(Ratios)
      /\ \A p \in DOMAIN Ratios : Ratios[p] \in Nat \ {0}
  BY MainLoopAssumption
<1>2. 1 \in S
  <2>1. 1 \in Periods /\ 1 \in Ended
    BY <1>1, EndedFacts DEF Periods
  <2>2. rest[1] + 1 = Length[1]
    BY LengthFacts DEF Worth
  <2>3. QED
    BY <2>1, <2>2
<1>3. ASSUME NEW p \in Periods, p \in S, p + 1 \in Periods  PROVE  p + 1 \in S
  <2>1. p \in DOMAIN Ratios
    <3>1. p \in 1..(Len(Ratios) + 1) /\ p + 1 \in 1..(Len(Ratios) + 1)
      BY <1>3 DEF Periods
    <3>2. QED
      BY <1>1, <3>1
  <2>2. /\ rest[p + 1] = rest[p] + counts[p] * Length[p]
        /\ Length[p + 1] = Length[p] * Ratios[p]
    BY <2>1, LengthFacts DEF Worth
  <2>3. /\ rest[p] \in Nat /\ counts[p] \in Nat /\ Length[p] \in Nat \ {0}
        /\ Ratios[p] \in Nat /\ counts[p] < Ratios[p]
    BY <1>1, <2>1, LengthFacts DEF Worth, SecondsInv
  <2>4. Fits(p)
    BY <1>3
  <2>5. p + 1 \in Ended <=> p \in Ended /\ Full(p)
    BY <2>1, EndedFacts
  <2>6. Fits(p + 1)
    <3>1. CASE p + 1 \in Ended
      <4>1. rest[p] + 1 = Length[p] /\ counts[p] + 1 = Ratios[p]
        BY <2>4, <2>5, <3>1 DEF Full
      <4>2. \A r, c, l, m \in Nat : r + 1 = l /\ c + 1 = m => (r + c * l) + 1 = l * m
        OBVIOUS
      <4>3. QED
        BY <2>2, <2>3, <3>1, <4>1, <4>2
    <3>2. CASE p \notin Ended
      <4>1. rest[p] + 1 < Length[p]
        BY <2>4, <3>2
      <4>2. \A r, c, l, m \in Nat : r + 1 < l /\ c < m => (r + c * l) + 1 < l * m
        <5>1. \A c, l, m \in Nat : c < m => c * l + l <= l * m
          <6>1. SUFFICES ASSUME NEW c \in Nat, NEW l \in Nat, NEW m \in Nat, c < m
                         PROVE  c * l + l <= l * m
            OBVIOUS
          <6>2. PICK d \in Nat : m = (c + 1) + d
            <7>1. m - (c + 1) \in Nat /\ m = (c + 1) + (m - (c + 1))
              BY <6>1
            <7>2. QED
              BY <7>1
          <6>3. l * m = (c * l + l) + l * d /\ l * d \in Nat /\ c * l + l \in Nat
            BY <6>2
          <6>4. QED
            BY <6>3
        <5>2. \A c, l, m \in Nat : c * l \in Nat /\ l * m \in Nat
          OBVIOUS
        <5>3. \A r, l, x, y \in Nat : r + 1 < l /\ x + l <= y => (r + x) + 1 < y
          OBVIOUS
        <5>4. QED
          BY <5>1, <5>2, <5>3
      <4>3. QED
        BY <2>2, <2>3, <2>5, <3>2, <4>1, <4>2
    <3>3. CASE p \in Ended /\ ~Full(p)
      <4>1. rest[p] + 1 = Length[p] /\ counts[p] + 1 < Ratios[p]
        BY <2>3, <2>4, <3>3 DEF Full
      <4>2. \A r, c, l, m \in Nat : l # 0 /\ r + 1 = l /\ c + 1 < m => (r + c * l) + 1 < l * m
        <5>1. SUFFICES ASSUME NEW c \in Nat, NEW l \in Nat \ {0}, NEW m \in Nat, c + 1 < m
                       PROVE  ((l - 1) + c * l) + 1 < l * m
          OBVIOUS
        <5>2. PICK d \in Nat : m = (c + 2) + d
          <6>1. m - (c + 2) \in Nat /\ m = (c + 2) + (m - (c + 2))
            BY <5>1
          <6>2. QED
            BY <6>1
        <5>3. l * m = ((((l - 1) + c * l) + 1) + l) + l * d /\ l * d \in Nat /\ c * l \in Nat
          BY <5>2
        <5>4. QED
          BY <5>3
      <4>3. QED
        BY <2>2, <2>3, <2>5, <3>3, <4>1, <4>2
    <3>4. QED
      BY <2>5, <3>1, <3>2, <3>3
  <2>7. QED
    BY <1>3, <2>6
<1>4. Periods \subseteq S
  <2> HIDE DEF S
  <2>1. QED
    BY <1>2, <1>3, PeriodInduction
<1>5. QED
  BY <1>4

\* rtiNotification: what ends has its counter set back, the one above it goes on.
LEMMA TickKeepsSeconds ==
  ASSUME SecondsInv, Tick
  PROVE  SecondsInv'
<1>1. /\ Len(Ratios) \in Nat /\ DOMAIN Ratios = 1..Len(Ratios)
      /\ \A p \in DOMAIN Ratios : Ratios[p] \in Nat \ {0}
      /\ OneSecond \in Periods /\ 1 \in Periods
      /\ \A p \in DOMAIN Ratios : p \in Periods /\ p + 1 \in Periods
  BY MainLoopAssumption DEF OneSecond, Periods
<1>2. PICK rest : Worth(rest, counts) /\ ms = seconds_uptime * Length[OneSecond] + rest[OneSecond]
  BY DEF SecondsInv
<1>3. /\ ms' = ms + 1
      /\ counts' = [i \in DOMAIN Ratios |->
           IF i \notin Ended THEN counts[i] ELSE IF Full(i) THEN 0 ELSE counts[i] + 1]
      /\ seconds_uptime' = seconds_uptime + (IF OneSecond \in Ended THEN 1 ELSE 0)
  BY DEF Tick
<1>4. ms' \in Nat /\ seconds_uptime' \in Nat
  BY <1>3 DEF SecondsInv
<1>5. counts' \in [DOMAIN Ratios -> Nat]
  <2>1. \A i \in DOMAIN Ratios : counts[i] \in Nat
    BY DEF SecondsInv
  <2> HIDE DEF Ended, Full
  <2>2. QED
    BY <1>3, <2>1
<1> DEFINE next == [p \in Periods |-> IF p \in Ended THEN 0 ELSE rest[p] + 1]
<1>6. next \in [Periods -> Nat]
  BY <1>2 DEF Worth
<1>7. next[1] = 0
  BY <1>1, EndedFacts
<1>8. ASSUME NEW p \in DOMAIN Ratios
      PROVE  next[p + 1] = next[p] + counts'[p] * Length[p]
  <2>1. /\ rest[p + 1] = rest[p] + counts[p] * Length[p]
        /\ rest[p] \in Nat /\ counts[p] \in Nat /\ Length[p] \in Nat
    BY <1>1, <1>2, LengthFacts DEF Worth, SecondsInv
  <2>2. /\ next[p] = IF p \in Ended THEN 0 ELSE rest[p] + 1
        /\ next[p + 1] = IF p + 1 \in Ended THEN 0 ELSE rest[p + 1] + 1
    BY <1>1
  <2> HIDE DEF next, Full, Ended
  <2>3. CASE p \in Ended /\ Full(p)
    BY <1>3, <2>1, <2>2, <2>3, EndedFacts
  <2>4. CASE p \in Ended /\ ~Full(p)
    <3>1. p + 1 \notin Ended /\ counts'[p] = counts[p] + 1
      BY <1>3, <2>4, EndedFacts
    <3>2. rest[p] + 1 = Length[p]
      BY <1>1, <1>2, <2>4, EndedIsFull
    <3>3. \A r, c, l \in Nat : r + 1 = l => (r + c * l) + 1 = 0 + (c + 1) * l
      OBVIOUS
    <3>4. QED
      BY <2>1, <2>2, <2>4, <3>1, <3>2, <3>3
  <2>5. CASE p \notin Ended
    <3>1. p + 1 \notin Ended /\ counts'[p] = counts[p]
      BY <1>3, <2>5, EndedFacts
    <3>2. \A r, c, l \in Nat : (r + c * l) + 1 = (r + 1) + c * l
      OBVIOUS
    <3>3. QED
      BY <2>1, <2>2, <2>5, <3>1, <3>2
  <2>6. QED
    BY <2>3, <2>4, <2>5
<1>9. ASSUME NEW i \in DOMAIN Ratios  PROVE  counts'[i] < Ratios[i]
  <2>1. /\ counts[i] \in Nat /\ counts[i] < Ratios[i] /\ Ratios[i] \in Nat \ {0}
    BY <1>1 DEF SecondsInv
  <2>2. counts'[i] = IF i \notin Ended THEN counts[i]
                     ELSE IF counts[i] + 1 = Ratios[i] THEN 0 ELSE counts[i] + 1
    BY <1>3 DEF Full
  <2>3. QED
    BY <2>1, <2>2
<1>10. Worth(next, counts')
  BY <1>6, <1>7, <1>8 DEF Worth
<1>11. ms' = seconds_uptime' * Length[OneSecond] + next[OneSecond]
  <2>1. /\ rest[OneSecond] \in Nat /\ Length[OneSecond] \in Nat /\ seconds_uptime \in Nat
        /\ next[OneSecond] = IF OneSecond \in Ended THEN 0 ELSE rest[OneSecond] + 1
    BY <1>1, <1>2, LengthFacts DEF Worth, SecondsInv
  <2> HIDE DEF next
  <2>2. OneSecond \in Ended => rest[OneSecond] + 1 = Length[OneSecond]
    BY <1>1, <1>2, EndedIsFull
  <2>3. \A s, l, r \in Nat : r + 1 = l => (s * l + r) + 1 = (s + 1) * l + 0
    OBVIOUS
  <2>4. CASE OneSecond \in Ended
    <3>1. rest[OneSecond] + 1 = Length[OneSecond] /\ next[OneSecond] = 0
      BY <2>1, <2>2, <2>4
    <3>2. ms' = (seconds_uptime * Length[OneSecond] + rest[OneSecond]) + 1
      BY <1>2, <1>3
    <3>3. seconds_uptime' = seconds_uptime + 1
      BY <1>3, <2>4
    <3>4. QED
      BY <2>1, <2>3, <3>1, <3>2, <3>3
  <2>5. CASE OneSecond \notin Ended
    <3>1. \A x, r \in Nat : (x + r) + 1 = x + (r + 1)
      OBVIOUS
    <3>2. seconds_uptime * Length[OneSecond] \in Nat
      BY <2>1
    <3>3. ms' = (seconds_uptime * Length[OneSecond] + rest[OneSecond]) + 1
      BY <1>2, <1>3
    <3>4. seconds_uptime' = seconds_uptime /\ next[OneSecond] = rest[OneSecond] + 1
      BY <1>3, <2>1, <2>5
    <3>5. QED
      BY <2>1, <3>1, <3>2, <3>3, <3>4
  <2>6. QED
    BY <2>4, <2>5
<1>12. QED
  BY <1>4, <1>5, <1>9, <1>10, <1>11 DEF SecondsInv

\* The rest is less than a second.
LEMMA SecondsFollow == SecondsInv => SecondsAreCounted
<1> SUFFICES ASSUME SecondsInv PROVE SecondsAreCounted
  OBVIOUS
<1>1. PICK rest : Worth(rest, counts) /\ ms = seconds_uptime * Length[OneSecond] + rest[OneSecond]
  BY DEF SecondsInv
<1>2. OneSecond \in Periods
  BY MainLoopAssumption DEF OneSecond, Periods
<1>3. /\ rest[OneSecond] \in Nat /\ Length[OneSecond] \in Nat \ {0}
      /\ rest[OneSecond] < Length[OneSecond] /\ seconds_uptime \in Nat
  BY <1>1, <1>2, LengthFacts, EndedIsFull DEF Worth, SecondsInv
<1>4. ASSUME NEW s \in Nat, NEW l \in Nat \ {0}, NEW r \in Nat, r < l
      PROVE  (s * l + r) \div l = s
  <2> DEFINE m == s * l + r
             q == m \div l
             e == m % l
  <2>1. m \in Nat /\ q \in Nat /\ e \in Nat /\ e < l /\ m = l * q + e
    <3>1. m \in Nat
      OBVIOUS
    <3> HIDE DEF m
    <3>2. QED
      BY <3>1
  <2> HIDE DEF q, e
  <2>2. \A a, b, x, y \in Nat : a < b => ~(l * a + x = l * b + y /\ x < l)
    <3>1. SUFFICES ASSUME NEW a \in Nat, NEW b \in Nat, NEW x \in Nat, NEW y \in Nat, a < b, x < l
                   PROVE  l * a + x # l * b + y
      OBVIOUS
    <3>2. PICK d \in Nat : b = (a + 1) + d
      <4>1. b - (a + 1) \in Nat /\ b = (a + 1) + (b - (a + 1))
        BY <3>1
      <4>2. QED
        BY <4>1
    <3>3. l * b = (l * a + l) + l * d /\ l * d \in Nat /\ l * a \in Nat
      BY <3>2
    <3>4. QED
      BY <3>1, <3>3
  <2>3. l * s + r = l * q + e
    BY <2>1
  <2>4. ~(s < q) /\ ~(q < s)
    BY <1>4, <2>1, <2>2, <2>3
  <2>5. QED
    BY <2>1, <2>4 DEF q
<1>5. QED
  BY <1>1, <1>3, <1>4 DEF SecondsAreCounted

\* Nothing but the timer interrupt touches the clock.
LEMMA StillKeepsSeconds ==
  ASSUME SecondsInv, UNCHANGED loopClock
  PROVE  SecondsInv'
BY DEF SecondsInv, loopClock, Worth

\* At first no counter has anything.
LEMMA SecondsBegin ==
  ASSUME LoopInit
  PROVE  SecondsInv
<1>1. /\ Len(Ratios) \in Nat /\ DOMAIN Ratios = 1..Len(Ratios)
      /\ \A p \in DOMAIN Ratios : Ratios[p] \in Nat \ {0}
      /\ OneSecond \in Periods /\ 1 \in Periods
      /\ \A p \in DOMAIN Ratios : p \in Periods /\ p + 1 \in Periods
  BY MainLoopAssumption DEF OneSecond, Periods
<1>2. /\ ms = 0 /\ seconds_uptime = 0 /\ counts = [i \in DOMAIN Ratios |-> 0]
  BY DEF LoopInit
<1> DEFINE rest == [p \in Periods |-> 0]
<1>3. \A p \in Periods : Length[p] \in Nat
  BY LengthFacts
<1>4. Worth(rest, counts)
  BY <1>1, <1>2, <1>3 DEF Worth
<1>5. ms = seconds_uptime * Length[OneSecond] + rest[OneSecond]
  BY <1>1, <1>2, <1>3
<1> HIDE DEF rest
<1>6. QED
  BY <1>1, <1>2, <1>4, <1>5 DEF SecondsInv

\* Main clears a flag only after the task, and yet no tick is lost for which
\* the task has not begun; the seconds are those that have passed; and no task of the
\* loop runs before the startup has lasted its time, whatever the periods are and
\* wherever interrupts come.
THEOREM TicksStayKept == LoopSpec => []TicksAreKept
<1> DEFINE Inv == LoopInv /\ SecondsInv
<1>1. LoopInit => Inv
  <2>1. LoopInit => LoopInv
    BY DEF LoopInit, LoopInv, FlagsAreKept, StartupLasts
  <2>2. LoopInit => SecondsInv
    BY SecondsBegin
  <2>3. QED
    BY <2>1, <2>2
<1>2. Inv /\ [LoopNext]_loopVars => Inv'
  <2> SUFFICES ASSUME Inv, [LoopNext]_loopVars PROVE Inv'
    OBVIOUS
  <2>1. CASE Tick
    BY <2>1, TickKeepsLoop, TickKeepsSeconds
  <2>2. CASE LoopStep
    <3>1. UNCHANGED loopClock
      BY <2>2 DEF LoopStep, RtiInit, RtiEnableNotification, RtiStartCounter, Initialize,
         CalculateFirmwareCrc, ProcessRxPending, PollStartupOrGoOn, GpsProcessInPass, BeginTask,
         SkipTask, EndTask
    <3>2. QED
      BY <2>2, <3>1, StepKeepsLoop, StillKeepsSeconds
  <2>3. CASE UNCHANGED loopVars
    <3>1. UNCHANGED loopClock
      BY <2>3 DEF loopVars, loopClock
    <3>2. LoopInv'
      BY <2>3 DEF loopVars, LoopInv, FlagsAreKept, StartupLasts
    <3>3. QED
      BY <3>1, <3>2, StillKeepsSeconds
  <2>4. QED
    BY <2>1, <2>2, <2>3 DEF LoopNext
<1>3. Inv => TicksAreKept
  BY SecondsFollow DEF LoopInv, TicksAreKept
<1>4. QED
  BY <1>1, <1>2, <1>3, PTL DEF LoopSpec

-----------------------------------------------------------------------------
(* The startup: its steps *)

\* The tests of the parity are at the places 28 to 41 of the startup.
LEMMA TestDomain == DOMAIN ParityTests = 1..14 /\ Len(ParityTests) = 14
BY DEF ParityTests

\* The memories, in the order of their tests.
LEMMA Memories ==
  /\ ParityStep(1) = "HET1" /\ ParityStep(2) = "HTU1" /\ ParityStep(3) = "HET2"
  /\ ParityStep(4) = "HTU2" /\ ParityStep(5) = "ADC1" /\ ParityStep(6) = "ADC2"
  /\ ParityStep(7) = "CAN1" /\ ParityStep(8) = "CAN2" /\ ParityStep(9) = "CAN3"
  /\ ParityStep(10) = "VIM" /\ ParityStep(11) = "DMA" /\ ParityStep(12) = "MIBSPI1"
  /\ ParityStep(13) = "MIBSPI3" /\ ParityStep(14) = "MIBSPI5"
BY DEF ParityStep, ParityTests, Test, het1ParityCheck, htu1ParityCheck, het2ParityCheck, htu2ParityCheck, adc1ParityCheck, adc2ParityCheck, can1ParityCheck, can2ParityCheck, can3ParityCheck, vimParityCheck, dmaParityCheck, mibspi1ParityCheck, mibspi3ParityCheck, mibspi5ParityCheck

\* What comes at each place.
LEMMA Names ==
  /\ Steps[1] = "reset" /\ Steps[2] = "plls" /\ Steps[3] = "esm" /\ Steps[4] = "setupPLL"
  /\ Steps[5] = "efcCheck" /\ Steps[6] = "periphInit" /\ Steps[7] = "muxInit"
  /\ Steps[8] = "checkefcSelfTest" /\ Steps[9] = "setupFlash" /\ Steps[10] = "trimLPO"
  /\ Steps[11] = "mapClocks" /\ Steps[12] = "errata_PBIST_4" /\ Steps[13] = "pbistSelfCheck"
  /\ Steps[14] = "STC_ROM" /\ Steps[15] = "passed" /\ Steps[16] = "PBIST_ROM"
  /\ Steps[17] = "passed" /\ Steps[18] = "CPU_RAM" /\ Steps[19] = "passed"
  /\ Steps[20] = "memoryInit_CPU_RAM" /\ Steps[21] = "dual-port_RAMs"
  /\ Steps[22] = "checkRAMECC" /\ Steps[23] = "passed" /\ Steps[24] = "release_MibSPI"
  /\ Steps[25] = "enableParity" /\ Steps[26] = "memoryInit" /\ Steps[27] = "disableParity"
  /\ Steps[28] = "HET1" /\ Steps[29] = "HTU1" /\ Steps[30] = "HET2" /\ Steps[31] = "HTU2"
  /\ Steps[32] = "ADC1" /\ Steps[33] = "ADC2" /\ Steps[34] = "CAN1" /\ Steps[35] = "CAN2"
  /\ Steps[36] = "CAN3" /\ Steps[37] = "VIM" /\ Steps[38] = "DMA" /\ Steps[39] = "MIBSPI1"
  /\ Steps[40] = "MIBSPI3" /\ Steps[41] = "MIBSPI5" /\ Steps[42] = "esmInit"
  /\ Steps[43] = "setupPLL" /\ Steps[44] = "efcCheck" /\ Steps[45] = "periphInit"
  /\ Steps[46] = "muxInit" /\ Steps[47] = "checkefcSelfTest" /\ Steps[48] = "setupFlash"
  /\ Steps[49] = "trimLPO" /\ Steps[50] = "mapClocks" /\ Steps[51] = "KavachInit"
BY TestDomain, Memories DEF Steps, systemInit

\* Where each action may be taken.
LEMMA ActionPlaces ==
  ASSUME step \in 1..51
  PROVE  /\ At("reset") => step = 1
         /\ At("plls") => step = 2
         /\ At("esm") => step = 3
         /\ At("setupPLL") => step \in {4, 43}
         /\ At("efcCheck") => step \in {5, 44}
         /\ At("periphInit") => step \in {6, 45}
         /\ At("muxInit") => step \in {7, 46}
         /\ At("checkefcSelfTest") => step \in {8, 47}
         /\ At("setupFlash") => step \in {9, 48}
         /\ At("trimLPO") => step \in {10, 49}
         /\ At("mapClocks") => step \in {11, 50}
         /\ At("errata_PBIST_4") => step = 12
         /\ At("pbistSelfCheck") => step = 13
         /\ At("STC_ROM") => step = 14
         /\ At("PBIST_ROM") => step = 16
         /\ At("CPU_RAM") => step = 18
         /\ At("dual-port_RAMs") => step = 21
         /\ At("passed") => step \in {15, 17, 19, 23}
         /\ At("memoryInit_CPU_RAM") => step = 20
         /\ At("checkRAMECC") => step = 22
         /\ At("release_MibSPI") => step = 24
         /\ At("enableParity") => step = 25
         /\ At("memoryInit") => step = 26
         /\ At("disableParity") => step = 27
         /\ At("esmInit") => step = 42
BY Names DEF At

LEMMA ParityPlaces ==
  ASSUME step \in 1..51, NEW i \in 1..14, At(ParityStep(i))
  PROVE  step = 27 + i
BY Names, Memories DEF At

-----------------------------------------------------------------------------
(***************************************************************************)
(* Its invariant.  StartupIsSafe speaks of the end; on the way there it    *)
(* rests on how far each part of the work is.                              *)
(***************************************************************************)

\* The program runs from PLL1 once the clocks are mapped, and by then the flash
\* waits; what is set up stays so.
ClockInv ==
  /\ csdis \subseteq Plls /\ csvstat \subseteq Plls /\ divider \in [Plls -> Nat]
  /\ ghvsrc = IF step <= 11 THEN "OSC" ELSE "PLL1"
  /\ step > 11 => "PLL1" \in csvstat
  /\ step > 4 => csdis = {}
  /\ step > 6 => peripherals = "on"
  /\ step > 7 => pins = "SCI_and_I2C"
  /\ step > 9 => wait_states = 3
  /\ step > 10 => hf_lpo \in {"OTP", "custom"}
  /\ step = 51 => csvstat = Plls

\* The tests raise no flags of others, but for those of the RAM.
FlagInv ==
  /\ step <= 22 => esm \subseteq inherited
  /\ esm \subseteq inherited \cup {26, 28}
  /\ step > 42 => esm = {}

\* The eFuses: the status is what their error and the detectors make of it.
StatusOf(error) ==
  CASE error = 0 -> IF efcStuckZeroTest THEN 0 ELSE 1
    [] error = 21 -> 2
    [] OTHER -> 3

StatusInv ==
  step > 5 => /\ efcCheckStatus = StatusOf(efc_error)
              /\ efcCheckStatus \in {1, 3} => "EFCCHECK_FAIL1" \in notified

\* Wrong parity is what the PBIST leaves, until the memories are initialised,
\* and then what the tests of the parity leave that failed.
WrongInv ==
  /\ step <= 21 => wrong = {}
  /\ wrong \subseteq DualPort
  /\ step \in {25, 26} => wrong \subseteq SystemRams
  /\ step = 26 => parity_on
  /\ step > 26 => \A m \in wrong : m \in notified /\ \E j \in 1..14 : m = ParityStep(j) /\ 27 + j < step

TestedInv ==
  /\ step = 15 => tested = "STC_ROM"
  /\ step = 17 => tested = "PBIST_ROM"
  /\ step = 19 => tested = "CPU_RAM"
  /\ step \in {22, 23} => tested = "dual-port_RAMs"

\* What is broken is told by the test that looks for it, which is at a place.
Told(b) == b \in broken => Hidden(b) \/ Notices(b) \cap notified # {}

ToldInv ==
  /\ step > 8 => Told("eFuse_stuck") /\ Told("eFuse_self_test")
  /\ step > 11 => broken \cap Plls = {}
  /\ step > 12 => Told("PBIST_stuck") /\ Told("PBIST_slow")
  /\ step > 13 => Told("PBIST_silent")
  /\ step > 15 => Told("STC_ROM")
  /\ step > 17 => Told("PBIST_ROM")
  /\ step > 19 => Told("CPU_RAM")
  /\ step > 22 => Told("TCRAM1") /\ Told("TCRAM2") /\ Told("RAM_event")
  /\ step > 23 => Told("dual-port_RAMs")
  /\ \A j \in 1..14 : step > 27 + j => Told(ParityStep(j))

\* What is told is true.
IsTrue(n) ==
  \/ \E b \in broken : n \in Notices(b)
  \/ n \in EfcNotices /\ (efc_error # 0 \/ {40, 41} \cap inherited # {})

TrueInv == \A n \in notified : IsTrue(n)

BootInv ==
  /\ step \in 1..51
  /\ broken \subseteq Defective
  /\ ClockInv /\ FlagInv /\ StatusInv /\ WrongInv /\ TestedInv /\ ToldInv /\ TrueInv

-----------------------------------------------------------------------------
(* What stays *)

\* What the tests do not touch.
Lasting == UNCHANGED <<broken, efc_error, inherited>> /\ notified \subseteq notified'

LEMMA ToldStays ==
  ASSUME Lasting, NEW b, Told(b)
  PROVE  Told(b)'
BY DEF Lasting, Told, Hidden, Notices

LEMMA TrueStays ==
  ASSUME Lasting, NEW n, IsTrue(n)
  PROVE  IsTrue(n)'
BY DEF Lasting, IsTrue, Notices, EfcNotices

\* The properties of the tests while they are not touched.
LEMMA TestsStay ==
  ASSUME BootInv, UNCHANGED <<testVars, inherited>>, step' \in 1..51,
         \/ step = 1 /\ step' \in 2..3
         \/ step' = step + 1 /\ step \in {2, 3, 4, 6, 7, 9, 10, 43, 45, 46, 48, 49, 50}
         \/ step' = step + 1 /\ step = 11 /\ broken \cap Plls = {}
  PROVE  (FlagInv /\ StatusInv /\ WrongInv /\ TestedInv /\ ToldInv /\ TrueInv)'
<1> USE DEF BootInv
<1>1. Lasting /\ UNCHANGED <<esm, efcCheckStatus, wrong, parity_on, tested, notified>>
  BY DEF testVars, Lasting
<1>2. FlagInv'
  BY <1>1 DEF FlagInv, Lasting
<1>3. StatusInv'
  BY <1>1 DEF StatusInv, StatusOf, efcStuckZeroTest, Lasting
<1>4. WrongInv'
  BY <1>1 DEF WrongInv, ParityStep
<1>5. TestedInv'
  BY <1>1 DEF TestedInv
<1>6. ToldInv'
  <2>1. \A b : Told(b) => Told(b)'
    BY <1>1, ToldStays
  <2> QED
    BY <1>1, <2>1 DEF ToldInv, Lasting, ParityStep
<1>7. TrueInv'
  BY <1>1, TrueStays DEF TrueInv
<1> QED
  BY <1>2, <1>3, <1>4, <1>5, <1>6, <1>7

LEMMA SameStep ==
  ASSUME BootInv, UNCHANGED <<testVars, inherited>>, step' = step
  PROVE  (FlagInv /\ StatusInv /\ WrongInv /\ TestedInv /\ ToldInv /\ TrueInv)'
<1>1. Lasting /\ UNCHANGED <<esm, efcCheckStatus, wrong, parity_on, tested, notified>>
  BY DEF testVars, Lasting
<1>2. (FlagInv /\ StatusInv /\ TestedInv)'
  BY <1>1 DEF BootInv, FlagInv, StatusInv, StatusOf, efcStuckZeroTest, Lasting, TestedInv
<1>3. WrongInv'
  BY <1>1 DEF BootInv, WrongInv, ParityStep
<1>4. ToldInv'
  <2>1. \A b : Told(b) => Told(b)'
    BY <1>1, ToldStays
  <2> QED
    BY <1>1, <2>1 DEF BootInv, ToldInv, Lasting, ParityStep
<1>5. TrueInv'
  BY <1>1, TrueStays DEF BootInv, TrueInv
<1> QED
  BY <1>2, <1>3, <1>4, <1>5

LEMMA ClocksStay ==
  ASSUME BootInv, UNCHANGED clockVars, step' \in 1..51,
         \/ step = 1 /\ step' \in 2..3
         \/ step' = step + 1 /\ step \notin {4, 6, 7, 9, 10, 11, 50}
  PROVE  ClockInv'
BY DEF BootInv, ClockInv, clockVars

LEMMA AllStays ==
  ASSUME BootInv, UNCHANGED clockVars, UNCHANGED <<testVars, inherited>>, step' = step
  PROVE  BootInv'
<1>1. ClockInv'
  BY DEF BootInv, ClockInv, clockVars
<1> QED
  BY <1>1, SameStep DEF BootInv, testVars

\* The parts of an action on the tests: what was told stays told.
LEMMA ToldSoFar ==
  ASSUME BootInv, Lasting
  PROVE  /\ step > 8 => (Told("eFuse_stuck") /\ Told("eFuse_self_test"))'
         /\ step > 11 => (broken \cap Plls = {})'
         /\ step > 12 => (Told("PBIST_stuck") /\ Told("PBIST_slow"))'
         /\ step > 13 => Told("PBIST_silent")'
         /\ step > 15 => Told("STC_ROM")'
         /\ step > 17 => Told("PBIST_ROM")'
         /\ step > 19 => Told("CPU_RAM")'
         /\ step > 22 => (Told("TCRAM1") /\ Told("TCRAM2") /\ Told("RAM_event"))'
         /\ step > 23 => Told("dual-port_RAMs")'
         /\ \A j \in 1..14 : step > 27 + j => Told(ParityStep(j))'
<1>1. \A b : Told(b) => Told(b)'
  BY ToldStays
<1>2. \A j \in 1..14 : step > 27 + j => Told(ParityStep(j))'
  <2>1. ASSUME NEW j \in 1..14, step > 27 + j PROVE Told(ParityStep(j))'
    <3>1. Told(ParityStep(j))
      BY <2>1 DEF BootInv, ToldInv
    <3> QED
      BY <1>1, <3>1 DEF ParityStep
  <2> QED
    BY <2>1
<1> QED
  BY <1>1, <1>2 DEF BootInv, ToldInv, Lasting

LEMMA TrueSoFar ==
  ASSUME BootInv, Lasting, \A n \in notified' \ notified : IsTrue(n)'
  PROVE  TrueInv'
BY TrueStays DEF BootInv, TrueInv, Lasting

-----------------------------------------------------------------------------
(* The clocks: each action keeps the invariant *)

LEMMA ResetKeeps ==
  ASSUME BootInv, Reset
  PROVE  BootInv'
<1>1. step = 1 /\ step' \in 2..3
  BY ActionPlaces DEF BootInv, Reset
<1>2. UNCHANGED clockVars /\ UNCHANGED <<testVars, inherited>>
  BY DEF Reset
<1>3. ClockInv'
  BY <1>1, <1>2, ClocksStay
<1>4. (FlagInv /\ StatusInv /\ WrongInv /\ TestedInv /\ ToldInv /\ TrueInv)'
  BY <1>1, <1>2, TestsStay
<1> QED
  BY <1>1, <1>2, <1>3, <1>4 DEF BootInv, testVars

LEMMA EsmCheckKeeps ==
  ASSUME BootInv, EsmCheck
  PROVE  BootInv'
<1>1. step = 3 /\ step' \in {3, 4}
  BY ActionPlaces DEF BootInv, EsmCheck, Halt
<1>2. UNCHANGED clockVars /\ UNCHANGED <<testVars, inherited>>
  BY DEF EsmCheck
<1>3. CASE step' = step
  BY <1>2, <1>3, AllStays DEF BootInv
<1>4. CASE step' = 4
  <2>1. ClockInv'
    BY <1>1, <1>2, <1>4, ClocksStay
  <2>2. (FlagInv /\ StatusInv /\ WrongInv /\ TestedInv /\ ToldInv /\ TrueInv)'
    BY <1>1, <1>2, <1>4, TestsStay
  <2> QED
    BY <1>1, <1>2, <1>4, <2>1, <2>2 DEF BootInv, testVars
<1> QED
  BY <1>1, <1>3, <1>4

LEMMA TryPllsKeeps ==
  ASSUME BootInv, TryPlls
  PROVE  BootInv'
<1>1. step = 2 /\ step' = 2
  BY ActionPlaces DEF BootInv, TryPlls
<1>2. UNCHANGED <<testVars, inherited>>
  BY DEF TryPlls
<1>3. (FlagInv /\ StatusInv /\ WrongInv /\ TestedInv /\ ToldInv /\ TrueInv)'
  BY <1>1, <1>2, SameStep
<1>4. ClockInv'
  <2>1. CASE UNCHANGED clockVars
    BY <1>1, <2>1 DEF BootInv, ClockInv, clockVars
  <2>2. CASE \E slipped \in SUBSET Plls : StartPlls(slipped)
    BY <1>1, <2>2 DEF BootInv, ClockInv, StartPlls
  <2> QED
    BY <2>1, <2>2 DEF TryPlls
<1> QED
  BY <1>1, <1>2, <1>3, <1>4 DEF BootInv, testVars

LEMMA EndPllsKeeps ==
  ASSUME BootInv, EndPlls
  PROVE  BootInv'
<1>1. step = 2 /\ \/ step' = 2 /\ UNCHANGED clockVars
                  \/ step' = 3 /\ StopPlls
  BY ActionPlaces DEF BootInv, EndPlls, Halt
<1>2. UNCHANGED <<testVars, inherited>>
  BY DEF EndPlls
<1>3. (FlagInv /\ StatusInv /\ WrongInv /\ TestedInv /\ ToldInv /\ TrueInv)'
  BY <1>1, <1>2, TestsStay, SameStep
<1>4. ClockInv'
  <2>1. CASE UNCHANGED clockVars /\ step' = 2
    BY <1>1, <2>1 DEF BootInv, ClockInv, clockVars
  <2>2. CASE StopPlls /\ step' = 3
    BY <1>1, <2>2 DEF BootInv, ClockInv, StopPlls
  <2> QED
    BY <1>1, <2>1, <2>2
<1> QED
  BY <1>1, <1>2, <1>3, <1>4 DEF BootInv, testVars

LEMMA SetUpKeeps ==
  ASSUME BootInv, SetUp
  PROVE  BootInv'
<1>1. /\ step \in {4, 6, 7, 9, 10, 43, 45, 46, 48, 49} /\ step' = step + 1 /\ UNCHANGED inherited
      /\ \/ step \in {4, 43} /\ setupPLL
         \/ step \in {6, 45} /\ periphInit
         \/ step \in {7, 46} /\ muxInit
         \/ step \in {9, 48} /\ setupFlash
         \/ step \in {10, 49} /\ trimLPO
  BY ActionPlaces DEF BootInv, SetUp, Advance
<1>2. UNCHANGED <<testVars, inherited>> /\ step' \in 1..51
  BY <1>1 DEF SetUp
<1>3. (FlagInv /\ StatusInv /\ WrongInv /\ TestedInv /\ ToldInv /\ TrueInv)'
  BY <1>1, <1>2, TestsStay
<1>4. ClockInv'
  <2>1. CASE step \in {4, 43} /\ setupPLL
    BY <1>1, <2>1 DEF BootInv, ClockInv, setupPLL, Plls, MaxDivider
  <2>2. CASE step \in {6, 45} /\ periphInit
    BY <1>1, <2>2 DEF BootInv, ClockInv, periphInit
  <2>3. CASE step \in {7, 46} /\ muxInit
    BY <1>1, <2>3 DEF BootInv, ClockInv, muxInit
  <2>4. CASE step \in {9, 48} /\ setupFlash
    BY <1>1, <2>4 DEF BootInv, ClockInv, setupFlash
  <2>5. CASE step \in {10, 49} /\ trimLPO
    BY <1>1, <2>5 DEF BootInv, ClockInv, trimLPO
  <2> QED
    BY <1>1, <2>1, <2>2, <2>3, <2>4, <2>5
<1> QED
  BY <1>1, <1>2, <1>3, <1>4 DEF BootInv, testVars

LEMMA MapClocksKeeps ==
  ASSUME BootInv, MapClocks
  PROVE  BootInv'
<1>1. step \in {11, 50} /\ \/ step' = step + 1 /\ mapClocks(broken)
                           \/ step' = step /\ UNCHANGED clockVars
  BY ActionPlaces DEF BootInv, MapClocks, Halt
<1>2. UNCHANGED <<testVars, inherited>>
  BY DEF MapClocks
<1>3. CASE step' = step /\ UNCHANGED clockVars
  BY <1>2, <1>3, AllStays DEF BootInv
<1>4. CASE step' = step + 1 /\ mapClocks(broken)
  <2>1. csdis = {} /\ broken \cap Plls = {}
    BY <1>1, <1>4 DEF BootInv, ClockInv, mapClocks
  <2>2. ClockInv'
    BY <1>1, <1>4, <2>1 DEF BootInv, ClockInv, mapClocks, Plls
  <2>3. (FlagInv /\ StatusInv /\ WrongInv /\ TestedInv /\ ToldInv /\ TrueInv)'
    BY <1>1, <1>2, <1>4, <2>1, TestsStay
  <2> QED
    BY <1>1, <1>2, <1>4, <2>2, <2>3 DEF BootInv, testVars
<1> QED
  BY <1>1, <1>3, <1>4

-----------------------------------------------------------------------------
(* The eFuses and the memories *)

LEMMA EfcCheckKeeps ==
  ASSUME BootInv, EfcCheck
  PROVE  BootInv'
<1>1. step \in {5, 44} /\ step' = step + 1 /\ UNCHANGED inherited
  BY ActionPlaces DEF BootInv, EfcCheck, Advance
<1>2. /\ UNCHANGED <<clockVars, broken, efc_error, parity_on, wrong, tested>> /\ Lasting
      /\ esm' \subseteq esm
      /\ efcCheckStatus' = StatusOf(efc_error)
      /\ notified' = IF efcCheckStatus' \in {1, 3} THEN notified \cup {"EFCCHECK_FAIL1"} ELSE notified
  BY <1>1 DEF EfcCheck, efcCheck, Lasting, StatusOf
<1>3. ClockInv'
  BY <1>1, <1>2, ClocksStay
<1>4. FlagInv'
  BY <1>1, <1>2 DEF BootInv, FlagInv
<1>5. StatusInv'
  BY <1>1, <1>2 DEF StatusInv, StatusOf, efcStuckZeroTest
<1>6. (WrongInv /\ TestedInv)'
  BY <1>1, <1>2 DEF BootInv, WrongInv, TestedInv, ParityStep, Lasting
<1>7. ToldInv'
  <2>1. step' \notin 7..43 /\ \A n \in 8..43 : step' > n <=> step > n
    BY <1>1
  <2> QED
    BY <1>1, <1>2, <2>1, ToldSoFar DEF ToldInv, ParityStep
<1>8. TrueInv'
  <2>1. efcCheckStatus' \in {1, 3} => IsTrue("EFCCHECK_FAIL1")'
    <3>1. CASE efc_error = 0
      BY <1>2, <3>1 DEF StatusOf, efcStuckZeroTest, IsTrue, Notices, EfcNotices, Lasting, DualPort, SystemRams, MibSpiRams
    <3>2. CASE efc_error # 0
      BY <1>2, <3>2 DEF IsTrue, EfcNotices, Lasting
    <3> QED
      BY <3>1, <3>2
  <2> QED
    BY <1>2, <2>1, TrueSoFar
<1> QED
  BY <1>1, <1>2, <1>3, <1>4, <1>5, <1>6, <1>7, <1>8 DEF BootInv

LEMMA CheckEfcSelfTestKeeps ==
  ASSUME BootInv, CheckEfcSelfTest
  PROVE  BootInv'
<1>1. step \in {8, 47} /\ step' = step + 1 /\ UNCHANGED inherited
  BY ActionPlaces DEF BootInv, CheckEfcSelfTest, Advance
<1>2. /\ UNCHANGED <<clockVars, broken, efc_error, esm, parity_on, wrong, tested, efcCheckStatus>>
      /\ Lasting
      /\ EfcOutcome
  BY <1>1 DEF CheckEfcSelfTest, EfcOutcome, Lasting
<1>3. ClockInv'
  BY <1>1, <1>2, ClocksStay
<1>4. FlagInv'
  BY <1>1, <1>2 DEF BootInv, FlagInv, Lasting
<1>5. StatusInv'
  BY <1>1, <1>2 DEF BootInv, StatusInv, StatusOf, efcStuckZeroTest, Lasting
<1>6. (WrongInv /\ TestedInv)'
  BY <1>1, <1>2 DEF BootInv, WrongInv, TestedInv, ParityStep, Lasting
<1>7. PICK error \in {0, efc_error} :
        notified' = notified
          \cup (IF efcCheckStatus \in {0, 2} /\ ~checkefcSelfTest(error) THEN {"EFCCHECK_FAIL1"} ELSE {})
          \cup (IF efcCheckStatus = 2 /\ checkefcSelfTest(error) THEN {"EFCCHECK_FAIL2"} ELSE {})
  BY <1>2 DEF EfcOutcome
<1>8. efcCheckStatus = StatusOf(efc_error) /\ (efcCheckStatus \in {1, 3} => "EFCCHECK_FAIL1" \in notified)
  BY <1>1 DEF BootInv, StatusInv
<1>9. /\ Notices("eFuse_stuck") = EfcNotices /\ Notices("eFuse_self_test") = EfcNotices
  BY DEF Notices, DualPort, SystemRams, MibSpiRams
<1>10. ToldInv'
  <2>1. Told("eFuse_stuck")'
    <3>1. CASE "eFuse_stuck" \in broken
      <4>1. efcCheckStatus \in {1, 2, 3}
        BY <1>8, <3>1 DEF StatusOf, efcStuckZeroTest
      <4>2. notified' \cap EfcNotices # {}
        BY <1>7, <1>8, <4>1 DEF EfcNotices
      <4> QED
        BY <1>9, <4>2 DEF Told, Notices, EfcNotices
    <3> QED
      BY <1>2, <3>1 DEF Told
  <2>2. Told("eFuse_self_test")'
    <3>1. CASE "eFuse_self_test" \in broken
      <4>1. ~checkefcSelfTest(error)
        BY <3>1 DEF checkefcSelfTest
      <4>2. efcCheckStatus \in {0, 1, 2, 3}
        BY <1>8 DEF StatusOf
      <4>3. notified' \cap EfcNotices # {}
        BY <1>7, <1>8, <4>1, <4>2 DEF EfcNotices
      <4> QED
        BY <1>9, <4>3 DEF Told, Notices, EfcNotices
    <3> QED
      BY <1>2, <3>1 DEF Told
  <2>3. step' \notin 10..47 /\ \A n \in 9..46 : step' > n <=> step > n
    BY <1>1
  <2> QED
    BY <1>1, <1>2, <2>1, <2>2, <2>3, ToldSoFar DEF ToldInv, ParityStep
<1>11. TrueInv'
  <2>1. ASSUME efcCheckStatus \in {0, 2} /\ ~checkefcSelfTest(error) PROVE IsTrue("EFCCHECK_FAIL1")'
    <3>1. CASE "eFuse_self_test" \in broken
      BY <1>2, <1>9, <3>1 DEF IsTrue, Lasting, EfcNotices, Notices
    <3>2. CASE error # 0
      BY <1>2, <1>7, <3>2 DEF IsTrue, Lasting, EfcNotices
    <3>3. CASE {40, 41} \cap esm # {}
      <4>1. {40, 41} \cap inherited # {}
        BY <3>3 DEF BootInv, FlagInv
      <4> QED
        BY <1>2, <4>1 DEF IsTrue, Lasting, EfcNotices
    <3> QED
      BY <2>1, <3>1, <3>2, <3>3 DEF checkefcSelfTest
  <2>2. ASSUME efcCheckStatus = 2 PROVE IsTrue("EFCCHECK_FAIL2")'
    <3>1. efc_error # 0
      BY <1>8, <2>2 DEF StatusOf, efcStuckZeroTest
    <3> QED
      BY <1>2, <3>1 DEF IsTrue, Lasting, EfcNotices
  <2> QED
    BY <1>2, <1>7, <2>1, <2>2, TrueSoFar
<1> QED
  BY <1>1, <1>2, <1>3, <1>4, <1>5, <1>6, <1>10, <1>11 DEF BootInv

LEMMA TestPbistKeeps ==
  ASSUME BootInv, TestPbist
  PROVE  BootInv'
<1>1. /\ step' = step + 1 /\ UNCHANGED inherited
      /\ \/ step = 12 /\ errata_PBIST_4
         \/ step = 13 /\ pbistSelfCheck
  BY ActionPlaces DEF BootInv, TestPbist, Advance
<1>2. /\ UNCHANGED <<clockVars, broken, efc_error, esm, parity_on, wrong, tested, efcCheckStatus>>
      /\ Lasting
  BY <1>1 DEF TestPbist, errata_PBIST_4, pbistSelfCheck, Lasting
<1>3. ClockInv'
  BY <1>1, <1>2, ClocksStay
<1>4. FlagInv'
  BY <1>1, <1>2 DEF BootInv, FlagInv, Lasting
<1>5. StatusInv'
  BY <1>1, <1>2 DEF BootInv, StatusInv, StatusOf, efcStuckZeroTest, Lasting
<1>6. (WrongInv /\ TestedInv)'
  BY <1>1, <1>2 DEF BootInv, WrongInv, TestedInv, ParityStep, Lasting
<1>7. /\ Notices("PBIST_silent") = {"PBISTSELFCHECK_FAIL1"}
      /\ Notices("PBIST_slow") = {"PBISTSELFCHECK_FAIL2"}
      /\ Notices("PBIST_stuck") = {"PBISTSELFCHECK_FAIL3"}
  BY DEF Notices, DualPort, SystemRams, MibSpiRams
<1>8. CASE step = 12 /\ errata_PBIST_4
  <2>1. (Told("PBIST_stuck") /\ Told("PBIST_slow"))'
    BY <1>2, <1>7, <1>8 DEF Told, Hidden, Notices, errata_PBIST_4
  <2>2. ToldInv'
    BY <1>1, <1>2, <1>8, <2>1, ToldSoFar DEF ToldInv, ParityStep
  <2>3. TrueInv'
    <3>1. \A n \in notified' \ notified : IsTrue(n)'
      BY <1>2, <1>7, <1>8 DEF IsTrue, Notices, Lasting, errata_PBIST_4
    <3> QED
      BY <1>2, <3>1, TrueSoFar
  <2> QED
    BY <1>1, <1>2, <1>3, <1>4, <1>5, <1>6, <2>2, <2>3, <1>8 DEF BootInv
<1>9. CASE step = 13 /\ pbistSelfCheck
  <2>1. Told("PBIST_silent")'
    BY <1>2, <1>7, <1>9 DEF Told, Notices, pbistSelfCheck
  <2>2. ToldInv'
    BY <1>1, <1>2, <1>9, <2>1, ToldSoFar DEF ToldInv, ParityStep
  <2>3. TrueInv'
    <3>1. \A n \in notified' \ notified : IsTrue(n)'
      BY <1>2, <1>7, <1>9 DEF IsTrue, Notices, Lasting, pbistSelfCheck
    <3> QED
      BY <1>2, <3>1, TrueSoFar
  <2> QED
    BY <1>1, <1>2, <1>3, <1>4, <1>5, <1>6, <2>2, <2>3, <1>9 DEF BootInv
<1> QED
  BY <1>1, <1>8, <1>9

LEMMA RunPbistKeeps ==
  ASSUME BootInv, RunPbist
  PROVE  BootInv'
<1>1. /\ step' = step + 1 /\ UNCHANGED inherited
      /\ \/ step = 14 /\ pbistRun("STC_ROM")
         \/ step = 16 /\ pbistRun("PBIST_ROM")
         \/ step = 18 /\ pbistRun("CPU_RAM")
         \/ step = 21 /\ pbistRun("dual-port_RAMs")
  BY ActionPlaces DEF BootInv, RunPbist, Advance
<1>2. /\ UNCHANGED <<clockVars, broken, efc_error, esm, parity_on, efcCheckStatus, notified>>
      /\ Lasting
  BY <1>1 DEF RunPbist, Lasting
<1>3. ClockInv'
  BY <1>1, <1>2, ClocksStay
<1>4. FlagInv'
  BY <1>1, <1>2 DEF BootInv, FlagInv, Lasting
<1>5. StatusInv'
  BY <1>1, <1>2 DEF BootInv, StatusInv, StatusOf, efcStuckZeroTest, Lasting
<1>6. WrongInv'
  <2>1. step = 21 => wrong' \subseteq wrong \cup DualPort
    BY <1>1 DEF pbistRun
  <2>2. step # 21 => wrong' = wrong
    BY <1>1 DEF pbistRun
  <2> QED
    BY <1>1, <2>1, <2>2 DEF BootInv, WrongInv
<1>7. TestedInv'
  BY <1>1 DEF TestedInv, pbistRun
<1>8. ToldInv'
  BY <1>1, <1>2, ToldSoFar DEF ToldInv, ParityStep
<1>9. TrueInv'
  BY <1>2, TrueSoFar
<1> QED
  BY <1>1, <1>2, <1>3, <1>4, <1>5, <1>6, <1>7, <1>8, <1>9 DEF BootInv

LEMMA EndPbistKeeps ==
  ASSUME BootInv, EndPbist
  PROVE  BootInv'
<1>1. step \in {15, 17, 19, 23} /\ step' = step + 1 /\ UNCHANGED inherited
  BY ActionPlaces DEF BootInv, EndPbist, Advance
<1>2. /\ UNCHANGED <<clockVars, broken, efc_error, esm, parity_on, wrong, efcCheckStatus>>
      /\ notified' = notified \cup (IF pbistIsTestPassed THEN {} ELSE {"memoryPort0TestFail"})
      /\ Lasting
  BY <1>1 DEF EndPbist, pbistFail, pbistPortTestStatus, Lasting
<1>3. ClockInv'
  BY <1>1, <1>2, ClocksStay
<1>4. FlagInv'
  BY <1>1, <1>2 DEF BootInv, FlagInv, Lasting
<1>5. StatusInv'
  BY <1>1, <1>2 DEF BootInv, StatusInv, StatusOf, efcStuckZeroTest, Lasting
<1>6. (WrongInv /\ TestedInv)'
  BY <1>1, <1>2 DEF BootInv, WrongInv, TestedInv, ParityStep, Lasting
<1>7. \A m \in {"STC_ROM", "PBIST_ROM", "CPU_RAM", "dual-port_RAMs"} : Notices(m) = {"memoryPort0TestFail"}
  BY DEF Notices, DualPort, SystemRams, MibSpiRams
<1>8. tested \in {"STC_ROM", "PBIST_ROM", "CPU_RAM", "dual-port_RAMs"}
  BY <1>1 DEF BootInv, TestedInv
<1>9. ASSUME NEW m, m = tested
      PROVE  Told(m)'
  <2>1. Notices(m) = {"memoryPort0TestFail"}
    BY <1>7, <1>8, <1>9
  <2>2. CASE "PBIST_silent" \in broken
    <3>1. Hidden(m)'
      BY <1>2, <2>1, <2>2 DEF Hidden, Notices
    <3> QED
      BY <3>1 DEF Told
  <2>3. CASE "PBIST_silent" \notin broken
    BY <1>2, <1>9, <2>1, <2>3 DEF Told, Notices, pbistIsTestPassed
  <2> QED
    BY <2>2, <2>3
<1>10. ToldInv'
  <2>1. /\ step = 15 => Told("STC_ROM")'
        /\ step = 17 => Told("PBIST_ROM")'
        /\ step = 19 => Told("CPU_RAM")'
        /\ step = 23 => Told("dual-port_RAMs")'
    <3>1. /\ step = 15 => tested = "STC_ROM"
          /\ step = 17 => tested = "PBIST_ROM"
          /\ step = 19 => tested = "CPU_RAM"
          /\ step = 23 => tested = "dual-port_RAMs"
      BY DEF BootInv, TestedInv
    <3> QED
      BY <1>9, <3>1
  <2> QED
    BY <1>1, <1>2, <2>1, ToldSoFar DEF ToldInv, ParityStep
<1>11. TrueInv'
  <2>1. ~pbistIsTestPassed => IsTrue("memoryPort0TestFail")'
    BY <1>2, <1>7, <1>8 DEF IsTrue, Notices, pbistIsTestPassed
  <2> QED
    BY <1>2, <2>1, TrueSoFar
<1> QED
  BY <1>1, <1>2, <1>3, <1>4, <1>5, <1>6, <1>10, <1>11 DEF BootInv

LEMMA CheckRamEccKeeps ==
  ASSUME BootInv, CheckRamEcc
  PROVE  BootInv'
<1>1. step = 22 /\ step' = step + 1 /\ UNCHANGED inherited
  BY ActionPlaces DEF BootInv, CheckRamEcc, Advance
<1>2. /\ UNCHANGED <<clockVars, broken, efc_error, parity_on, wrong, tested, efcCheckStatus>>
      /\ Lasting
  BY <1>1 DEF CheckRamEcc, checkRAMECC, Lasting
<1>3. ClockInv'
  BY <1>1, <1>2, ClocksStay
<1>4. FlagInv'
  <2>1. esm' \subseteq esm \cup {26, 28}
    BY DEF CheckRamEcc, checkRAMECC
  <2> QED
    BY <1>1, <2>1 DEF BootInv, FlagInv
<1>5. StatusInv'
  BY <1>1, <1>2 DEF BootInv, StatusInv, StatusOf, efcStuckZeroTest, Lasting
<1>6. (WrongInv /\ TestedInv)'
  BY <1>1, <1>2 DEF BootInv, WrongInv, TestedInv, ParityStep, Lasting
<1>7. /\ Notices("TCRAM1") = {"CHECKRAMECC_FAIL1"} /\ Notices("TCRAM2") = {"CHECKRAMECC_FAIL1"}
      /\ Notices("RAM_event") = {"CHECKRAMECC_FAIL1", "CHECKRAMECC_FAIL2"}
  BY DEF Notices, DualPort, SystemRams, MibSpiRams
<1>8. CASE {"TCRAM1", "TCRAM2"} \cap broken # {}
  <2>1. notified' = notified \cup {"CHECKRAMECC_FAIL1"}
    BY <1>8 DEF CheckRamEcc, checkRAMECC
  <2>2. (Told("TCRAM1") /\ Told("TCRAM2") /\ Told("RAM_event"))'
    BY <1>7, <2>1 DEF Told, Notices
  <2>3. ToldInv'
    BY <1>1, <1>2, <2>2, ToldSoFar DEF ToldInv, ParityStep
  <2>4. IsTrue("CHECKRAMECC_FAIL1")'
    BY <1>2, <1>7, <1>8 DEF IsTrue, Notices
  <2>5. TrueInv'
    BY <1>2, <2>1, <2>4, TrueSoFar
  <2> QED
    BY <1>1, <1>2, <1>3, <1>4, <1>5, <1>6, <2>3, <2>5 DEF BootInv
<1>9. CASE {"TCRAM1", "TCRAM2"} \cap broken = {}
  <2>1. (Told("TCRAM1") /\ Told("TCRAM2"))'
    BY <1>2, <1>9 DEF Told
  <2>2. \/ notified' = notified /\ ("RAM_event" \notin broken \/ {26, 28} \subseteq esm)
        \/ notified' = notified \cup {"CHECKRAMECC_FAIL2"} /\ "RAM_event" \in broken
    BY <1>9 DEF CheckRamEcc, checkRAMECC
  <2>3. {26, 28} \subseteq esm => {26, 28} \subseteq inherited
    BY <1>1 DEF BootInv, FlagInv
  <2>4. Told("RAM_event")'
    BY <1>1, <1>2, <1>7, <2>2, <2>3 DEF Told, Notices, Hidden
  <2>5. ToldInv'
    BY <1>1, <1>2, <2>1, <2>4, ToldSoFar DEF ToldInv, ParityStep
  <2>6. "RAM_event" \in broken => IsTrue("CHECKRAMECC_FAIL2")'
    BY <1>2, <1>7 DEF IsTrue, Notices
  <2>7. TrueInv'
    BY <1>2, <2>2, <2>6, TrueSoFar
  <2> QED
    BY <1>1, <1>2, <1>3, <1>4, <1>5, <1>6, <2>5, <2>7 DEF BootInv
<1> QED
  BY <1>8, <1>9

LEMMA InitMemoriesKeeps ==
  ASSUME BootInv, InitMemories
  PROVE  BootInv'
<1>1. /\ step \in {20, 24, 25, 26, 27} /\ step' = step + 1 /\ UNCHANGED inherited
      /\ \/ step = 20 /\ memoryInit({"CPU_RAM"}) /\ UNCHANGED parity_on
         \/ step = 24 /\ wrong' = wrong \ MibSpiRams /\ UNCHANGED parity_on
         \/ step = 25 /\ enableParity /\ UNCHANGED wrong
         \/ step = 26 /\ memoryInit(SystemRams) /\ UNCHANGED parity_on
         \/ step = 27 /\ disableParity /\ UNCHANGED wrong
  BY ActionPlaces DEF BootInv, InitMemories, Advance
<1>2. /\ UNCHANGED <<clockVars, broken, efc_error, esm, tested, efcCheckStatus, notified>>
      /\ Lasting
  BY <1>1 DEF InitMemories, Lasting
<1>3. ClockInv'
  BY <1>1, <1>2, ClocksStay
<1>4. FlagInv'
  BY <1>1, <1>2 DEF BootInv, FlagInv, Lasting
<1>5. StatusInv'
  BY <1>1, <1>2 DEF BootInv, StatusInv, StatusOf, efcStuckZeroTest, Lasting
<1>6. WrongInv'
  <2>1. CASE step = 20 /\ memoryInit({"CPU_RAM"})
    BY <1>1, <2>1 DEF BootInv, WrongInv, memoryInit
  <2>2. CASE step = 24 /\ wrong' = wrong \ MibSpiRams
    BY <1>1, <2>2 DEF BootInv, WrongInv, DualPort
  <2>3. CASE step = 25 /\ enableParity /\ UNCHANGED wrong
    BY <1>1, <2>3 DEF BootInv, WrongInv, enableParity
  <2>4. CASE step = 26 /\ memoryInit(SystemRams)
    <3>1. wrong \subseteq SystemRams /\ parity_on
      BY <2>4 DEF BootInv, WrongInv
    <3>2. wrong' = {}
      BY <2>4, <3>1 DEF memoryInit
    <3> QED
      BY <1>1, <2>4, <3>2 DEF WrongInv
  <2>5. CASE step = 27 /\ UNCHANGED wrong
    <3>1. wrong = {}
      BY <2>5 DEF BootInv, WrongInv
    <3> QED
      BY <1>1, <2>5, <3>1 DEF WrongInv
  <2> QED
    BY <1>1, <2>1, <2>2, <2>3, <2>4, <2>5
<1>7. TestedInv'
  BY <1>1, <1>2 DEF BootInv, TestedInv
<1>8. ToldInv'
  BY <1>1, <1>2, ToldSoFar DEF ToldInv, ParityStep
<1>9. TrueInv'
  BY <1>2, TrueSoFar
<1> QED
  BY <1>1, <1>2, <1>3, <1>4, <1>5, <1>6, <1>7, <1>8, <1>9 DEF BootInv

\* A test of the parity of a memory: what it raises, it looks at and clears.
LEMMA ParityRaises ==
  ASSUME NEW i \in 1..14
  PROVE  /\ ParityTests[i].raises = ParityTests[i].flags
         /\ ParityTests[i].flags \cap {26, 28} = {}
         /\ ParityTests[i].memory = ParityStep(i) /\ ParityStep(i) \in DualPort
         /\ Notices(ParityStep(i)) = {ParityStep(i)}
<1>1. ParityTests[i].raises = ParityTests[i].flags /\ ParityTests[i].flags \cap {26, 28} = {}
  <2> USE DEF ParityTests, Test
  <2>1. CASE i = 1
    BY <2>1 DEF het1ParityCheck
  <2>2. CASE i = 2
    BY <2>2 DEF htu1ParityCheck
  <2>3. CASE i = 3
    BY <2>3 DEF het2ParityCheck
  <2>4. CASE i = 4
    BY <2>4 DEF htu2ParityCheck
  <2>5. CASE i = 5
    BY <2>5 DEF adc1ParityCheck
  <2>6. CASE i = 6
    BY <2>6 DEF adc2ParityCheck
  <2>7. CASE i = 7
    BY <2>7 DEF can1ParityCheck
  <2>8. CASE i = 8
    BY <2>8 DEF can2ParityCheck
  <2>9. CASE i = 9
    BY <2>9 DEF can3ParityCheck
  <2>10. CASE i = 10
    BY <2>10 DEF vimParityCheck
  <2>11. CASE i = 11
    BY <2>11 DEF dmaParityCheck
  <2>12. CASE i = 12
    BY <2>12 DEF mibspi1ParityCheck
  <2>13. CASE i = 13
    BY <2>13 DEF mibspi3ParityCheck
  <2>14. CASE i = 14
    BY <2>14 DEF mibspi5ParityCheck
  <2> QED
    BY <2>1, <2>2, <2>3, <2>4, <2>5, <2>6, <2>7, <2>8, <2>9, <2>10, <2>11, <2>12, <2>13, <2>14
<1>2. ParityTests[i].memory = ParityStep(i)
  BY DEF ParityStep
<1>3. ParityStep(i) \in DualPort
  BY Memories DEF DualPort, SystemRams, MibSpiRams
<1>4. \A b \in DualPort : Notices(b) = {b}
  BY DEF Notices, DualPort, SystemRams, MibSpiRams
<1> QED
  BY <1>1, <1>2, <1>3, <1>4

\* The tests come one after the other, each of another memory.
LEMMA ParityStepsDiffer ==
  ASSUME NEW i \in 1..14, NEW j \in 1..14, ParityStep(i) = ParityStep(j)
  PROVE  i = j
BY Memories

LEMMA CheckParityKeeps ==
  ASSUME BootInv, CheckParity
  PROVE  BootInv'
<1>1. PICK i \in 1..14 : At(ParityStep(i)) /\ ParityCheck(ParityTests[i])
  BY TestDomain DEF CheckParity
<1>2. step = 27 + i /\ step' = step + 1 /\ UNCHANGED inherited
  BY <1>1, ParityPlaces DEF BootInv, CheckParity, Advance
<1> DEFINE t == ParityTests[i]
           m == ParityStep(i)
<1>3. m = t.memory /\ m \in DualPort /\ Notices(m) = {m} /\ t.raises = t.flags
  BY ParityRaises
<1>4. PICK channel \in t.flags :
        LET turned == Toggle(wrong, m)
            reported == m \in turned \ broken
            raised == IF reported THEN esm \cup {channel} ELSE esm
        IN IF raised \cap t.flags = {}
           THEN notified' = notified \cup {m} /\ wrong' = turned /\ UNCHANGED esm
           ELSE esm' = Cleared(raised, t.flags) /\ wrong' = Toggle(turned, m) /\ UNCHANGED notified
  BY <1>1, <1>3 DEF ParityCheck
<1>5. /\ UNCHANGED <<clockVars, broken, efc_error, parity_on, tested, efcCheckStatus>>
      /\ Lasting
  BY <1>2, <1>4 DEF CheckParity, Lasting
<1>6. m \notin wrong
  BY <1>2, ParityStepsDiffer DEF BootInv, WrongInv
<1>7. \/ /\ m \in broken /\ esm \cap t.flags = {} /\ notified' = notified \cup {m}
         /\ wrong' = wrong \cup {m} /\ esm' = esm
      \/ /\ m \notin broken \/ esm \cap t.flags # {}
         /\ esm' \subseteq esm /\ wrong' = wrong /\ notified' = notified
  <2>1. Toggle(wrong, m) = wrong \cup {m} /\ Toggle(wrong \cup {m}, m) = wrong
    BY <1>6 DEF Toggle
  <2>2. CASE m \in broken
    BY <1>4, <2>1, <2>2 DEF Cleared
  <2>3. CASE m \notin broken
    BY <1>4, <2>1, <2>3 DEF Cleared
  <2> QED
    BY <2>2, <2>3
<1>8. ClockInv'
  BY <1>2, <1>5, ClocksStay
<1>9. FlagInv'
  <2>1. esm' \subseteq esm
    BY <1>7
  <2> QED
    BY <1>2, <2>1 DEF BootInv, FlagInv
<1>10. StatusInv'
  BY <1>2, <1>5 DEF BootInv, StatusInv, StatusOf, efcStuckZeroTest, Lasting
<1>11. WrongInv'
  <2>1. step' > 28
    BY <1>2
  <2>2. \A w \in wrong : w \in notified /\ \E j \in 1..14 : w = ParityStep(j) /\ 27 + j < step
    BY <1>2 DEF BootInv, WrongInv
  <2>3. \A w \in wrong' : w \in notified' /\ \E j \in 1..14 : w = ParityStep(j) /\ 27 + j < step'
    <3>1. ASSUME NEW w \in wrong'
          PROVE  w \in notified' /\ \E j \in 1..14 : w = ParityStep(j) /\ 27 + j < step'
      <4>1. CASE w \in wrong
        BY <1>2, <1>5, <2>2, <4>1 DEF Lasting
      <4>2. CASE w \notin wrong
        BY <1>2, <1>7, <4>2
      <4> QED
        BY <4>1, <4>2
    <3> QED
      BY <3>1
  <2>4. wrong' \subseteq DualPort
    BY <1>3, <1>7 DEF BootInv, WrongInv
  <2>5. ~(step' <= 21) /\ step' \notin {25, 26} /\ step' # 26
    BY <1>2
  <2> QED
    BY <2>3, <2>4, <2>5, Zenon DEF WrongInv, ParityStep
<1>12. TestedInv'
  BY <1>2, <1>5 DEF BootInv, TestedInv
<1>13. ToldInv'
  <2>1. ASSUME NEW n, n = m
        PROVE  Told(n)'
    <3>1. CASE esm \cap t.flags # {}
      <4>1. t.flags \cap inherited # {}
        BY <1>2, <3>1, ParityRaises DEF BootInv, FlagInv
      <4>2. Hidden(n)'
        BY <1>2, <2>1, <4>1, TestDomain DEF Hidden, ParityStep
      <4> QED
        BY <4>2 DEF Told
    <3>2. CASE esm \cap t.flags = {}
      <4>1. Notices(n) = {n}
        BY <1>3, <2>1
      <4> QED
        BY <1>5, <1>7, <2>1, <3>2, <4>1 DEF Told, Notices
    <3> QED
      BY <3>1, <3>2
  <2>2. \A j \in 1..14 : step' > 27 + j => Told(ParityStep(j))'
    <3>1. ASSUME NEW j \in 1..14, step' > 27 + j
          PROVE  Told(ParityStep(j))'
      <4>1. CASE j = i
        BY <2>1, <4>1 DEF ParityStep
      <4>2. CASE j # i
        BY <1>2, <1>5, <3>1, <4>2, ToldSoFar
      <4> QED
        BY <4>1, <4>2
    <3> QED
      BY <3>1
  <2>3. /\ (Told("eFuse_stuck") /\ Told("eFuse_self_test"))' /\ (broken \cap Plls = {})'
        /\ (Told("PBIST_stuck") /\ Told("PBIST_slow") /\ Told("PBIST_silent"))'
        /\ (Told("STC_ROM") /\ Told("PBIST_ROM") /\ Told("CPU_RAM"))'
        /\ (Told("TCRAM1") /\ Told("TCRAM2") /\ Told("RAM_event"))' /\ Told("dual-port_RAMs")'
    BY <1>2, <1>5, ToldSoFar
  <2> QED
    BY <2>2, <2>3, Zenon DEF ToldInv, ParityStep
<1>14. TrueInv'
  <2>1. ASSUME NEW n \in notified' \ notified
        PROVE  IsTrue(n)'
    <3>1. n = m /\ m \in broken
      BY <1>7, <2>1
    <3>2. n \in broken' /\ n \in Notices(n)
      BY <1>3, <1>5, <3>1
    <3> QED
      BY <3>2 DEF IsTrue, Notices
  <2> QED
    BY <1>5, <2>1, TrueSoFar
<1>15. step' \in 1..51
  BY <1>2
<1> QED
  BY <1>5, <1>8, <1>9, <1>10, <1>11, <1>12, <1>13, <1>14, <1>15 DEF BootInv

LEMMA EsmInitKeeps ==
  ASSUME BootInv, EsmInit
  PROVE  BootInv'
<1>1. step = 42 /\ step' = 43 /\ UNCHANGED inherited
  BY ActionPlaces DEF BootInv, EsmInit, Advance
<1>2. /\ UNCHANGED <<clockVars, broken, efc_error, parity_on, wrong, tested, efcCheckStatus, notified>>
      /\ Lasting /\ esm' = {}
  BY <1>1 DEF EsmInit, Lasting
<1>3. ClockInv'
  BY <1>1, <1>2, ClocksStay
<1>4. FlagInv'
  BY <1>1, <1>2 DEF FlagInv
<1>5. StatusInv'
  BY <1>1, <1>2 DEF BootInv, StatusInv, StatusOf, efcStuckZeroTest, Lasting
<1>6. (WrongInv /\ TestedInv)'
  BY <1>1, <1>2 DEF BootInv, WrongInv, TestedInv, ParityStep, Lasting
<1>7. ToldInv'
  BY <1>1, <1>2, ToldSoFar DEF ToldInv, ParityStep
<1>8. TrueInv'
  BY <1>2, TrueSoFar
<1> QED
  BY <1>1, <1>2, <1>3, <1>4, <1>5, <1>6, <1>7, <1>8 DEF BootInv

\* At the end every part that can be broken is one that a test looks for.
LEMMA EachIsTold ==
  ASSUME BootInv, step = 51, NEW b \in broken
  PROVE  Told(b)
<1>1. b \in Defective
  BY DEF BootInv
<1>2. CASE b \in DualPort
  <2>1. \E j \in 1..14 : b = ParityStep(j)
    <3>1. b \in {"DMA", "VIM", "CAN1", "CAN2", "CAN3", "ADC1", "ADC2", "HET1", "HET2", "HTU1", "HTU2",
                 "MIBSPI1", "MIBSPI3", "MIBSPI5"}
      BY <1>2 DEF DualPort, SystemRams, MibSpiRams
    <3> QED
      BY <3>1, Memories
  <2> QED
    BY <2>1 DEF BootInv, ToldInv
<1>3. CASE b \in Plls
  BY <1>3 DEF BootInv, ToldInv
<1>4. CASE b = "PLL_in_use"
  BY <1>4 DEF Told, Hidden
<1>5. CASE b \in {"STC_ROM", "PBIST_ROM", "CPU_RAM", "dual-port_RAMs"}
  BY <1>5 DEF BootInv, ToldInv
<1>6. CASE b \in {"PBIST_silent", "PBIST_slow", "PBIST_stuck", "eFuse_stuck", "eFuse_self_test"}
  BY <1>6 DEF BootInv, ToldInv
<1>7. CASE b \in {"TCRAM1", "TCRAM2", "RAM_event"}
  BY <1>7 DEF BootInv, ToldInv
<1> QED
  BY <1>1, <1>2, <1>3, <1>4, <1>5, <1>6, <1>7 DEF Defective

-----------------------------------------------------------------------------
\* The startup is safe, whatever is broken (_c_int00, systemInit and the self
\* tests): the clocks on its way are, whoever reaches KavachInit was told of all
\* that is broken and of nothing else, and then everything is set up.
THEOREM StartupStaysSafe == BootSpec => []StartupIsSafe
<1>1. BootInit => BootInv
  <2> SUFFICES ASSUME BootInit
               PROVE  BootInv
    OBVIOUS
  <2> USE DEF BootInit
  <2>1. broken \subseteq Defective
    BY StartupAssumption
  <2>2. ClockInv
    BY DEF ClocksInit, ClockInv, MaxDivider
  <2>3. FlagInv /\ StatusInv /\ WrongInv /\ TestedInv
    BY DEF FlagInv, StatusInv, WrongInv, TestedInv
  <2>4. ToldInv /\ TrueInv
    BY DEF ToldInv, TrueInv
  <2> QED
    BY <2>1, <2>2, <2>3, <2>4 DEF BootInv
<1>2. BootInv /\ [BootNext]_bootVars => BootInv'
  <2> SUFFICES ASSUME BootInv, [BootNext]_bootVars
               PROVE  BootInv'
    OBVIOUS
  <2>1. CASE UNCHANGED bootVars
    BY <2>1, AllStays DEF bootVars
  <2>2. CASE BootNext
    BY <2>2, ResetKeeps, TryPllsKeeps, EndPllsKeeps, EsmCheckKeeps, SetUpKeeps, EfcCheckKeeps,
       CheckEfcSelfTestKeeps, MapClocksKeeps, TestPbistKeeps, RunPbistKeeps, EndPbistKeeps,
       CheckRamEccKeeps, InitMemoriesKeeps, CheckParityKeeps, EsmInitKeeps DEF BootNext
  <2> QED
    BY <2>1, <2>2
<1>3. BootInv => StartupIsSafe
  <2> SUFFICES ASSUME BootInv
               PROVE  StartupIsSafe
    OBVIOUS
  <2>1. Steps[step] = "KavachInit" => step = 51
    BY Names DEF BootInv
  <2>2. step = 51 => BrokenIsNotified
    <3> SUFFICES ASSUME step = 51
                 PROVE  BrokenIsNotified
      OBVIOUS
    <3>1. \A b \in broken : Told(b)
      BY EachIsTold
    <3>2. \A n \in notified : IsTrue(n)
      BY DEF BootInv, TrueInv
    <3>3. wrong \subseteq notified
      BY DEF BootInv, WrongInv
    <3> QED
      BY <3>1, <3>2, <3>3 DEF BrokenIsNotified, Told, IsTrue
  <2>3. step # 51 => BrokenIsNotified
    BY <2>1 DEF BrokenIsNotified
  <2>4. ClocksAreSafe
    BY DEF BootInv, ClockInv, ClocksAreSafe
  <2>5. step = 51 =>
          ghvsrc = "PLL1" /\ csvstat = Plls /\ peripherals = "on" /\ pins # "default" /\ hf_lpo # "untrimmed"
    BY DEF BootInv, ClockInv
  <2> QED
    BY <2>1, <2>2, <2>3, <2>4, <2>5 DEF StartupIsSafe
<1> QED
  BY <1>1, <1>2, <1>3, PTL DEF BootSpec
=============================================================================
