----------------------------- MODULE MCGpsTime -----------------------------
(***************************************************************************)
(* The time of the CPU and the main loop, for TLC.  A behaviour is of one  *)
(* of them: GpsTime lets a second pass at any moment, whatever the loop    *)
(* does.                                                                   *)
(***************************************************************************)
EXTENDS GpsTime, MainLoop

CONSTANT Parts     \* of which there are behaviours

VARIABLE part

MCStatuses == [fix : BOOLEAN, pps : BOOLEAN]

\* Two, three and two of each in the next: the second is the fourth period.
MCRatios == <<2, 3, 2>>

MCInit == part \in Parts /\ Init /\ LoopInit

MCNext ==
  \/ part = "gps" /\ Next /\ UNCHANGED <<part, loopVars>>
  \/ part = "loop" /\ LoopNext /\ UNCHANGED <<part, vars>>

MCSpec == MCInit /\ [][MCNext]_<<part, vars, loopVars>>

\* The fairness of both.
MCFairSpec ==
  /\ MCSpec
  /\ WF_vars(part = "gps" /\ Second) /\ WF_vars(part = "gps" /\ OneSecondTask)
  /\ WF_loopVars(part = "loop" /\ Tick) /\ WF_loopVars(part = "loop" /\ LoopStep)
=============================================================================
