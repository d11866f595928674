----------------------------- MODULE MCEventLog -----------------------------
(* A small event logger for TLC: records of one and two fragments. *)
EXTENDS EventLog

MCFragments == [r \in Records |-> IF r = 1 THEN 2 ELSE 1]
=============================================================================
