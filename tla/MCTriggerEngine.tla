--------------------------- MODULE MCTriggerEngine ---------------------------
(***************************************************************************)
(* Constants for checking TriggerEngine: two schedules that differ, and a  *)
(* configuration without one, which scheduleCron refuses.                  *)
(***************************************************************************)
EXTENDS TriggerEngine, TLC

MCGoodPairs == {"cron"} \X {"hourly", "daily"}

\* Ids, requests and handles are compared for equality only.
MCSymmetry == Permutations(Ids) \cup Permutations(Procs) \cup Permutations(Handles)
=============================================================================
