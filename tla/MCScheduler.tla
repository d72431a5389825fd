---------------------------- MODULE MCScheduler -----------------------------
(***************************************************************************)
(* Instance of Scheduler for TLC: times on both sides of 2^24, where a     *)
(* float stops holding every integer.                                      *)
(***************************************************************************)
EXTENDS Scheduler

MCEventTimes == {1, Exact + 1}
=============================================================================
