---------------------------- MODULE MCScheduler ----------------------------
(* Instances of Scheduler for TLC; all parameters are given in the cfgs.   *)
EXTENDS Scheduler
============================================================================
