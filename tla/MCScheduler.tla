------------------------------ MODULE MCScheduler ------------------------------
(* Instances of the scheduler for TLC; the .cfg files give the constants.      *)
EXTENDS Scheduler
=============================================================================
