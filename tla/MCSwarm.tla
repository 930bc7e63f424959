-------------------------------- MODULE MCSwarm --------------------------------
(* ExecuteSwarm alone, for TLC; the .cfg file gives the constants.             *)
EXTENDS Swarm
=============================================================================
