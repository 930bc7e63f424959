------------------------------- MODULE MCPipeline ------------------------------
(* The pipeline engine alone, for TLC; the .cfg file gives the constants.      *)
EXTENDS Pipeline
=============================================================================
