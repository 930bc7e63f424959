------------------------------- MODULE MCStreams -------------------------------
(* Instances of the streams for TLC; the .cfg files give the constants.        *)
EXTENDS Streams
=============================================================================
