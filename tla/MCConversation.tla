---------------------------- MODULE MCConversation ----------------------------
(* Instances of sessions and turns for TLC; the .cfg files give the constants. *)
EXTENDS Conversation
=============================================================================
