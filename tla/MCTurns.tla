-------------------------------- MODULE MCTurns --------------------------------
(* What turns share: the tables, the rate limiter and the token tracker, and   *)
(* the rules by which their calls are routed to models.  The two have no state *)
(* in common, so a behaviour moves the one part or the other.                  *)
(*                                                                             *)
(* Two turns ask two providers: the rules of two intents, in the order of the  *)
(* default rules, and the one of IntentUnknown; the local provider's list      *)
(* changes, to one without the default model and back to one with it last.     *)
EXTENDS Conversation, Routing

VARIABLE part

MCRules == <<[intent |-> "code", provider |-> "ollama"],
             [intent |-> "code", provider |-> "openai"],
             [intent |-> "chat", provider |-> "ollama"],
             [intent |-> Unknown, provider |-> "ollama"]>>

MCDefaults == <<"llama", "gpt", "llama", "llama">>

MCLists == [p \in {"ollama", "openai"} |->
              IF p = "ollama" THEN {<<"qwen">>, <<"phi", "llama">>} ELSE {<<"gpt">>}]

TurnsInit ==
  /\ Init /\ RoutingInit /\ part \in {"conversation", "routing"}
  /\ part = "conversation" => list["ollama"] = <<"qwen">>

TurnsNext ==
  \/ part = "conversation" /\ Next /\ UNCHANGED <<routingVars, part>>
  \/ part = "routing" /\ RoutingNext /\ UNCHANGED <<vars, part>>

\* Each part is as fair as it is alone.
TurnsFairSpec ==
  /\ TurnsInit
  /\ [][TurnsNext]_<<vars, routingVars, part>>
  /\ \A t \in Turns : WF_vars(part = "conversation" /\ ProcessMessage(t))
  /\ \A t \in Callers : WF_routingVars(part = "routing" /\ Routes(t))
=============================================================================
