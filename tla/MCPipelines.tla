------------------------------ MODULE MCPipelines ------------------------------
(* The two engines of internal/pipeline, which have no state in common: a      *)
(* behaviour is a call of Execute or one of ExecuteSwarm.  Execute is given    *)
(* every dependency relation and every choice of strategies over the steps of  *)
(* the .cfg; ExecuteSwarm limits below, at and above the number of its agents, *)
(* and none.                                                                   *)
EXTENDS Pipeline, Swarm

VARIABLE part

PipelinesInit ==
  /\ part \in {"pipeline", "swarm"}
  /\ SwarmInit
  /\ IF part = "swarm"
     THEN /\ deps = [s \in Steps |-> {}]
          /\ strategy = [s \in Steps |-> "stop"]
          /\ retries = [s \in Steps |-> CHOOSE n \in Budgets : TRUE]
          /\ queue = CHOOSE q \in Orderings(Steps) : TRUE
     ELSE limit = N /\ mergeStrategy = "first"
  /\ Init

PipelinesNext ==
  \/ part = "pipeline" /\ Next /\ UNCHANGED <<swarmVars, part>>
  \/ part = "swarm" /\ SwarmNext /\ UNCHANGED <<vars, part>>

\* Each part is as fair as it is alone.
PipelinesFairSpec ==
  /\ PipelinesInit
  /\ [][PipelinesNext]_<<vars, swarmVars, part>>
  /\ WF_vars(part = "pipeline" /\ Execute)
  /\ WF_swarmVars(part = "swarm" /\ Main)
  /\ \A i \in Agents : WF_swarmVars(part = "swarm" /\ Run(i))

\* ExecuteReturns, of the behaviours that are a call of Execute.
CallsOfExecuteReturn == part = "pipeline" => ExecuteReturns

\* EveryAgentIsAsked, of the behaviours that are a call of ExecuteSwarm.
AgentsOfSwarmsAreAsked == part = "swarm" => EveryAgentIsAsked
=============================================================================
