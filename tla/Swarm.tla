--------------------------------- MODULE Swarm ---------------------------------
(***************************************************************************)
(* Engine.ExecuteSwarm of src/internal/pipeline/pipeline.go: one goroutine *)
(* per agent, a buffered channel sem as the limit on how many run at once, *)
(* and a buffered channel for their results.                               *)
(*                                                                         *)
(* The goroutines take their own token out of sem when they end, and so    *)
(* does the loop that waits for them: N tokens go in, 2 N receives want    *)
(* them.  A send on the closed results channel panics, but the deferred    *)
(* receive from sem runs before the panic leaves the goroutine.            *)
(*                                                                         *)
(* Agents are the positions of config.Agents.  A result is the position    *)
(* and whether it is an error.                                             *)
(***************************************************************************)
EXTENDS Integers, Sequences, FiniteSets

CONSTANTS
  N,         \* len(config.Agents)
  Limits     \* values of config.MaxConcurrent

ASSUME SwarmAssumption == N \in Nat /\ Limits \subseteq Int

Agents == 1..N

\* "vote" and "best_of" are the same code.
MergeStrategies == {"concatenate", "first"}

VARIABLES
  limit,     \* cap(sem)
  mergeStrategy,  \* config.MergeStrategy
  main,      \* where ExecuteSwarm is
  next,      \* the agent to launch next
  taken,     \* tokens the waiting loop has received
  tokens,    \* len(sem)
  results,   \* what is in the results channel, and was
  closed,    \* the results channel is closed
  goroutine, \* where each goroutine is
  outputs,   \* what ExecuteSwarm returned
  crashed    \* a panic has left its goroutine: the program is gone

config == <<limit, mergeStrategy>>
swarmVars == <<limit, mergeStrategy, main, next, taken, tokens, results, closed, goroutine, outputs, crashed>>

SwarmInit ==
  /\ limit \in {IF m <= 0 THEN N ELSE m : m \in Limits}
  /\ mergeStrategy \in MergeStrategies
  /\ main = "launch"
  /\ next = 1
  /\ taken = 0
  /\ tokens = 0
  /\ results = <<>>
  /\ closed = FALSE
  /\ goroutine = [i \in Agents |-> "idle"]
  /\ outputs = <<>>
  /\ crashed = FALSE

Room == tokens < limit

\* Mutant: a results channel for one result only.
ResultsOfOne == 1

ResultsCap == N

WaitFor == N

Move(i, place) == goroutine' = [goroutine EXCEPT ![i] = place]

\* What the loop over the results gathers: the errors, or the texts.
Gathered(failed) ==
  LET From[k \in 0..Len(results)] ==
        IF k = 0 THEN <<>>
        ELSE IF results[k].failed = failed THEN Append(From[k - 1], results[k])
        ELSE From[k - 1]
  IN  From[Len(results)]

\* Mutant: the errors are dropped.
MergedTextsOnly == Gathered(FALSE)

\* The first text, or the errors when there is none; or the errors, then the texts.
Merged ==
  LET errors == Gathered(TRUE)
      texts == Gathered(FALSE)
  IN  IF mergeStrategy = "first" /\ texts # <<>> THEN <<Head(texts)>> ELSE errors \o texts

-----------------------------------------------------------------------------
Launch ==
  /\ main = "launch"
  /\ next \in Agents
  /\ Room
  /\ tokens' = tokens + 1
  /\ Move(next, "started")
  /\ next' = next + 1
  /\ UNCHANGED <<config, main, taken, results, closed, outputs>>

Launched ==
  /\ main = "launch"
  /\ next \notin Agents
  /\ main' = "wait"
  /\ UNCHANGED <<config, next, taken, tokens, results, closed, goroutine, outputs>>

\* One turn of the waiting loop.
Take ==
  /\ main = "wait"
  /\ taken < WaitFor
  /\ tokens > 0
  /\ tokens' = tokens - 1
  /\ taken' = taken + 1
  /\ UNCHANGED <<config, main, next, results, closed, goroutine, outputs>>

Close ==
  /\ main = "wait"
  /\ taken = WaitFor
  /\ closed' = TRUE
  /\ main' = "merge"
  /\ UNCHANGED <<config, next, taken, tokens, results, goroutine, outputs>>

Return ==
  /\ main = "merge"
  /\ outputs' = Merged
  /\ main' = "returned"
  /\ UNCHANGED <<config, next, taken, tokens, results, closed, goroutine>>

\* No executor is registered under this id.
NotFound(i) ==
  /\ goroutine[i] = "started"
  /\ Move(i, "failed")
  /\ UNCHANGED <<config, main, next, taken, tokens, results, closed, outputs>>

AskAgent(i) ==
  /\ goroutine[i] = "started"
  /\ Move(i, "calling")
  /\ UNCHANGED <<config, main, next, taken, tokens, results, closed, outputs>>

Answer(i) ==
  /\ goroutine[i] = "calling"
  /\ \E place \in {"answered", "failed"} : Move(i, place)
  /\ UNCHANGED <<config, main, next, taken, tokens, results, closed, outputs>>

Send(i) ==
  /\ goroutine[i] \in {"answered", "failed"}
  /\ ~closed
  /\ Len(results) < ResultsCap
  /\ results' = Append(results, [agent |-> i, failed |-> goroutine[i] = "failed"])
  /\ Move(i, "sent")
  /\ UNCHANGED <<config, main, next, taken, tokens, closed, outputs>>

SendOnClosed(i) ==
  /\ goroutine[i] \in {"answered", "failed"}
  /\ closed
  /\ Move(i, "panicking")
  /\ UNCHANGED <<config, main, next, taken, tokens, results, closed, outputs>>

\* The deferred receive; a panic surfaces when it is through.
Release(i) ==
  /\ goroutine[i] \in {"sent", "panicking"}
  /\ tokens > 0
  /\ tokens' = tokens - 1
  /\ Move(i, "gone")
  /\ UNCHANGED <<config, main, next, taken, results, closed, outputs>>

Main ==
  ~crashed /\ (Launch \/ Launched \/ Take \/ Close \/ Return) /\ UNCHANGED crashed

Run(i) ==
  /\ ~crashed
  /\ NotFound(i) \/ AskAgent(i) \/ Answer(i) \/ Send(i) \/ SendOnClosed(i) \/ Release(i)
  /\ crashed' = (goroutine[i] = "panicking")

SwarmNext == Main \/ \E i \in Agents : Run(i)

SwarmSpec == SwarmInit /\ [][SwarmNext]_swarmVars

\* Every goroutine is scheduled and every executor returns; who gets a token
\* that two goroutines wait for is left open.
SwarmFairness == WF_swarmVars(Main) /\ \A i \in Agents : WF_swarmVars(Run(i))

SwarmFairSpec == SwarmSpec /\ SwarmFairness

-----------------------------------------------------------------------------
\* The type of the state.
SwarmTypeOK ==
  /\ limit \in Nat
  /\ mergeStrategy \in MergeStrategies
  /\ main \in {"launch", "wait", "merge", "returned"}
  /\ next \in 1..N + 1
  /\ taken \in 0..N
  /\ tokens \in 0..limit
  /\ results \in Seq([agent : Agents, failed : BOOLEAN])
  /\ closed \in BOOLEAN
  /\ goroutine \in [Agents -> {"idle", "started", "calling", "answered", "failed", "sent",
                               "panicking", "gone"}]
  /\ outputs \in Seq([agent : Agents, failed : BOOLEAN])
  /\ crashed \in BOOLEAN

Live == {i \in Agents : goroutine[i] \notin {"idle", "gone"}}

\* However the tokens are shared out, no more goroutines are alive at any time
\* than MaxConcurrent allows.
ConcurrencyLimited == Cardinality(Live) <= limit

\* The send on the closed channel never takes the program down: the goroutine
\* that panics hangs in its deferred receive for ever.
PanicNeverSurfaces == ~crashed

\* ExecuteSwarm only gets past its waiting loop when the limit is at least the
\* number of agents and it has outrun every goroutine: none has ended, and
\* none ever will.
ReturnsOnlyByOutrunning == closed => limit >= N /\ \A i \in Agents : goroutine[i] # "gone"

\* The agents missing from a concatenated answer are exactly those that had
\* not sent their result when the channel was closed.
MissingAreUnsent ==
  main = "returned" /\ mergeStrategy = "concatenate" =>
    \A i \in Agents : (\E k \in 1..Len(outputs) : outputs[k].agent = i) <=> goroutine[i] = "sent"

\* Every agent is asked, however small the limit: the launching loop is never
\* held up for good, because the results channel has room for everybody.
EveryAgentIsAsked == \A i \in Agents : <>(goroutine[i] \notin {"idle", "started"})

\* Wait for all: when the results are read, every agent has delivered one.
WaitsForAll == closed => \A i \in Agents : \E k \in 1..Len(results) : results[k].agent = i
=============================================================================
