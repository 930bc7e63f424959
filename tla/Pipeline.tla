------------------------------- MODULE Pipeline --------------------------------
(***************************************************************************)
(* Engine.Execute of src/internal/pipeline/pipeline.go: topological sort   *)
(* of the steps, then one step after the other with dependency checks,     *)
(* retries, error strategies and cancellation.                             *)
(*                                                                         *)
(* The pipeline is an input: any dependency relation, strategies and retry *)
(* budgets.  Steps, agents and outputs are opaque; Outputs holds exactly   *)
(* the results of the completed steps.  A step has an entry in StepErrors  *)
(* when its status is "error" or "skipped".                                *)
(*                                                                         *)
(* A definition marked "Mutant" is a wrong version of the one after it;    *)
(* it is used only to show that the property it breaks can fail.           *)
(***************************************************************************)
EXTENDS Integers, Sequences, FiniteSets

CONSTANTS
  Steps,     \* ids of the pipeline's steps
  Ghosts,    \* ids that DependsOn may name though no step has them
  Budgets    \* values of MaxRetries

ASSUME PipelineAssumption ==
  IsFiniteSet(Steps) /\ Steps \cap Ghosts = {} /\ Budgets \subseteq Int

Strategies == {"stop", "continue", "retry"}

VARIABLES
  deps,       \* Step.DependsOn
  strategy,   \* Step.ErrorStrategy
  retries,    \* Step.MaxRetries
  waiting,    \* inDegree: the dependencies not dequeued yet
  queue,      \* Kahn's queue
  order,      \* the order built so far
  pc,         \* where Execute is
  idx,        \* position in order
  attempt,    \* the retry counter
  failing,    \* execErr # nil
  status,     \* run.StepStatus
  runStatus,  \* run.Status
  cancelled,  \* the caller's context is done
  calls,      \* history: calls of ExecuteTask per step
  lateCalls   \* history: calls begun after the context was done

input == <<deps, strategy, retries>>
sorting == <<waiting, queue, order>>
loop == <<attempt, failing>>
run == <<status, runStatus>>
history == <<calls, lateCalls>>
vars == <<deps, strategy, retries, waiting, queue, order, pc, idx, attempt, failing,
          status, runStatus, cancelled, calls, lateCalls>>

-----------------------------------------------------------------------------
\* The sequences that list the members of S once each.
Orderings(S) ==
  {q \in [1..Cardinality(S) -> S] : \A i, j \in 1..Cardinality(S) : q[i] = q[j] => i = j}

Init ==
  /\ deps \in [Steps -> SUBSET (Steps \cup Ghosts)]
  /\ strategy \in [Steps -> Strategies]
  /\ retries \in [Steps -> Budgets]
  /\ waiting = deps
  /\ queue \in Orderings({s \in Steps : deps[s] = {}})   \* a Go map has no order
  /\ order = <<>>
  /\ pc = "sort"
  /\ idx = 1
  /\ attempt = 0
  /\ failing = FALSE
  /\ status = [s \in Steps |-> "pending"]
  /\ runStatus = "running"
  /\ cancelled = FALSE
  /\ calls = [s \in Steps |-> 0]
  /\ lateCalls = 0

Step == order[idx]

Goto(label) == pc' = label

SetStep(value) == status' = [status EXCEPT ![Step] = value]

Advance == idx' = idx + 1

\* Mutant: no dependency is ever looked at.
UnmetIgnored(s) == {}

Unmet(s) == {d \in deps[s] : status[d] # "completed"}

\* Mutant: one dependency dequeued is enough.
NewlyReadyEarly(node) == {s \in Steps : node \in waiting[s]}

\* Mutant: the neighbours' degrees are never brought down to zero.
NewlyReadyNever(node) == {}

\* The neighbours whose degree reaches zero with this node.
NewlyReady(node) == {s \in Steps : waiting[s] = {node}}

\* Mutant: the context is not looked at.
ContextIgnored == FALSE

ContextDone == cancelled

RetriesOnError(s) == strategy[s] = "retry"

\* Mutant: every failure is passed over.
StopsNever(s) == FALSE

StopsRun(s) == failing /\ strategy[s] = "stop"

-----------------------------------------------------------------------------
\* topologicalSort takes a node; the pipeline may list the steps in any order.
SortStep ==
  /\ pc = "sort"
  /\ queue # <<>>
  /\ LET node == Head(queue)
     IN  /\ order' = Append(order, node)
         /\ waiting' = [s \in Steps |-> waiting[s] \ {node}]
         /\ \E more \in Orderings(NewlyReady(node)) : queue' = Tail(queue) \o more
  /\ UNCHANGED <<input, pc, idx, loop, run, cancelled, history>>

\* "circular dependency detected": nothing is executed.
SortDone ==
  /\ pc = "sort"
  /\ queue = <<>>
  /\ IF Len(order) = Cardinality(Steps)
     THEN Goto("next") /\ UNCHANGED runStatus
     ELSE Goto("done") /\ runStatus' = "error"
  /\ UNCHANGED <<input, sorting, idx, loop, status, cancelled, history>>

NextStep ==
  /\ pc = "next"
  /\ IF idx <= Len(order)
     THEN SetStep("running") /\ Goto("deps") /\ UNCHANGED runStatus
     ELSE runStatus' = "completed" /\ Goto("done") /\ UNCHANGED status
  /\ UNCHANGED <<input, sorting, idx, loop, cancelled, history>>

DepsMet ==
  /\ pc = "deps"
  /\ Unmet(Step) = {}
  /\ attempt' = 0
  /\ failing' = FALSE
  /\ Goto("attempt")
  /\ UNCHANGED <<input, sorting, idx, run, cancelled, history>>

\* Mutant: the step is looked at again instead of being passed over.
DepsAwaited ==
  /\ pc = "deps"
  /\ Unmet(Step) # {}
  /\ Goto("next")
  /\ UNCHANGED <<input, sorting, idx, loop, run, cancelled, history>>

\* The first unmet dependency of the list decides: the step is skipped, or it
\* is passed over with its status still "running".
DepsUnmet ==
  /\ pc = "deps"
  /\ \E d \in Unmet(Step) :
       IF status[d] \in {"error", "skipped"} /\ strategy[Step] = "stop"
       THEN SetStep("skipped")
       ELSE UNCHANGED status
  /\ Advance
  /\ Goto("next")
  /\ UNCHANGED <<input, sorting, loop, runStatus, cancelled, history>>

AttemptsUsedUp ==
  /\ pc = "attempt"
  /\ attempt > retries[Step]
  /\ Goto("settle")
  /\ UNCHANGED <<input, sorting, idx, loop, run, cancelled, history>>

SeeCancelled ==
  /\ pc = "attempt"
  /\ attempt <= retries[Step]
  /\ ContextDone
  /\ SetStep("cancelled")
  /\ runStatus' = "cancelled"
  /\ Goto("done")
  /\ UNCHANGED <<input, sorting, idx, loop, cancelled, history>>

TryOnce ==
  /\ pc = "attempt"
  /\ attempt <= retries[Step]
  /\ ~ContextDone
  /\ Goto("lookup")
  /\ UNCHANGED <<input, sorting, idx, loop, run, cancelled, history>>

\* No executor under this id: an error that is never retried.
NotRegistered ==
  /\ pc = "lookup"
  /\ failing' = TRUE
  /\ Goto("settle")
  /\ UNCHANGED <<input, sorting, idx, attempt, run, cancelled, history>>

Call ==
  /\ pc = "lookup"
  /\ calls' = [calls EXCEPT ![Step] = @ + 1]
  /\ lateCalls' = IF cancelled THEN lateCalls + 1 ELSE lateCalls
  /\ Goto("call")
  /\ UNCHANGED <<input, sorting, idx, loop, run, cancelled>>

CallSucceeds ==
  /\ pc = "call"
  /\ failing' = FALSE
  /\ Goto("settle")
  /\ UNCHANGED <<input, sorting, idx, attempt, run, cancelled, history>>

CallFails ==
  /\ pc = "call"
  /\ failing' = TRUE
  /\ Goto(IF RetriesOnError(Step) THEN "sleep" ELSE "settle")
  /\ UNCHANGED <<input, sorting, idx, attempt, run, cancelled, history>>

Sleep ==
  /\ pc = "sleep"
  /\ attempt' = attempt + 1
  /\ Goto("attempt")
  /\ UNCHANGED <<input, sorting, idx, failing, run, cancelled, history>>

\* Record the outcome; a failed step with strategy "stop" ends the run.
Settle ==
  /\ pc = "settle"
  /\ SetStep(IF failing THEN "error" ELSE "completed")
  /\ IF StopsRun(Step)
     THEN runStatus' = "error" /\ Goto("done") /\ UNCHANGED idx
     ELSE Advance /\ Goto("next") /\ UNCHANGED runStatus
  /\ UNCHANGED <<input, sorting, loop, cancelled, history>>

\* The caller gives up, at any moment before Execute returns.
Cancel ==
  /\ pc # "done"
  /\ ~cancelled
  /\ cancelled' = TRUE
  /\ UNCHANGED <<input, sorting, pc, idx, loop, run, history>>

\* What Execute does between the calls of the agents.
ExecuteItself ==
  \/ SortStep \/ SortDone \/ NextStep \/ DepsMet \/ DepsUnmet
  \/ AttemptsUsedUp \/ SeeCancelled \/ TryOnce
  \/ NotRegistered \/ Call \/ Sleep \/ Settle

Execute == ExecuteItself \/ CallSucceeds \/ CallFails

Next == Execute \/ Cancel

Spec == Init /\ [][Next]_vars

\* Execute runs on its caller's goroutine and every executor returns: the
\* agents run under a turn timeout.  Nobody has to cancel.
FairSpec == Spec /\ WF_vars(Execute)

\* Execute goes on, while a call may take as long as the agent likes.
SlowAgentsSpec == Spec /\ WF_vars(ExecuteItself)

-----------------------------------------------------------------------------
\* The type of the state.
TypeOK ==
  /\ deps \in [Steps -> SUBSET (Steps \cup Ghosts)]
  /\ strategy \in [Steps -> Strategies]
  /\ retries \in [Steps -> Budgets]
  /\ waiting \in [Steps -> SUBSET (Steps \cup Ghosts)]
  /\ queue \in Seq(Steps)
  /\ order \in Seq(Steps)
  /\ pc \in {"sort", "next", "deps", "attempt", "lookup", "call", "sleep", "settle", "done"}
  /\ idx \in 1..Len(order) + 1
  /\ attempt \in Nat
  /\ failing \in BOOLEAN
  /\ status \in [Steps -> {"pending", "running", "completed", "error", "skipped", "cancelled"}]
  /\ runStatus \in {"running", "completed", "error", "cancelled"}
  /\ cancelled \in BOOLEAN
  /\ calls \in [Steps -> Nat]
  /\ lateCalls \in Nat

\* topologicalSort never lists a step before one of its dependencies, nor twice.
OrderIsTopological ==
  \A i \in 1..Len(order) : /\ deps[order[i]] \subseteq {order[j] : j \in 1..i-1}
                           /\ \A j \in 1..i-1 : order[i] # order[j]

\* A set of steps each of which waits for another one of the set or for no step.
Stuck(S) == S # {} /\ \A s \in S : deps[s] \cap (S \cup Ghosts) # {}

\* The sort gives up exactly on the pipelines that cannot be run: some steps
\* wait for one another, or for a step that does not exist.
SortFailsIffStuck ==
  pc # "sort" =>
    (Len(order) < Cardinality(Steps) <=> \E S \in SUBSET Steps : Stuck(S))

\* A step's agent is called at most MaxRetries + 1 times, and once unless the
\* strategy is "retry", however the calls end.
AttemptsWithinBudget ==
  \A s \in Steps :
    calls[s] > 0 => calls[s] <= (IF strategy[s] = "retry" THEN retries[s] ELSE 0) + 1

\* Once the caller's context is done at most one more agent call begins: the
\* one whose select had already looked at the context.
AtMostOneLateCall == lateCalls <= 1

\* What the final statuses of a completed run mean: no "stop" step failed, and
\* a step that did not run has a dependency that did not complete.
FinalStatuses ==
  runStatus = "completed" =>
    \A s \in Steps :
      /\ status[s] \notin {"pending", "cancelled"}
      /\ status[s] = "error" => strategy[s] # "stop"
      /\ status[s] \in {"completed", "error"} <=> Unmet(s) = {}
      /\ calls[s] > 0 => Unmet(s) = {}

\* The steps Execute is past.
PassedSteps == {order[i] : i \in {j \in 1..Len(order) : j < idx}}

\* The run keeps the promise of DagRun.
Working == pc \in {"attempt", "lookup", "call", "sleep", "settle"}

Dag == INSTANCE DagRun WITH
         needs <- deps,
         active <- IF Working THEN {Step} ELSE {},
         completed <- {s \in Steps : status[s] = "completed"},
         failed <- {s \in Steps : status[s] \in {"error", "cancelled"}},
         givenUp <- {s \in PassedSteps : status[s] \notin {"completed", "error"}},
         open <- pc # "done"

\* Execute implements DagRun: a step is called for only when all its
\* dependencies have completed, and only once; it is skipped, or passed over
\* with the status "running", only for a dependency that did not complete; and
\* Execute comes to the end of its order only when each step has been one or
\* the other.
ImplementsDagRun == Dag!Spec

\* Execute returns, whatever fails and whoever cancels.
ExecuteReturns == <>(pc = "done")

Ready(s) == pc # "sort" /\ status[s] = "pending" /\ Unmet(s) = {}

\* docs/spec.md "DAG execution: deps-first, parallel independent", "parallel
\* executes concurrently": a step whose dependencies have all completed is
\* begun, however long the agent of another step takes, unless the run ends.
IndependentStepsStart ==
  \A s \in Steps : Ready(s) ~> (status[s] # "pending" \/ pc = "done")
=============================================================================
