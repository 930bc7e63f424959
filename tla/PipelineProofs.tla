---------------------------- MODULE PipelineProofs -----------------------------
(***************************************************************************)
(* TLAPS proofs about package pipeline: about Pipeline, for every finite   *)
(* set of steps, every dependency relation and every choice of strategies  *)
(* and retry budgets, and about Swarm, for every number of agents and      *)
(* every limit.  The two have no state in common.                          *)
(***************************************************************************)
EXTENDS Pipeline, Swarm, FiniteSetTheorems, TLAPS

All == Steps \cup Ghosts

Ordered(n) == {order[j] : j \in 1..n}

\* The steps after the sort leave its variables alone.
Running == 
  \/ SortDone \/ NextStep \/ DepsMet \/ DepsUnmet \/ AttemptsUsedUp \/ SeeCancelled
  \/ TryOnce \/ NotRegistered \/ Call \/ CallSucceeds \/ CallFails \/ Sleep \/ Settle \/ Cancel

LEMMA NextCases == Next <=> SortStep \/ Running
BY DEF Next, Execute, ExecuteItself, Running

LEMMA RunningKeepsSorting ==
  Running \/ UNCHANGED vars => UNCHANGED <<deps, strategy, retries, waiting, queue, order>>
BY DEF Running, SortDone, NextStep, DepsMet, DepsUnmet, AttemptsUsedUp, SeeCancelled, TryOnce,
       NotRegistered, Call, CallSucceeds, CallFails, Sleep, Settle, Cancel, input, sorting, vars

\* What Orderings promises: a sequence of members of S, none twice.
LEMMA OrderingsFact ==
  ASSUME NEW S, IsFiniteSet(S), NEW q \in Orderings(S)
  PROVE  /\ q \in Seq(S)
         /\ Len(q) = Cardinality(S)
         /\ \A i, j \in 1..Len(q) : q[i] = q[j] => i = j
<1>1. Cardinality(S) \in Nat
  BY FS_CardinalityType
<1>2. q \in [1..Cardinality(S) -> S]
  BY DEF Orderings
<1>3. q \in Seq(S) /\ Len(q) = Cardinality(S)
  BY <1>1, <1>2
<1>4. QED
  BY <1>3 DEF Orderings

-----------------------------------------------------------------------------
\* Kahn's algorithm: what is still waited for is what is not in the order yet,
\* the queue holds new steps that wait for nothing.
SortType ==
  /\ deps \in [Steps -> SUBSET All]
  /\ strategy \in [Steps -> Strategies]
  /\ retries \in [Steps -> Budgets]
  /\ waiting \in [Steps -> SUBSET All]
  /\ queue \in Seq(Steps)
  /\ order \in Seq(Steps)

SortInv ==
  /\ \A s \in Steps : waiting[s] = deps[s] \ Ordered(Len(order))
  /\ \A i \in 1..Len(queue) :
       /\ waiting[queue[i]] = {}
       /\ queue[i] \notin Ordered(Len(order))
       /\ \A j \in 1..Len(queue) : queue[i] = queue[j] => i = j
  /\ OrderIsTopological

LEMMA InitSort == Init => SortType /\ SortInv
<1> SUFFICES ASSUME Init PROVE SortType /\ SortInv
  OBVIOUS
<1> DEFINE Free == {s \in Steps : deps[s] = {}}
<1>1. IsFiniteSet(Free)
  BY FS_Subset, PipelineAssumption
<1>2. queue \in Orderings(Free)
  BY DEF Init
<1>3. queue \in Seq(Free) /\ \A i, j \in 1..Len(queue) : queue[i] = queue[j] => i = j
  BY <1>1, <1>2, OrderingsFact
<1>4. queue \in Seq(Steps)
  BY <1>3
<1>5. SortType
  BY <1>4 DEF Init, SortType, All
<1>6. order = <<>> /\ waiting = deps
  BY DEF Init
<1>7. Len(order) = 0 /\ Ordered(Len(order)) = {}
  BY <1>6 DEF Ordered
<1>8. \A i \in 1..Len(queue) : waiting[queue[i]] = {}
  BY <1>3, <1>6
<1>9. \A s \in Steps : waiting[s] = deps[s] \ Ordered(Len(order))
  BY <1>6, <1>7
<1>10. OrderIsTopological
  BY <1>7 DEF OrderIsTopological
<1>11. QED
  BY <1>3, <1>5, <1>7, <1>8, <1>9, <1>10 DEF SortInv

LEMMA SortStepKeepsSort ==
  ASSUME SortType, SortInv, SortStep
  PROVE  SortType' /\ SortInv'
<1> DEFINE node == Head(queue)
           New == NewlyReady(node)
<1>1. /\ queue # <<>>
      /\ order' = Append(order, node)
      /\ waiting' = [s \in Steps |-> waiting[s] \ {node}]
      /\ UNCHANGED <<deps, strategy, retries>>
  BY DEF SortStep, input
<1>2. PICK more \in Orderings(New) : queue' = Tail(queue) \o more
  BY DEF SortStep
<1>3. node = queue[1] /\ node \in Steps /\ 1 \in 1..Len(queue)
  BY <1>1 DEF SortType
<1>4. waiting[node] = {} /\ node \notin Ordered(Len(order))
  BY <1>3 DEF SortInv
<1>5. New \subseteq Steps /\ \A s \in New : waiting[s] = {node}
  BY DEF NewlyReady
<1>6. /\ more \in Seq(New)
      /\ \A i, j \in 1..Len(more) : more[i] = more[j] => i = j
  <2>1. IsFiniteSet(New)
    BY <1>5, FS_Subset, PipelineAssumption
  <2>2. QED
    BY <1>2, <2>1, OrderingsFact
<1>7. more \in Seq(Steps) /\ \A i \in 1..Len(more) : more[i] \in New
  BY <1>5, <1>6
<1>8. SortType'
  <2>1. queue' \in Seq(Steps)
    BY <1>1, <1>2, <1>7 DEF SortType
  <2>2. order' \in Seq(Steps)
    BY <1>1, <1>3 DEF SortType
  <2>3. waiting' \in [Steps -> SUBSET All]
    BY <1>1 DEF SortType
  <2>4. QED
    BY <1>1, <2>1, <2>2, <2>3 DEF SortType
<1>9. /\ Len(order') = Len(order) + 1 /\ Len(order) \in Nat
      /\ \A i \in 1..Len(order) : order'[i] = order[i]
      /\ order'[Len(order) + 1] = node
  BY <1>1, <1>3 DEF SortType
<1>10. Ordered(Len(order))' = Ordered(Len(order)) \cup {node}
  BY <1>9 DEF Ordered
<1>11. \A s \in Steps : waiting'[s] = deps'[s] \ Ordered(Len(order))'
  BY <1>1, <1>10 DEF SortInv, SortType
<1>12. OrderIsTopological'
  <2>1. deps[node] \subseteq Ordered(Len(order))
    BY <1>3, <1>4 DEF SortInv
  <2> SUFFICES ASSUME NEW i \in 1..Len(order')
               PROVE  /\ deps'[order'[i]] \subseteq {order'[j] : j \in 1..i-1}
                      /\ \A j \in 1..i-1 : order'[i] # order'[j]
    BY DEF OrderIsTopological
  <2>2. CASE i = Len(order) + 1
    <3>1. {order'[j] : j \in 1..i-1} = Ordered(Len(order))
      BY <1>9, <2>2 DEF Ordered
    <3>2. QED
      BY <1>1, <1>4, <1>9, <2>1, <2>2, <3>1 DEF Ordered
  <2>3. CASE i \in 1..Len(order)
    <3>1. {order'[j] : j \in 1..i-1} = {order[j] : j \in 1..i-1}
      BY <1>9, <2>3
    <3>2. /\ deps[order[i]] \subseteq {order[j] : j \in 1..i-1}
          /\ \A j \in 1..i-1 : order[i] # order[j]
      BY <2>3 DEF SortInv, OrderIsTopological
    <3>3. order'[i] = order[i] /\ \A j \in 1..i-1 : order'[j] = order[j]
      BY <1>9, <2>3
    <3>4. deps' = deps
      BY <1>1
    <3> HIDE <1>1, <1>9
    <3>5. QED
      BY <3>1, <3>2, <3>3, <3>4
  <2>4. QED
    BY <1>9, <2>2, <2>3
<1>13. ASSUME NEW i \in 1..Len(queue')
       PROVE  /\ waiting'[queue'[i]] = {}
              /\ queue'[i] \notin Ordered(Len(order))'
              /\ \A j \in 1..Len(queue') : queue'[i] = queue'[j] => i = j
  <2> DEFINE m == Len(queue) - 1
  <2>1. /\ m \in Nat /\ Len(queue') = m + Len(more) /\ Len(more) \in Nat
        /\ \A k \in 1..m : queue'[k] = queue[k + 1]
        /\ \A k \in m+1..m+Len(more) : queue'[k] = more[k - m]
    BY <1>1, <1>2, <1>6 DEF SortType
  <2>2. \A k \in 1..m : /\ queue[k + 1] \in Steps
                        /\ waiting[queue[k + 1]] = {}
                        /\ queue[k + 1] # node
                        /\ queue[k + 1] \notin Ordered(Len(order))
    BY <1>3, <2>1 DEF SortInv, SortType
  <2>3. \A k \in m+1..m+Len(more) : more[k - m] \in New
    BY <1>7, <2>1
  <2>4. \A s \in New : /\ s \in Steps /\ waiting[s] # {} /\ waiting[s] \ {node} = {}
                       /\ s # node
    BY <1>4, <1>5
  <2>5. \A s \in New : s \notin Ordered(Len(order))
    <3>1. ASSUME NEW k \in 1..Len(order) PROVE waiting[order[k]] = {}
      <4>1. order[k] \in Steps /\ deps[order[k]] \subseteq {order[j] : j \in 1..k-1}
        BY DEF SortInv, OrderIsTopological, SortType
      <4>2. {order[j] : j \in 1..k-1} \subseteq Ordered(Len(order))
        BY <1>9 DEF Ordered
      <4>3. QED
        BY <4>1, <4>2 DEF SortInv
    <3>2. QED
      BY <2>4, <3>1 DEF Ordered
  <2>6. CASE i \in 1..m
    <3>1. queue'[i] = queue[i + 1]
      BY <2>1, <2>6
    <3>2. ASSUME NEW j \in 1..Len(queue'), queue'[i] = queue'[j] PROVE i = j
      <4>1. CASE j \in 1..m
        BY <2>1, <2>6, <3>1, <3>2, <4>1 DEF SortInv
      <4>2. CASE j \in m+1..m+Len(more)
        BY ZenonT(60), <2>1, <2>2, <2>3, <2>4, <2>6, <3>1, <3>2, <4>2
      <4>3. QED
        BY <2>1, <4>1, <4>2
    <3>3. QED
      BY <1>1, <1>10, <2>2, <2>6, <3>1, <3>2
  <2>7. CASE i \in m+1..m+Len(more)
    <3>1. queue'[i] = more[i - m] /\ more[i - m] \in New
      BY <2>1, <2>3, <2>7
    <3>2. ASSUME NEW j \in 1..Len(queue'), queue'[i] = queue'[j] PROVE i = j
      <4>1. CASE j \in 1..m
        BY ZenonT(60), <2>1, <2>2, <2>4, <3>1, <3>2, <4>1
      <4>2. CASE j \in m+1..m+Len(more)
        <5>1. i - m \in 1..Len(more) /\ j - m \in 1..Len(more)
          BY <2>1, <2>7, <4>2
        <5>2. more[i - m] = more[j - m]
          BY <2>1, <3>1, <3>2, <4>2
        <5>3. i - m = j - m
          BY <1>6, <5>1, <5>2
        <5>4. QED
          BY <2>1, <2>7, <4>2, <5>3
      <4>3. QED
        BY <2>1, <4>1, <4>2
    <3>3. QED
      BY <1>1, <1>10, <2>4, <2>5, <3>1, <3>2
  <2>8. QED
    BY <2>1, <2>6, <2>7
<1>14. QED
  BY <1>8, <1>11, <1>12, <1>13 DEF SortInv

\* The sort's invariant holds in every reachable state.
THEOREM SortAlways == Spec => [](SortType /\ SortInv)
<1>1. SortType /\ SortInv /\ [Next]_vars => SortType' /\ SortInv'
  <2>1. SortType /\ SortInv /\ UNCHANGED <<deps, strategy, retries, waiting, queue, order>>
          => SortType' /\ SortInv'
    BY DEF SortType, SortInv, Ordered, OrderIsTopological
  <2>2. QED
    BY <2>1, NextCases, RunningKeepsSorting, SortStepKeepsSort
<1>2. QED
  BY <1>1, InitSort, PTL DEF Spec

\* topologicalSort never lists a step before one of its dependencies, nor twice.
THEOREM OrderIsTopologicalAlways == Spec => []OrderIsTopological
<1>1. SortInv => OrderIsTopological
  BY DEF SortInv
<1>2. QED
  BY <1>1, SortAlways, PTL

-----------------------------------------------------------------------------
\* The rest of the state: what the loop over the order keeps.
RunType ==
  /\ pc \in {"sort", "next", "deps", "attempt", "lookup", "call", "sleep", "settle", "done"}
  /\ idx \in 1..Len(order) + 1
  /\ attempt \in Nat
  /\ failing \in BOOLEAN
  /\ status \in [Steps -> {"pending", "running", "completed", "error", "skipped", "cancelled"}]
  /\ runStatus \in {"running", "completed", "error", "cancelled"}
  /\ cancelled \in BOOLEAN
  /\ calls \in [Steps -> Nat]
  /\ lateCalls \in Nat

Busy == pc = "deps" \/ Working

Untouched(s) == status[s] = "pending" /\ calls[s] = 0

\* Nothing has happened to the steps ahead; the step at hand is "running", and
\* is worked on only when its dependencies have completed.
PlaceInv ==
  /\ pc = "sort" => idx = 1 /\ \A s \in Steps : Untouched(s)
  /\ pc = "next" => \A j \in idx..Len(order) : Untouched(order[j])
  /\ Busy => /\ idx <= Len(order)
             /\ \A j \in idx+1..Len(order) : Untouched(order[j])
             /\ status[Step] = "running"
  /\ pc = "deps" => calls[Step] = 0
  /\ Working => Unmet(Step) = {}

\* The calls of the step at hand are the attempts made.
CallInv ==
  /\ pc \in {"attempt", "lookup", "call", "sleep"} /\ attempt > 0 => strategy[Step] = "retry"
  /\ pc = "attempt" => calls[Step] = attempt
  /\ pc = "lookup" => calls[Step] = attempt /\ attempt <= retries[Step]
  /\ pc \in {"call", "sleep"} => calls[Step] = attempt + 1 /\ attempt <= retries[Step]
  /\ pc = "sleep" => strategy[Step] = "retry"
  /\ AttemptsWithinBudget

LateInv == lateCalls = 0 \/ (lateCalls = 1 /\ cancelled /\ pc # "lookup")

IInv == SortType /\ SortInv /\ RunType /\ PlaceInv /\ CallInv /\ LateInv

LEMMA InitRun == Init => RunType /\ PlaceInv /\ CallInv /\ LateInv
<1> SUFFICES ASSUME Init PROVE RunType /\ PlaceInv /\ CallInv /\ LateInv
  OBVIOUS
<1>1. Len(order) = 0 /\ idx = 1 /\ pc = "sort" /\ lateCalls = 0
  BY DEF Init
<1>2. status = [s \in Steps |-> "pending"] /\ calls = [s \in Steps |-> 0]
  BY DEF Init
<1>3. RunType
  <2>1. attempt = 0 /\ failing = FALSE /\ runStatus = "running" /\ cancelled = FALSE
    BY DEF Init
  <2>2. idx \in 1..Len(order) + 1
    BY <1>1
  <2>3. QED
    BY <1>1, <1>2, <2>1, <2>2 DEF RunType
<1>4. PlaceInv
  BY <1>1, <1>2 DEF PlaceInv, Busy, Working, Untouched
<1>5. CallInv
  BY <1>1, <1>2 DEF CallInv, AttemptsWithinBudget
<1>6. QED
  BY <1>1, <1>3, <1>4, <1>5 DEF LateInv

LEMMA SortStepKeepsRun ==
  ASSUME IInv, SortStep
  PROVE  (RunType /\ PlaceInv /\ CallInv /\ LateInv)'
<1>1. Len(order') = Len(order) + 1 /\ Len(order) \in Nat
  <2>1. Head(queue) \in Steps /\ order' = Append(order, Head(queue))
    BY DEF SortStep, IInv, SortType
  <2>2. QED
    BY <2>1 DEF IInv, SortType
<1>2. /\ pc = "sort"
      /\ UNCHANGED <<deps, strategy, retries, pc, idx, attempt, failing, status, runStatus,
                     cancelled, calls, lateCalls>>
  BY DEF SortStep, input, loop, run, history
<1>3. RunType'
  BY <1>1, <1>2 DEF IInv, RunType
<1>4. PlaceInv'
  BY <1>2 DEF IInv, PlaceInv, Busy, Working, Untouched
<1>5. QED
  BY <1>2, <1>3, <1>4 DEF IInv, CallInv, LateInv, AttemptsWithinBudget

\* The step at hand is one of Steps, its dependencies are steps, and it is
\* listed nowhere else in the order.
LEMMA StepFact ==
  ASSUME IInv, idx <= Len(order)
  PROVE  /\ idx \in 1..Len(order)
         /\ Step \in Steps
         /\ deps[Step] \subseteq Steps
         /\ Step \notin deps[Step]
         /\ \A j \in 1..Len(order) : order[j] \in Steps /\ (order[j] = Step => j = idx)
<1>1. idx \in 1..Len(order) /\ Len(order) \in Nat
  BY DEF IInv, RunType, SortType
<1>2. \A j \in 1..Len(order) : order[j] \in Steps
  BY DEF IInv, SortType
<1>3. \A i \in 1..Len(order) : /\ deps[order[i]] \subseteq {order[j] : j \in 1..i-1}
                               /\ \A j \in 1..i-1 : order[i] # order[j]
  BY DEF IInv, SortInv, OrderIsTopological
<1>4. \A j \in 1..Len(order) : order[j] = order[idx] => j = idx
  <2> SUFFICES ASSUME NEW j \in 1..Len(order), order[j] = order[idx] PROVE j = idx
    OBVIOUS
  <2>1. ~(j < idx)
    BY <1>1, <1>3
  <2>2. ~(idx < j)
    BY <1>1, <1>3
  <2>3. QED
    BY <1>1, <2>1, <2>2
<1>5. \A d \in deps[order[idx]] : \E j \in 1..idx-1 : d = order[j]
  BY <1>1, <1>3
<1>6. deps[order[idx]] \subseteq Steps /\ order[idx] \notin deps[order[idx]]
  BY <1>1, <1>2, <1>4, <1>5
<1>7. QED
  BY <1>1, <1>2, <1>4, <1>6 DEF Step

RunInv == RunType /\ PlaceInv /\ CallInv /\ LateInv

\* Moving on from a settled step leaves the steps ahead as they were.
LEMMA StartingKeepsRun ==
  ASSUME IInv, SortDone \/ NextStep \/ DepsMet \/ DepsUnmet
  PROVE  RunInv'
<1>1. CASE SortDone
  <2>1. UNCHANGED <<deps, strategy, retries, order, idx, attempt, failing, status, cancelled,
                    calls, lateCalls>>
    BY <1>1 DEF SortDone, input, sorting, loop, history
  <2>2. /\ pc = "sort" /\ pc' \in {"next", "done"}
        /\ runStatus' \in {runStatus, "error"}
    BY <1>1 DEF SortDone, Goto
  <2>3. RunType'
    BY <2>1, <2>2 DEF IInv, RunType
  <2>4. PlaceInv'
    BY <2>1, <2>2 DEF IInv, PlaceInv, Busy, Working, Untouched, SortType
  <2>5. CallInv' /\ LateInv'
    BY <2>1, <2>2 DEF IInv, CallInv, LateInv, AttemptsWithinBudget
  <2>6. QED
    BY <2>3, <2>4, <2>5 DEF RunInv
<1>2. CASE NextStep
  <2>1. UNCHANGED <<deps, strategy, retries, order, idx, attempt, failing, cancelled,
                    calls, lateCalls>> /\ pc = "next"
    BY <1>2 DEF NextStep, input, sorting, loop, history
  <2>2. CASE idx <= Len(order)
    <3>1. /\ pc' = "deps" /\ runStatus' = runStatus
          /\ status' = [status EXCEPT ![Step] = "running"]
      BY <1>2, <2>2 DEF NextStep, Goto, SetStep
    <3>2. RunType'
      BY <2>1, <3>1 DEF IInv, RunType
    <3>3. Step' = Step
      BY <2>1 DEF Step
    <3>4. status'[Step] = "running"
      BY <2>2, <3>1, StepFact DEF IInv, RunType
    <3>5. \A j \in idx+1..Len(order) : order[j] # Step /\ Untouched(order[j])
      BY <2>1, <2>2, StepFact DEF IInv, PlaceInv
    <3>6. \A j \in idx+1..Len(order) : Untouched(order[j])'
      <4>1. \A j \in idx+1..Len(order) : order[j] \in Steps
        BY <2>2, StepFact
      <4>2. QED
        BY <2>1, <3>1, <3>5, <4>1 DEF Untouched, IInv, RunType
    <3>7. calls'[Step] = 0
      BY <2>1, <2>2, StepFact DEF IInv, PlaceInv, Untouched, Step
    <3>8. PlaceInv'
      BY <2>1, <2>2, <3>1, <3>3, <3>4, <3>6, <3>7 DEF PlaceInv, Busy, Working
    <3>9. CallInv' /\ LateInv'
      BY <2>1, <3>1 DEF IInv, CallInv, LateInv, AttemptsWithinBudget
    <3>10. QED
      BY <3>2, <3>8, <3>9 DEF RunInv
  <2>3. CASE ~(idx <= Len(order))
    <3>1. pc' = "done" /\ runStatus' = "completed" /\ status' = status
      BY <1>2, <2>3 DEF NextStep, Goto
    <3>2. QED
      BY <2>1, <3>1 DEF RunInv, IInv, RunType, PlaceInv, CallInv, LateInv, Busy, Working,
                        AttemptsWithinBudget
  <2>4. QED
    BY <2>2, <2>3
<1>3. CASE DepsMet
  <2>1. /\ UNCHANGED <<deps, strategy, retries, order, idx, status, runStatus, cancelled,
                       calls, lateCalls>>
        /\ pc = "deps" /\ pc' = "attempt" /\ attempt' = 0 /\ failing' = FALSE
    BY <1>3 DEF DepsMet, Goto, input, sorting, run, history
  <2>2. Unmet(Step) = {} /\ Step' = Step /\ Unmet(Step)' = Unmet(Step)
    BY <1>3, <2>1 DEF DepsMet, Step, Unmet
  <2>3. RunType'
    BY <2>1 DEF IInv, RunType
  <2>4. PlaceInv'
    BY <2>1, <2>2 DEF IInv, PlaceInv, Busy, Working, Untouched
  <2>5. CallInv' /\ LateInv'
    BY <2>1, <2>2 DEF IInv, CallInv, LateInv, PlaceInv, AttemptsWithinBudget
  <2>6. QED
    BY <2>3, <2>4, <2>5 DEF RunInv
<1>4. CASE DepsUnmet
  <2>1. /\ UNCHANGED <<deps, strategy, retries, order, attempt, failing, runStatus, cancelled,
                       calls, lateCalls>>
        /\ pc = "deps" /\ pc' = "next" /\ idx' = idx + 1
        /\ status' = status \/ status' = [status EXCEPT ![Step] = "skipped"]
    BY <1>4 DEF DepsUnmet, Goto, Advance, SetStep, input, sorting, loop, history
  <2>2. idx <= Len(order)
    BY <2>1 DEF IInv, PlaceInv, Busy
  <2>3. RunType'
    BY <2>1, <2>2, StepFact DEF IInv, RunType
  <2>4. \A j \in idx+1..Len(order) : order[j] # Step /\ order[j] \in Steps /\ Untouched(order[j])
    BY <2>1, <2>2, StepFact DEF IInv, PlaceInv, Busy
  <2>5. PlaceInv'
    BY <2>1, <2>4 DEF IInv, RunType, PlaceInv, Busy, Working, Untouched
  <2>6. CallInv' /\ LateInv'
    BY <2>1 DEF IInv, CallInv, LateInv, AttemptsWithinBudget
  <2>7. QED
    BY <2>3, <2>5, <2>6 DEF RunInv
<1>5. QED
  BY <1>1, <1>2, <1>3, <1>4

\* An attempt leaves the place alone; the calls are counted against the budget.
LEMMA AttemptKeepsRun ==
  ASSUME IInv, AttemptsUsedUp \/ TryOnce \/ NotRegistered \/ Call \/ CallSucceeds
                 \/ CallFails \/ Sleep \/ Cancel
  PROVE  RunInv'
<1>1. UNCHANGED <<deps, strategy, retries, order, idx, status, runStatus>>
  BY DEF AttemptsUsedUp, TryOnce, NotRegistered, Call, CallSucceeds, CallFails, Sleep, Cancel,
         input, sorting, run
<1>2. Step' = Step /\ Unmet(Step)' = Unmet(Step)
  BY <1>1 DEF Step, Unmet
<1>3. \/ Cancel
      \/ /\ Working /\ Working'
         /\ idx <= Len(order) /\ Step \in Steps
         /\ cancelled' = cancelled
  BY StepFact DEF AttemptsUsedUp, TryOnce, NotRegistered, Call, CallSucceeds, CallFails, Sleep,
         Goto, Working, IInv, PlaceInv, Busy
<1>4. CASE Cancel
  <2>1. UNCHANGED <<pc, attempt, failing, calls, lateCalls>> /\ cancelled' = TRUE /\ ~cancelled
    BY <1>4 DEF Cancel, loop, history
  <2>2. RunType'
    BY <1>1, <2>1 DEF IInv, RunType
  <2>3. PlaceInv'
    BY <1>1, <1>2, <2>1 DEF IInv, PlaceInv, Busy, Working, Untouched
  <2>4. CallInv' /\ LateInv'
    BY <1>1, <1>2, <2>1 DEF IInv, CallInv, LateInv, AttemptsWithinBudget
  <2>5. QED
    BY <2>2, <2>3, <2>4 DEF RunInv
<1>5. CASE ~Cancel
  <2>1. /\ Working /\ Working' /\ idx <= Len(order) /\ Step \in Steps
        /\ cancelled' = cancelled
    BY <1>3, <1>5
  <2>2. ASSUME calls' = calls PROVE PlaceInv'
    BY <1>1, <1>2, <2>1, <2>2 DEF IInv, PlaceInv, Busy, Working, Untouched
  <2>3. CASE AttemptsUsedUp
    <3>1. pc' = "settle" /\ UNCHANGED <<attempt, failing, calls, lateCalls>>
      BY <2>3 DEF AttemptsUsedUp, Goto, loop, history
    <3>2. QED
      BY <1>1, <2>1, <2>2, <3>1 DEF RunInv, IInv, RunType, CallInv, LateInv, AttemptsWithinBudget
  <2>4. CASE TryOnce
    <3>1. /\ pc = "attempt" /\ pc' = "lookup" /\ attempt <= retries[Step] /\ ~cancelled
          /\ UNCHANGED <<attempt, failing, calls, lateCalls>>
      BY <2>4 DEF TryOnce, Goto, ContextDone, loop, history
    <3>2. QED
      BY <1>1, <1>2, <2>1, <2>2, <3>1 DEF RunInv, IInv, RunType, CallInv, LateInv,
                                          AttemptsWithinBudget
  <2>5. CASE NotRegistered
    <3>1. pc' = "settle" /\ failing' = TRUE /\ UNCHANGED <<attempt, calls, lateCalls>>
      BY <2>5 DEF NotRegistered, Goto, history
    <3>2. QED
      BY <1>1, <2>1, <2>2, <3>1 DEF RunInv, IInv, RunType, CallInv, LateInv, AttemptsWithinBudget
  <2>6. CASE CallSucceeds
    <3>1. pc' = "settle" /\ failing' = FALSE /\ UNCHANGED <<attempt, calls, lateCalls>>
      BY <2>6 DEF CallSucceeds, Goto, history
    <3>2. QED
      BY <1>1, <2>1, <2>2, <3>1 DEF RunInv, IInv, RunType, CallInv, LateInv, AttemptsWithinBudget
  <2>7. CASE CallFails
    <3>1. /\ pc = "call" /\ failing' = TRUE /\ UNCHANGED <<attempt, calls, lateCalls>>
          /\ \/ pc' = "settle"
             \/ pc' = "sleep" /\ strategy[Step] = "retry"
      BY <2>7 DEF CallFails, Goto, RetriesOnError, history
    <3>2. QED
      BY <1>1, <1>2, <2>1, <2>2, <3>1 DEF RunInv, IInv, RunType, CallInv, LateInv,
                                          AttemptsWithinBudget
  <2>8. CASE Sleep
    <3>1. /\ pc = "sleep" /\ pc' = "attempt" /\ attempt' = attempt + 1
          /\ UNCHANGED <<failing, calls, lateCalls>>
      BY <2>8 DEF Sleep, Goto, history
    <3>2. QED
      BY <1>1, <1>2, <2>1, <2>2, <3>1 DEF RunInv, IInv, RunType, CallInv, LateInv,
                                          AttemptsWithinBudget
  <2>9. CASE Call
    <3>1. /\ pc = "lookup" /\ pc' = "call" /\ UNCHANGED <<attempt, failing>>
          /\ calls' = [calls EXCEPT ![Step] = @ + 1]
          /\ lateCalls' = IF cancelled THEN lateCalls + 1 ELSE lateCalls
      BY <2>9 DEF Call, Goto, loop
    <3>2. /\ calls[Step] = attempt /\ attempt \in Nat /\ retries[Step] \in Int
          /\ attempt <= retries[Step] /\ (attempt > 0 => strategy[Step] = "retry")
      BY <2>1, <3>1, PipelineAssumption DEF IInv, CallInv, RunType, SortType
    <3>3. calls' \in [Steps -> Nat] /\ calls'[Step] = attempt + 1
      BY <2>1, <3>1, <3>2 DEF IInv, RunType
    <3>4. \A s \in Steps : s # Step => calls'[s] = calls[s]
      BY <3>1 DEF IInv, RunType
    <3>5. RunType'
      <4>1. lateCalls' \in Nat
        BY <3>1 DEF IInv, RunType
      <4>2. pc' = "call" /\ cancelled' = cancelled /\ UNCHANGED <<order, idx, status, runStatus>>
        BY <1>1, <2>1, <3>1
      <4>3. QED
        BY <3>1, <3>3, <4>1, <4>2 DEF IInv, RunType
    <3>6. \A j \in idx+1..Len(order) : order[j] \in Steps /\ order[j] # Step /\ Untouched(order[j])
      BY <2>1, StepFact DEF IInv, PlaceInv, Busy
    <3>7. PlaceInv'
      <4>1. \A j \in idx+1..Len(order) : Untouched(order[j])'
        BY <1>1, <3>4, <3>6 DEF Untouched
      <4>2. /\ status[Step] = "running" /\ Unmet(Step) = {}
        BY <2>1 DEF IInv, PlaceInv, Busy
      <4>3. Busy' /\ idx' <= Len(order') /\ status'[Step'] = "running"
        BY <1>1, <1>2, <2>1, <4>2 DEF Busy
      <4>4. QED
        BY <1>1, <1>2, <3>1, <4>1, <4>2, <4>3 DEF PlaceInv
    <3>8. AttemptsWithinBudget'
      <4>1. ASSUME NEW s \in Steps, s # Step, calls'[s] > 0
            PROVE  calls'[s] <= (IF strategy'[s] = "retry" THEN retries'[s] ELSE 0) + 1
        BY <1>1, <3>4, <4>1 DEF IInv, CallInv, AttemptsWithinBudget
      <4>2. calls'[Step] <= (IF strategy'[Step] = "retry" THEN retries'[Step] ELSE 0) + 1
        BY <1>1, <3>2, <3>3
      <4>3. QED
        BY <1>1, <4>1, <4>2 DEF AttemptsWithinBudget
    <3>9. CallInv'
      BY <1>1, <1>2, <3>1, <3>2, <3>3, <3>8 DEF CallInv
    <3>10. LateInv'
      BY <2>1, <3>1 DEF IInv, LateInv
    <3>11. QED
      BY <3>5, <3>7, <3>9, <3>10 DEF RunInv
  <2>10. QED
    BY <1>5, <2>3, <2>4, <2>5, <2>6, <2>7, <2>8, <2>9
<1>6. QED
  BY <1>4, <1>5

LEMMA EndingKeepsRun ==
  ASSUME IInv, SeeCancelled \/ Settle
  PROVE  RunInv'
<1>1. UNCHANGED <<deps, strategy, retries, order, attempt, failing, cancelled, calls, lateCalls>>
  BY DEF SeeCancelled, Settle, input, sorting, loop, history
<1>2. Working /\ idx <= Len(order)
  BY DEF SeeCancelled, Settle, Working, IInv, PlaceInv, Busy
<1>3. \A j \in idx+1..Len(order) : order[j] # Step /\ order[j] \in Steps /\ Untouched(order[j])
  BY <1>2, StepFact DEF IInv, PlaceInv, Busy
<1>4. \/ pc' = "done" /\ idx' = idx
      \/ pc' = "next" /\ idx' = idx + 1
  BY DEF SeeCancelled, Settle, Goto, Advance
<1>5. \E v \in {"error", "completed", "cancelled"} : status' = [status EXCEPT ![Step] = v]
  BY DEF SeeCancelled, Settle, SetStep
<1>6. runStatus' \in {runStatus, "error", "cancelled"}
  BY DEF SeeCancelled, Settle
<1>7. RunType'
  BY <1>1, <1>2, <1>4, <1>5, <1>6, StepFact DEF IInv, RunType
<1>8. PlaceInv'
  <2>1. \A j \in idx+1..Len(order) : Untouched(order[j])'
    BY <1>1, <1>3, <1>5 DEF Untouched, IInv, RunType
  <2>2. QED
    BY <1>1, <1>4, <2>1 DEF PlaceInv, Busy, Working
<1>9. CallInv' /\ LateInv'
  BY <1>1, <1>4 DEF IInv, CallInv, LateInv, AttemptsWithinBudget
<1>10. QED
  BY <1>7, <1>8, <1>9 DEF RunInv

\* The inductive invariant holds in every reachable state.
THEOREM InvAlways == Spec => []IInv
<1>1. Init => IInv
  BY InitSort, InitRun DEF IInv
<1>2. IInv /\ [Next]_vars => IInv'
  <2> SUFFICES ASSUME IInv, [Next]_vars PROVE IInv'
    OBVIOUS
  <2>1. CASE SortStep
    BY <2>1, SortStepKeepsSort, SortStepKeepsRun DEF IInv
  <2>2. CASE Running
    <3>1. RunInv'
      BY <2>2, StartingKeepsRun, AttemptKeepsRun, EndingKeepsRun DEF Running
    <3>2. SortType' /\ SortInv'
      BY <2>2, RunningKeepsSorting DEF IInv, SortType, SortInv, Ordered, OrderIsTopological
    <3>3. QED
      BY <3>1, <3>2 DEF RunInv, IInv
  <2>3. CASE UNCHANGED vars
    BY <2>3 DEF vars, IInv, SortType, SortInv, Ordered, OrderIsTopological, RunType, PlaceInv,
                CallInv, LateInv, Busy, Working, Untouched, Unmet, Step, AttemptsWithinBudget
  <2>4. QED
    BY <2>1, <2>2, <2>3, NextCases
<1>3. QED
  BY <1>1, <1>2, PTL DEF Spec

\* The state is well-typed in every reachable state.
THEOREM TypeCorrect == Spec => []TypeOK
<1>1. IInv => TypeOK
  BY DEF IInv, SortType, RunType, TypeOK, All
<1>2. QED
  BY <1>1, InvAlways, PTL

\* A step's agent is called at most MaxRetries + 1 times, once without "retry".
THEOREM AttemptsWithinBudgetAlways == Spec => []AttemptsWithinBudget
<1>1. IInv => AttemptsWithinBudget
  BY DEF IInv, CallInv
<1>2. QED
  BY <1>1, InvAlways, PTL

\* At most one agent call begins after the caller's context is done.
THEOREM AtMostOneLateCallAlways == Spec => []AtMostOneLateCall
<1>1. IInv => AtMostOneLateCall
  BY DEF IInv, LateInv, AtMostOneLateCall
<1>2. QED
  BY <1>1, InvAlways, PTL

-----------------------------------------------------------------------------
\* What is left behind: every step already passed has its final status.
Passed(s) ==
  /\ status[s] \notin {"pending", "cancelled"}
  /\ status[s] = "error" => strategy[s] # "stop"
  /\ status[s] \in {"completed", "error"} <=> Unmet(s) = {}
  /\ calls[s] > 0 => Unmet(s) = {}

Underway == pc = "next" \/ Busy

PastInv ==
  /\ pc = "sort" => runStatus = "running"
  /\ Underway => /\ runStatus = "running"
                 /\ Len(order) = Cardinality(Steps)
                 /\ \A j \in 1..idx-1 : Passed(order[j])
  /\ runStatus = "completed" => /\ Len(order) = Cardinality(Steps)
                                /\ \A j \in 1..Len(order) : Passed(order[j])

\* What a step has passed depends on itself and its dependencies alone, which
\* are all before it in the order.
LEMMA PassedStays ==
  ASSUME IInv, idx <= Len(order), NEW k \in 1..idx-1, Passed(order[k]),
         UNCHANGED <<deps, strategy, order>>,
         \A j \in 1..idx-1 : /\ status'[order[j]] = status[order[j]]
                             /\ calls'[order[j]] = calls[order[j]]
  PROVE  Passed(order[k])'
<1>1. k \in 1..Len(order) /\ idx \in 1..Len(order) /\ Len(order) \in Nat
  BY StepFact DEF IInv, SortType
<1>2. deps[order[k]] \subseteq {order[j] : j \in 1..k-1}
  BY <1>1 DEF IInv, SortInv, OrderIsTopological
<1>3. \A d \in deps[order[k]] : status'[d] = status[d]
  <2> SUFFICES ASSUME NEW d \in deps[order[k]] PROVE status'[d] = status[d]
    OBVIOUS
  <2>1. PICK j \in 1..k-1 : d = order[j]
    BY <1>2
  <2>2. j \in 1..idx-1
    BY <1>1
  <2>3. QED
    BY <2>1, <2>2
<1>4. Unmet(order[k])' = Unmet(order[k])
  BY <1>3 DEF Unmet
<1>5. QED
  BY <1>4 DEF Passed

\* Same variables, same verdicts.
LEMMA SamePast ==
  ASSUME PastInv, UNCHANGED <<deps, strategy, order, idx, status, runStatus, calls>>,
         pc' = pc
  PROVE  PastInv'
BY DEF PastInv, Underway, Busy, Working, Passed, Unmet

LEMMA InitPast == Init => PastInv
BY DEF Init, PastInv, Underway, Busy, Working

LEMMA StepKeepsPast == IInv /\ PastInv /\ [Next]_vars => PastInv'
<1> SUFFICES ASSUME IInv, PastInv, Next PROVE PastInv'
  BY SamePast DEF vars
<1>1. CASE SortStep
  BY <1>1 DEF SortStep, PastInv, Underway, Busy, Working, run
<1>2. CASE Cancel
  BY <1>2, SamePast DEF Cancel, input, sorting, run, history
<1>3. CASE SortDone
  <2>1. pc = "sort" /\ idx = 1 /\ runStatus = "running" /\ UNCHANGED <<order, idx>>
    BY <1>3 DEF SortDone, sorting, IInv, PlaceInv, PastInv
  <2>2. \/ pc' = "next" /\ runStatus' = "running" /\ Len(order) = Cardinality(Steps)
        \/ pc' = "done" /\ runStatus' = "error"
    BY <1>3, <2>1 DEF SortDone, Goto
  <2>3. QED
    BY <2>1, <2>2 DEF PastInv, Underway, Busy, Working
<1>4. CASE NextStep
  <2>1. pc = "next" /\ UNCHANGED <<deps, strategy, order, idx, calls>>
    BY <1>4 DEF NextStep, input, sorting, history
  <2>2. CASE idx <= Len(order)
    <3>1. /\ pc' = "deps" /\ runStatus' = runStatus
          /\ status' = [status EXCEPT ![Step] = "running"]
      BY <1>4, <2>2 DEF NextStep, Goto, SetStep
    <3>2. \A j \in 1..idx-1 : order[j] \in Steps /\ order[j] # Step
      BY <2>2, StepFact DEF IInv, SortType
    <3>3. \A j \in 1..idx-1 : status'[order[j]] = status[order[j]]
      BY <3>1, <3>2 DEF IInv, RunType
    <3>4. \A j \in 1..idx-1 : Passed(order[j])'
      BY <2>1, <2>2, <3>3, PassedStays DEF PastInv, Underway
    <3>5. QED
      BY <2>1, <3>1, <3>4 DEF PastInv, Underway, Busy, Working
  <2>3. CASE ~(idx <= Len(order))
    <3>1. pc' = "done" /\ status' = status
      BY <1>4, <2>3 DEF NextStep, Goto
    <3>2. Len(order) = Cardinality(Steps) /\ \A j \in 1..Len(order) : Passed(order[j])
      BY <2>1, <2>3 DEF PastInv, Underway, IInv, RunType, SortType
    <3>3. QED
      BY <2>1, <3>1, <3>2 DEF PastInv, Underway, Busy, Working, Passed, Unmet
  <2>4. QED
    BY <2>2, <2>3
<1>5. CASE \/ DepsMet \/ DepsUnmet \/ AttemptsUsedUp \/ SeeCancelled \/ TryOnce \/ NotRegistered
           \/ Call \/ CallSucceeds \/ CallFails \/ Sleep \/ Settle
  <2>1. Busy /\ idx <= Len(order) /\ UNCHANGED <<deps, strategy, order>>
    BY <1>5 DEF DepsMet, DepsUnmet, AttemptsUsedUp, SeeCancelled, TryOnce, NotRegistered, Call,
                CallSucceeds, CallFails, Sleep, Settle, Busy, Working, input, sorting,
                IInv, PlaceInv
  <2>2. /\ status' = status \/ \E v : status' = [status EXCEPT ![Step] = v]
        /\ calls' = calls \/ calls' = [calls EXCEPT ![Step] = @ + 1]
    BY <1>5 DEF DepsMet, DepsUnmet, AttemptsUsedUp, SeeCancelled, TryOnce, NotRegistered, Call,
                CallSucceeds, CallFails, Sleep, Settle, SetStep, run, history
  <2>3. Step \in Steps /\ \A j \in 1..idx-1 : order[j] \in Steps /\ order[j] # Step
    BY <2>1, StepFact DEF IInv, SortType
  <2>4. \A j \in 1..idx-1 : status'[order[j]] = status[order[j]] /\ calls'[order[j]] = calls[order[j]]
    BY <2>2, <2>3 DEF IInv, RunType
  <2>5. \A j \in 1..idx-1 : Passed(order[j])'
    BY <2>1, <2>4, PassedStays DEF PastInv, Underway
  <2>6. runStatus = "running" /\ Len(order) = Cardinality(Steps)
    BY <2>1 DEF PastInv, Underway
  <2>7. PICK k \in 1..Len(order) : k = idx /\ Step = order[k]
    BY <2>1, StepFact DEF Step
  <2>8. ASSUME pc' # "sort", idx' = idx, runStatus' = runStatus PROVE PastInv'
    <3>1. \A j \in 1..idx'-1 : Passed(order[j])'
      BY <2>5, <2>8
    <3>2. QED
      BY <2>1, <2>6, <2>8, <3>1 DEF PastInv
  <2>9. ASSUME pc' = "next", idx' = idx + 1, runStatus' = runStatus, Passed(order[k])'
        PROVE  PastInv'
    <3>1. \A j \in 1..idx'-1 : Passed(order[j])'
      BY <2>5, <2>7, <2>9
    <3>2. QED
      BY <2>1, <2>6, <2>9, <3>1 DEF PastInv
  <2>10. CASE DepsUnmet
    <3>1. /\ pc = "deps" /\ pc' = "next" /\ idx' = idx + 1 /\ UNCHANGED <<runStatus, calls>>
          /\ Unmet(Step) # {}
          /\ status' = status \/ status' = [status EXCEPT ![Step] = "skipped"]
      BY <2>10 DEF DepsUnmet, Goto, Advance, SetStep, history
    <3>2. status[Step] = "running" /\ calls[Step] = 0
      BY <3>1 DEF IInv, PlaceInv, Busy
    <3>3. status'[Step] \in {"running", "skipped"} /\ calls'[Step] = 0
      BY <2>3, <3>1, <3>2 DEF IInv, RunType
    <3>4. {d \in deps[Step] : status'[d] # "completed"} # {}
      <4>1. \A d \in deps[Step] : status[d] # "completed" => status'[d] # "completed"
        BY <2>1, <2>3, <3>1, StepFact DEF IInv, RunType
      <4>2. QED
        BY <3>1, <4>1 DEF Unmet
    <3>5. Passed(order[k])'
      BY <2>1, <2>7, <3>3, <3>4 DEF Passed, Unmet
    <3>6. QED
      BY <2>9, <3>1, <3>5
  <2>11. CASE Settle
    <3>1. /\ status' = [status EXCEPT ![Step] = IF failing THEN "error" ELSE "completed"]
          /\ calls' = calls /\ Unmet(Step) = {}
          /\ \/ pc' = "done" /\ runStatus' = "error"
             \/ /\ pc' = "next" /\ idx' = idx + 1 /\ runStatus' = runStatus
                /\ failing => strategy[Step] # "stop"
      BY <2>11 DEF Settle, Goto, Advance, SetStep, StopsRun, history, IInv, PlaceInv, Working
    <3>2. CASE pc' = "done" /\ runStatus' = "error"
      BY <3>2 DEF PastInv, Underway, Busy, Working
    <3>3. CASE pc' = "next" /\ idx' = idx + 1 /\ runStatus' = runStatus /\ (failing => strategy[Step] # "stop")
      <4>1. status'[Step] = (IF failing THEN "error" ELSE "completed")
        BY <2>3, <3>1 DEF IInv, RunType
      <4>2. {d \in deps[Step] : status'[d] # "completed"} = {}
        <5>1. \A d \in deps[Step] : d \in Steps /\ d # Step /\ status[d] = "completed"
          BY <2>1, <3>1, StepFact DEF Unmet
        <5>2. QED
          BY <3>1, <5>1 DEF IInv, RunType
      <4>3. Passed(order[k])'
        BY <2>1, <2>7, <3>3, <4>1, <4>2 DEF Passed, Unmet
      <4>4. QED
        BY <2>9, <3>3, <4>3
    <3>4. QED
      BY <3>1, <3>2, <3>3
  <2>12. CASE SeeCancelled
    BY <2>12 DEF SeeCancelled, Goto, PastInv, Underway, Busy, Working
  <2>13. CASE \/ DepsMet \/ AttemptsUsedUp \/ TryOnce \/ NotRegistered
              \/ Call \/ CallSucceeds \/ CallFails \/ Sleep
    <3>1. pc' # "sort" /\ idx' = idx /\ runStatus' = runStatus
      BY <2>13 DEF DepsMet, AttemptsUsedUp, TryOnce, NotRegistered, Call, CallSucceeds,
                   CallFails, Sleep, Goto, run
    <3>2. QED
      BY <2>8, <3>1
  <2>14. QED
    BY <1>5, <2>10, <2>11, <2>12, <2>13
<1>6. QED
  BY <1>1, <1>2, <1>3, <1>4, <1>5 DEF Next, Execute, ExecuteItself

\* An order as long as the pipeline lists every step.
LEMMA OrderCoversSteps ==
  ASSUME IInv, Len(order) = Cardinality(Steps)
  PROVE  \A s \in Steps : \E j \in 1..Len(order) : s = order[j]
<1>1. order \in [1..Len(order) -> Steps] /\ Len(order) \in Nat
  BY DEF IInv, SortType
<1>2. \A i, j \in 1..Len(order) : order[i] = order[j] => i = j
  BY <1>1 DEF IInv, SortInv, OrderIsTopological
<1>3. order \in Injection(1..Len(order), Steps)
  BY <1>1, <1>2 DEF Injection, IsInjective
<1>4. Cardinality(1..Len(order)) = Len(order)
  BY <1>1, FS_Interval
<1>5. order \in Surjection(1..Len(order), Steps)
  BY <1>3, <1>4, FS_Injection, PipelineAssumption
<1>6. QED
  BY <1>5 DEF Surjection

\* What the final statuses of a completed run mean: no "stop" step failed, and
\* a step that did not run has a dependency that did not complete.
THEOREM FinalStatusesAlways == Spec => []FinalStatuses
<1>1. Init => PastInv
  BY InitPast
<1>2. IInv /\ PastInv => FinalStatuses
  <2> SUFFICES ASSUME IInv, PastInv, runStatus = "completed", NEW s \in Steps
               PROVE  Passed(s)
    BY DEF FinalStatuses, Passed
  <2>1. PICK j \in 1..Len(order) : s = order[j]
    BY OrderCoversSteps DEF PastInv
  <2>2. QED
    BY <2>1 DEF PastInv
<1>3. QED
  BY <1>1, <1>2, InvAlways, StepKeepsPast, PTL DEF Spec

-----------------------------------------------------------------------------
\* The refinement: DagRun's variables, as ImplementsDagRun maps them.
Active == IF Working THEN {Step} ELSE {}
Completed == {s \in Steps : status[s] = "completed"}
Failed == {s \in Steps : status[s] \in {"error", "cancelled"}}
GivenUp == {s \in PassedSteps : status[s] \notin {"completed", "error"}}
Open == pc # "done"

LEMMA DagOver == Dag!Over = Completed \cup Failed \cup GivenUp
BY DEF Dag!Over, Completed, Failed, GivenUp

LEMMA InitImplements == Init => Dag!Init
<1> SUFFICES ASSUME Init PROVE Dag!Init
  OBVIOUS
<1>1. status = [s \in Steps |-> "pending"] /\ pc = "sort" /\ order = <<>>
  BY DEF Init
<1>2. deps \in [Steps -> SUBSET (Steps \cup Ghosts)]
  BY DEF Init
<1>3. PassedSteps = {}
  BY <1>1 DEF PassedSteps
<1>4. QED
  BY <1>1, <1>2, <1>3 DEF Dag!Init, Working

\* The step at hand is not among those Execute is past; it joins them, and
\* nobody else does, when idx goes on.
LEMMA PassedStepsFact ==
  ASSUME IInv, idx <= Len(order), order' = order
  PROVE  /\ Step \notin PassedSteps
         /\ PassedSteps \subseteq Steps
         /\ deps[Step] \subseteq PassedSteps
         /\ idx' = idx => PassedSteps' = PassedSteps
         /\ idx' = idx + 1 => PassedSteps' = PassedSteps \cup {Step}
<1>1. idx \in 1..Len(order) /\ Len(order) \in Nat /\ Step = order[idx]
  BY StepFact DEF IInv, SortType, Step
<1>2. \A j \in 1..Len(order) : order[j] \in Steps /\ (order[j] = Step => j = idx)
  BY StepFact
<1>3. PassedSteps = {order[j] : j \in 1..idx-1}
  BY <1>1 DEF PassedSteps
<1>4. Step \notin PassedSteps /\ PassedSteps \subseteq Steps
  BY <1>1, <1>2, <1>3
<1>5. deps[Step] \subseteq PassedSteps
  BY <1>1, <1>3 DEF IInv, SortInv, OrderIsTopological
<1>6. ASSUME idx' = idx PROVE PassedSteps' = PassedSteps
  BY <1>6 DEF PassedSteps
<1>7. ASSUME idx' = idx + 1 PROVE PassedSteps' = PassedSteps \cup {Step}
  <2>1. PassedSteps' = {order[j] : j \in 1..idx}
    BY <1>1, <1>7 DEF PassedSteps
  <2>2. \A j : j \in 1..idx <=> j \in 1..idx-1 \/ j = idx
    BY <1>1
  <2>3. QED
    BY <1>1, <1>3, <2>1, <2>2
<1>8. QED
  BY <1>4, <1>5, <1>6, <1>7

\* A change of the status of the step at hand alone, while idx stays.
LEMMA StatusOfStep ==
  ASSUME IInv, idx <= Len(order), UNCHANGED <<order, idx>>,
         NEW v, status' = [status EXCEPT ![Step] = v]
  PROVE  GivenUp' = GivenUp
<1>1. Step \notin PassedSteps /\ PassedSteps \subseteq Steps /\ PassedSteps' = PassedSteps
  BY PassedStepsFact
<1>2. status \in [Steps -> {"pending", "running", "completed", "error", "skipped", "cancelled"}]
  BY DEF IInv, RunType
<1>3. \A s \in PassedSteps : status'[s] = status[s]
  BY <1>1, <1>2
<1>4. QED
  BY <1>1, <1>3 DEF GivenUp

LEMMA StepImplements == IInv /\ PastInv /\ [Next]_vars => [Dag!Next]_Dag!dagVars
<1> SUFFICES ASSUME IInv, PastInv, [Next]_vars PROVE [Dag!Next]_Dag!dagVars
  OBVIOUS
<1> DEFINE Stutter == UNCHANGED <<deps, Active, Completed, Failed, GivenUp, Open>>
<1>1. ASSUME Stutter PROVE [Dag!Next]_Dag!dagVars
  BY <1>1 DEF Dag!dagVars, Active, Completed, Failed, GivenUp, Open
<1>2. CASE Cancel \/ UNCHANGED vars
  <2>1. UNCHANGED <<deps, status, order, idx, pc>>
    BY <1>2 DEF Cancel, vars, input, sorting, run
  <2>2. Active' = Active /\ PassedSteps' = PassedSteps
    BY <2>1 DEF Active, Working, Step, PassedSteps
  <2>3. QED
    BY <1>1, <2>1, <2>2 DEF Completed, Failed, GivenUp, Open
<1>3. CASE SortStep
  <2>1. pc = "sort" /\ idx = 1 /\ UNCHANGED <<deps, status, idx, pc>>
    BY <1>3 DEF SortStep, input, run, IInv, PlaceInv
  <2>2. Active = {} /\ Active' = {}
    BY <2>1 DEF Active, Working
  <2>3. PassedSteps = {} /\ PassedSteps' = {}
    BY <2>1 DEF PassedSteps
  <2>4. QED
    BY <1>1, <2>1, <2>2, <2>3 DEF Completed, Failed, GivenUp, Open
<1>4. CASE SortDone
  <2>1. /\ UNCHANGED <<deps, status, order, idx>> /\ pc = "sort" /\ pc' \in {"next", "done"}
        /\ idx = 1 /\ \A s \in Steps : status[s] = "pending"
    BY <1>4 DEF SortDone, Goto, input, sorting, IInv, PlaceInv, Untouched
  <2>2. /\ Active = {} /\ Active' = {} /\ Completed' = Completed /\ Failed' = Failed
        /\ GivenUp' = GivenUp
    BY <2>1 DEF Active, Working, Completed, Failed, GivenUp, PassedSteps
  <2>3. CASE pc' = "next"
    BY <1>1, <2>1, <2>2, <2>3 DEF Open
  <2>4. CASE pc' = "done"
    <3>1. Completed \cup Failed \cup GivenUp = {}
      BY <2>1 DEF Completed, Failed, GivenUp, PassedSteps
    <3>2. Dag!Over = {}
      BY <3>1, DagOver
    <3>3. QED
      BY <2>1, <2>2, <2>4, <3>2 DEF Dag!Next, Dag!Return, Active, Completed, Failed, GivenUp
  <2>5. QED
    BY <2>1, <2>3, <2>4
<1>5. CASE NextStep
  <2>1. pc = "next" /\ UNCHANGED <<deps, order, idx>>
    BY <1>5 DEF NextStep, input, sorting
  <2>2. CASE idx <= Len(order)
    <3>1. pc' = "deps" /\ status' = [status EXCEPT ![Step] = "running"]
      BY <1>5, <2>2 DEF NextStep, Goto, SetStep
    <3>2. Step \in Steps /\ status[Step] = "pending"
      BY <2>1, <2>2, StepFact DEF IInv, PlaceInv, Untouched, Step
    <3>3. Completed' = Completed /\ Failed' = Failed
      BY <3>1, <3>2 DEF Completed, Failed, IInv, RunType
    <3>4. GivenUp' = GivenUp
      BY <2>1, <2>2, <3>1, StatusOfStep
    <3>5. QED
      BY <1>1, <2>1, <3>1, <3>3, <3>4 DEF Active, Working, Open
  <2>3. CASE ~(idx <= Len(order))
    <3>1. pc' = "done" /\ status' = status
      BY <1>5, <2>3 DEF NextStep, Goto
    <3>2. /\ Active = {} /\ Active' = {} /\ Completed' = Completed /\ Failed' = Failed
          /\ GivenUp' = GivenUp
      BY <2>1, <3>1 DEF Active, Working, Completed, Failed, GivenUp, PassedSteps
    <3>3. Completed \cup Failed \cup GivenUp = Steps
      <4>1. Len(order) = Cardinality(Steps)
        BY <2>1 DEF PastInv, Underway
      <4>2. \A s \in Steps : \E j \in 1..Len(order) : s = order[j]
        BY <4>1, OrderCoversSteps
      <4>3. \A j \in 1..Len(order) : j < idx /\ order[j] \in Steps
        BY <2>3 DEF IInv, RunType, SortType
      <4>4. PassedSteps = Steps
        BY <4>2, <4>3 DEF PassedSteps
      <4>5. QED
        BY <4>4 DEF Completed, Failed, GivenUp
    <3>4. Dag!Over = Steps
      BY <3>3, DagOver
    <3>5. QED
      BY <2>1, <3>1, <3>2, <3>4 DEF Dag!Next, Dag!Return, Active, Completed, Failed, GivenUp
  <2>4. QED
    BY <2>2, <2>3
<1>6. CASE DepsUnmet
  <2>1. /\ pc = "deps" /\ pc' = "next" /\ UNCHANGED <<deps, order>> /\ idx' = idx + 1
        /\ status' = status \/ status' = [status EXCEPT ![Step] = "skipped"]
        /\ Unmet(Step) # {}
    BY <1>6 DEF DepsUnmet, Goto, SetStep, Advance, input, sorting
  <2>2. idx <= Len(order) /\ Step \in Steps /\ status[Step] = "running"
    BY <2>1, StepFact DEF IInv, PlaceInv, Busy
  <2>3. /\ Step \notin PassedSteps /\ PassedSteps \subseteq Steps
        /\ deps[Step] \subseteq PassedSteps /\ PassedSteps' = PassedSteps \cup {Step}
    BY <2>1, <2>2, PassedStepsFact
  <2>4. /\ status'[Step] \in {"running", "skipped"}
        /\ \A s \in Steps : s # Step => status'[s] = status[s]
    BY <2>1, <2>2 DEF IInv, RunType
  <2>5. Completed' = Completed /\ Failed' = Failed
    BY <2>2, <2>4 DEF Completed, Failed
  <2>6. GivenUp' = GivenUp \cup {Step}
    BY <2>3, <2>4 DEF GivenUp
  <2>7. Step \notin Completed \cup Failed \cup GivenUp /\ Active = {} /\ Active' = {}
    BY <2>1, <2>2, <2>3 DEF Completed, Failed, GivenUp, Active, Working
  <2>8. PICK d \in deps[Step] : status[d] # "completed"
    BY <2>1 DEF Unmet
  <2>9. d \in Failed \cup GivenUp
    BY <2>3, <2>8 DEF Failed, GivenUp
  <2>10. deps[Step] \cap (Failed \cup GivenUp) # {}
    BY <2>8, <2>9
  <2>11. \E s \in Steps : Dag!GiveUp(s)
    BY <2>1, <2>2, <2>5, <2>6, <2>7, <2>10, DagOver
       DEF Dag!GiveUp, Active, Completed, Failed, GivenUp
  <2>12. QED
    BY <2>11 DEF Dag!Next
<1>7. CASE DepsMet
  <2>1. /\ pc = "deps" /\ pc' = "attempt" /\ UNCHANGED <<deps, status, order, idx>>
        /\ Unmet(Step) = {}
    BY <1>7 DEF DepsMet, Goto, input, sorting, run
  <2>2. /\ idx <= Len(order) /\ Step \in Steps /\ deps[Step] \subseteq Steps
        /\ status[Step] = "running"
    BY <2>1, StepFact DEF IInv, PlaceInv, Busy
  <2>3. deps[Step] \subseteq Completed
    BY <2>1, <2>2 DEF Unmet, Completed
  <2>4. Step \notin PassedSteps /\ PassedSteps' = PassedSteps
    BY <2>1, <2>2, PassedStepsFact
  <2>5. Active = {} /\ Step \notin Active \cup (Completed \cup Failed \cup GivenUp)
    BY <2>1, <2>2, <2>4 DEF Active, Working, Completed, Failed, GivenUp
  <2>6. Active' = Active \cup {Step} /\ UNCHANGED <<Completed, Failed, GivenUp>>
    BY <2>1, <2>4, <2>5 DEF Active, Working, Completed, Failed, GivenUp, Step
  <2>7. \E s \in Steps : Dag!Begin(s)
    BY <2>1, <2>2, <2>3, <2>5, <2>6, DagOver
       DEF Dag!Begin, Active, Completed, Failed, GivenUp
  <2>8. QED
    BY <2>7 DEF Dag!Next
<1>8. CASE AttemptsUsedUp \/ TryOnce \/ NotRegistered \/ Call \/ CallSucceeds \/ CallFails \/ Sleep
  <2>1. /\ UNCHANGED <<deps, status, order, idx>> /\ Working /\ Working'
        /\ pc # "done" /\ pc' # "done"
    BY <1>8 DEF AttemptsUsedUp, TryOnce, NotRegistered, Call, CallSucceeds, CallFails, Sleep,
                Goto, Working, input, sorting, run
  <2>2. Active' = Active /\ PassedSteps' = PassedSteps
    BY <2>1 DEF Active, Step, PassedSteps
  <2>3. QED
    BY <1>1, <2>1, <2>2 DEF Completed, Failed, GivenUp, Open
<1>9. CASE SeeCancelled
  <2>1. /\ pc = "attempt" /\ pc' = "done" /\ UNCHANGED <<deps, order, idx>>
        /\ status' = [status EXCEPT ![Step] = "cancelled"]
    BY <1>9 DEF SeeCancelled, Goto, SetStep, input, sorting
  <2>2. idx <= Len(order) /\ Step \in Steps /\ status[Step] = "running"
    BY <2>1, StepFact DEF IInv, PlaceInv, Busy, Working
  <2>3. Completed' = Completed /\ Failed' = Failed \cup {Step}
    BY <2>1, <2>2 DEF Completed, Failed, IInv, RunType
  <2>4. GivenUp' = GivenUp
    BY <2>1, <2>2, StatusOfStep
  <2>5. Active = {Step} /\ Active' = {}
    BY <2>1 DEF Active, Working
  <2>6. \E s \in Steps : Dag!Fail(s)
    BY <2>1, <2>2, <2>3, <2>4, <2>5 DEF Dag!Fail, Active, Completed, Failed, GivenUp
  <2>7. QED
    BY <2>6 DEF Dag!Next
<1>10. CASE Settle
  <2>1. /\ pc = "settle" /\ pc' \in {"next", "done"} /\ UNCHANGED <<deps, order>>
        /\ status' = [status EXCEPT ![Step] = IF failing THEN "error" ELSE "completed"]
        /\ ~failing => pc' = "next"
        /\ idx' \in {idx, idx + 1}
    BY <1>10 DEF Settle, Goto, SetStep, StopsRun, Advance, input, sorting
  <2>2. idx <= Len(order) /\ Step \in Steps /\ status[Step] = "running"
    BY <2>1, StepFact DEF IInv, PlaceInv, Busy, Working
  <2>3. Active = {Step} /\ Active' = {}
    BY <2>1 DEF Active, Working
  <2>4. /\ status'[Step] = (IF failing THEN "error" ELSE "completed")
        /\ \A s \in Steps : s # Step => status'[s] = status[s]
    BY <2>1, <2>2 DEF IInv, RunType
  <2>5. GivenUp' = GivenUp
    <3>1. /\ Step \notin PassedSteps /\ PassedSteps \subseteq Steps
          /\ PassedSteps' = PassedSteps \/ PassedSteps' = PassedSteps \cup {Step}
      BY <2>1, <2>2, PassedStepsFact
    <3>2. QED
      BY <2>4, <3>1 DEF GivenUp
  <2>6. CASE failing
    <3>1. Completed' = Completed /\ Failed' = Failed \cup {Step}
      BY <2>2, <2>4, <2>6 DEF Completed, Failed
    <3>2. \E s \in Steps : Dag!Fail(s)
      BY <2>1, <2>2, <2>3, <2>5, <3>1 DEF Dag!Fail, Active, Completed, Failed, GivenUp
    <3>3. QED
      BY <3>2 DEF Dag!Next
  <2>7. CASE ~failing
    <3>1. Completed' = Completed \cup {Step} /\ Failed' = Failed
      BY <2>2, <2>4, <2>7 DEF Completed, Failed
    <3>2. \E s \in Steps : Dag!Succeed(s)
      BY <2>1, <2>2, <2>3, <2>5, <2>7, <3>1
         DEF Dag!Succeed, Active, Completed, Failed, GivenUp
    <3>3. QED
      BY <3>2 DEF Dag!Next
  <2>8. QED
    BY <2>6, <2>7
<1>11. Next \/ UNCHANGED vars
  OBVIOUS
<1> HIDE DEF Stutter
<1>12. QED
  BY <1>2, <1>3, <1>4, <1>5, <1>6, <1>7, <1>8, <1>9, <1>10, <1>11
     DEF Next, Execute, ExecuteItself

\* Execute implements DagRun: dependencies first, no step twice, a step given
\* up only for a dependency that did not complete, no step forgotten.
THEOREM ImplementsDagRunAlways == Spec => ImplementsDagRun
<1>1. Init => PastInv
  BY InitPast
<1>2. QED
  BY <1>1, InvAlways, StepKeepsPast, InitImplements, StepImplements, PTL
     DEF Spec, ImplementsDagRun, Dag!Spec

-----------------------------------------------------------------------------
(***************************************************************************)
(* What the sort gives up on.                                              *)
(***************************************************************************)
\* Kahn's algorithm misses no step: one that waits for nothing is in the order
\* or in the queue, and the queue is empty when the sort is over.
ReadyInv ==
  /\ \A s \in Steps : waiting[s] = {} =>
       s \in Ordered(Len(order)) \/ \E i \in 1..Len(queue) : queue[i] = s
  /\ pc # "sort" => queue = <<>>

\* Every member of S is listed, as no sequence of its length lists one twice.
LEMMA OrderingsCover ==
  ASSUME NEW S, IsFiniteSet(S), NEW q \in Orderings(S)
  PROVE  \A s \in S : \E i \in 1..Len(q) : q[i] = s
<1>1. Cardinality(S) \in Nat /\ Len(q) = Cardinality(S)
  BY OrderingsFact, FS_CardinalityType
<1>2. q \in Injection(1..Cardinality(S), S)
  BY DEF Orderings, Injection, IsInjective
<1>3. IsFiniteSet(1..Cardinality(S)) /\ Cardinality(1..Cardinality(S)) = Cardinality(S)
  BY <1>1, FS_Interval
<1>4. q \in Surjection(1..Cardinality(S), S)
  BY <1>2, <1>3, FS_Injection
<1>5. QED
  BY <1>1, <1>4 DEF Surjection

LEMMA InitReady == Init => ReadyInv
<1> SUFFICES ASSUME Init, NEW s \in Steps, waiting[s] = {}
             PROVE  \E i \in 1..Len(queue) : queue[i] = s
  BY DEF Init, ReadyInv
<1> DEFINE Free == {r \in Steps : deps[r] = {}}
<1>1. IsFiniteSet(Free) /\ s \in Free
  BY FS_Subset, PipelineAssumption DEF Init
<1>2. queue \in Orderings(Free)
  BY DEF Init
<1>3. QED
  BY <1>1, <1>2, OrderingsCover

LEMMA SortStepKeepsReady ==
  ASSUME SortType, ReadyInv, SortStep
  PROVE  ReadyInv'
<1> DEFINE node == Head(queue)
           New == NewlyReady(node)
<1>1. /\ queue # <<>> /\ pc = "sort" /\ pc' = pc
      /\ order' = Append(order, node)
      /\ waiting' = [s \in Steps |-> waiting[s] \ {node}]
  BY DEF SortStep
<1>2. PICK more \in Orderings(New) : queue' = Tail(queue) \o more
  BY DEF SortStep
<1>3. New \subseteq Steps /\ IsFiniteSet(New)
  BY FS_Subset, PipelineAssumption DEF NewlyReady
<1>4. more \in Seq(New) /\ \A s \in New : \E i \in 1..Len(more) : more[i] = s
  BY <1>3, OrderingsFact, OrderingsCover
<1> DEFINE m == Len(queue) - 1
<1>5. /\ m \in Nat /\ Len(more) \in Nat /\ Len(queue') = m + Len(more)
      /\ \A k \in 1..m : queue'[k] = queue[k + 1]
      /\ \A k \in 1..Len(more) : queue'[m + k] = more[k]
      /\ node = queue[1] /\ node \in Steps
  BY <1>1, <1>2, <1>4 DEF SortType
<1>6. Ordered(Len(order))' = Ordered(Len(order)) \cup {node}
  <2>1. /\ Len(order') = Len(order) + 1 /\ Len(order) \in Nat
        /\ \A i \in 1..Len(order) : order'[i] = order[i]
        /\ order'[Len(order) + 1] = node
    BY <1>1, <1>5 DEF SortType
  <2>2. QED
    BY <2>1 DEF Ordered
<1> SUFFICES ASSUME NEW s \in Steps, waiting'[s] = {}
             PROVE  \/ s \in Ordered(Len(order))'
                    \/ \E i \in 1..Len(queue') : queue'[i] = s
  BY <1>1 DEF ReadyInv
<1>7. waiting[s] = {} \/ waiting[s] = {node}
  BY <1>1
<1>8. CASE waiting[s] = {}
  <2>1. CASE s \in Ordered(Len(order))
    BY <1>6, <2>1
  <2>2. ASSUME NEW i \in 1..Len(queue), queue[i] = s
        PROVE  s = node \/ \E k \in 1..Len(queue') : queue'[k] = s
    <3>1. CASE i = 1
      BY <1>5, <2>2, <3>1
    <3>2. CASE i # 1
      <4>1. i - 1 \in 1..m /\ i - 1 \in 1..Len(queue') /\ (i - 1) + 1 = i
        BY <1>5, <3>2
      <4>2. QED
        BY <1>5, <2>2, <4>1
    <3>3. QED
      BY <3>1, <3>2
  <2>3. QED
    BY <1>6, <1>8, <2>1, <2>2 DEF ReadyInv
<1>9. CASE waiting[s] = {node}
  <2>1. s \in New
    BY <1>9 DEF NewlyReady
  <2>2. PICK k \in 1..Len(more) : more[k] = s
    BY <1>4, <2>1
  <2>3. m + k \in 1..Len(queue')
    BY <1>5
  <2>4. QED
    BY <1>5, <2>2, <2>3
<1>10. QED
  BY <1>7, <1>8, <1>9

LEMMA RunningKeepsReady ==
  ASSUME ReadyInv, Running \/ UNCHANGED vars
  PROVE  ReadyInv'
<1>1. UNCHANGED <<waiting, queue, order>>
  BY RunningKeepsSorting
<1>2. pc' # "sort" => queue = <<>>
  BY DEF ReadyInv, Running, SortDone, NextStep, DepsMet, DepsUnmet, AttemptsUsedUp, SeeCancelled,
    TryOnce, NotRegistered, Call, CallSucceeds, CallFails, Sleep, Settle, Cancel, Goto, vars
<1>3. QED
  BY <1>1, <1>2 DEF ReadyInv, Ordered

\* A set of numbers has a least one.
LEMMA LeastElement ==
  ASSUME NEW T, T \subseteq Nat, T # {}
  PROVE  \E x \in T : \A y \in T : x <= y
<1>1. PICK x \in T : \A y \in T : ~(<<y, x>> \in OpToRel(<, Nat))
  BY NatLessThanWellFounded, WFMin
<1>2. \A y \in T : ~(y < x)
  BY <1>1 DEF OpToRel
<1>3. QED
  BY <1>2

\* The order lists no step twice, so it is no longer than the pipeline.
LEMMA OrderLength ==
  ASSUME IInv
  PROVE  /\ Len(order) \in Nat /\ Cardinality(Steps) \in Nat
         /\ Len(order) <= Cardinality(Steps)
         /\ Steps = Ordered(Len(order)) => Len(order) = Cardinality(Steps)
<1>1. order \in [1..Len(order) -> Steps] /\ Len(order) \in Nat
  BY DEF IInv, SortType
<1>2. \A i, j \in 1..Len(order) : order[i] = order[j] => i = j
  BY <1>1 DEF IInv, SortInv, OrderIsTopological
<1>3. order \in Injection(1..Len(order), Steps)
  BY <1>1, <1>2 DEF Injection, IsInjective
<1>4. IsFiniteSet(1..Len(order)) /\ Cardinality(1..Len(order)) = Len(order)
  <2>1. PICK n \in Nat : n = Len(order)
    BY <1>1
  <2>2. IsFiniteSet(1..n) /\ Cardinality(1..n) = n
    BY FS_Interval
  <2>3. QED
    BY <2>1, <2>2
<1>5. Len(order) <= Cardinality(Steps) /\ Cardinality(Steps) \in Nat
  BY <1>3, <1>4, FS_Injection, FS_CardinalityType, PipelineAssumption
<1>6. ASSUME Steps = Ordered(Len(order)) PROVE Len(order) = Cardinality(Steps)
  <2>1. order \in Surjection(1..Len(order), Steps)
    BY <1>1, <1>6 DEF Ordered, Surjection
  <2>2. QED
    BY <1>3, <1>4, <2>1, FS_Surjection
<1>7. QED
  BY <1>1, <1>5, <1>6

\* No member of a stuck set is ever listed: the first one listed would wait
\* for an earlier one.
LEMMA StuckStaysOut ==
  ASSUME IInv, NEW S \in SUBSET Steps, Stuck(S)
  PROVE  \A s \in S : s \notin Ordered(Len(order))
<1> SUFFICES ASSUME NEW s \in S, s \in Ordered(Len(order)) PROVE FALSE
  OBVIOUS
<1> DEFINE T == {i \in 1..Len(order) : order[i] \in S}
<1>1. order \in Seq(Steps) /\ Len(order) \in Nat
  BY DEF IInv, SortType
<1>2. T \subseteq Nat /\ T # {}
  BY <1>1 DEF Ordered
<1>3. PICK i \in T : \A j \in T : i <= j
  <2> HIDE DEF T
  <2> QED
    BY <1>2, LeastElement
<1>4. i \in 1..Len(order) /\ order[i] \in S
  OBVIOUS
<1>5. PICK d \in deps[order[i]] : d \in S \cup Ghosts
  BY <1>4 DEF Stuck
<1>6. PICK j \in 1..i-1 : d = order[j]
  BY <1>4, <1>5 DEF IInv, SortInv, OrderIsTopological
<1>7. j \in 1..Len(order) /\ d \in Steps
  BY <1>1, <1>4, <1>6
<1>8. d \in S
  BY <1>5, <1>7, PipelineAssumption
<1>9. j \in T
  BY <1>6, <1>7, <1>8
<1>10. i <= j /\ j <= i - 1 /\ i \in Nat /\ j \in Nat
  BY <1>1, <1>3, <1>9
<1>11. QED
  BY <1>10

LEMMA SortFails == IInv /\ ReadyInv => SortFailsIffStuck
<1> SUFFICES ASSUME IInv, ReadyInv, pc # "sort"
             PROVE  Len(order) < Cardinality(Steps) <=> \E S \in SUBSET Steps : Stuck(S)
  BY DEF SortFailsIffStuck
<1>1. queue = <<>> /\ Len(queue) = 0
  BY DEF ReadyInv
<1>2. ASSUME NEW S \in SUBSET Steps, Stuck(S) PROVE Len(order) < Cardinality(Steps)
  <2>1. PICK s \in S : s \notin Ordered(Len(order))
    BY <1>2, StuckStaysOut DEF Stuck
  <2>2. Len(order) # Cardinality(Steps)
    BY <2>1, OrderCoversSteps DEF Ordered
  <2>3. QED
    BY <2>2, OrderLength
<1>3. ASSUME Len(order) < Cardinality(Steps) PROVE \E S \in SUBSET Steps : Stuck(S)
  <2> DEFINE U == Steps \ Ordered(Len(order))
  <2>1. U # {}
    <3>1. Ordered(Len(order)) \subseteq Steps
      BY DEF Ordered, IInv, SortType
    <3>2. Steps # Ordered(Len(order))
      BY <1>3, OrderLength
    <3>3. QED
      BY <3>1, <3>2
  <2>2. ASSUME NEW s \in U PROVE deps[s] \cap (U \cup Ghosts) # {}
    <3>1. waiting[s] # {}
      BY <1>1 DEF ReadyInv
    <3>2. deps[s] \ Ordered(Len(order)) # {} /\ deps[s] \subseteq Steps \cup Ghosts
      BY <3>1 DEF IInv, SortInv, SortType, All
    <3>3. QED
      BY <3>2
  <2>3. Stuck(U)
    BY <2>1, <2>2 DEF Stuck
  <2>4. QED
    BY <2>3
<1>4. QED
  BY <1>2, <1>3

\* "circular dependency detected" is reported for exactly the pipelines that
\* cannot be run, whatever their steps and dependencies are (topologicalSort).
THEOREM SortFailsIffStuckAlways == Spec => []SortFailsIffStuck
<1>1. SortType /\ ReadyInv /\ [Next]_vars => ReadyInv'
  BY SortStepKeepsReady, RunningKeepsReady, NextCases
<1>2. IInv => SortType
  BY DEF IInv
<1>3. QED
  BY <1>1, <1>2, InitReady, InvAlways, SortFails, PTL DEF Spec

-----------------------------------------------------------------------------
(***************************************************************************)
(* The swarm: the tokens in sem and those taken by the waiting loop are    *)
(* together one for every goroutine alive.                                 *)
(***************************************************************************)
Places == {"idle", "started", "calling", "answered", "failed", "sent", "panicking", "gone"}

SwarmControl ==
  /\ limit \in Nat
  /\ main \in {"launch", "wait", "merge", "returned"}
  /\ next \in 1..N + 1
  /\ taken \in 0..N
  /\ tokens \in Nat
  /\ closed \in BOOLEAN
  /\ goroutine \in [Agents -> Places]

TokensInv ==
  /\ tokens + taken = Cardinality(Live)
  /\ tokens + taken <= limit
  /\ \A i \in Agents : i >= next => goroutine[i] = "idle"
  /\ main = "launch" => taken = 0
  /\ closed => taken = N /\ main \in {"merge", "returned"}
  /\ \A i \in Agents : goroutine[i] = "panicking" => closed
  /\ ~crashed

SwarmInv == SwarmControl /\ TokensInv

LEMMA LiveFinite == IsFiniteSet(Agents) /\ Cardinality(Agents) = N
BY FS_Interval, SwarmAssumption DEF Agents

\* When the results are closed every token is the waiting loop's.
LEMMA ClosedFact ==
  ASSUME SwarmInv, closed
  PROVE  tokens = 0 /\ Live = Agents /\ limit >= N
<1>1. Live \in SUBSET Agents
  BY DEF Live
<1>2. /\ IsFiniteSet(Live)
      /\ Cardinality(Live) <= N
      /\ Cardinality(Live) = N => Live = Agents
  BY <1>1, LiveFinite, FS_Subset
<1>3. taken = N /\ tokens \in Nat /\ N \in Nat /\ limit \in Nat
      /\ tokens + taken = Cardinality(Live) /\ tokens + taken <= limit
  BY SwarmAssumption DEF SwarmInv, SwarmControl, TokensInv
<1>4. tokens = 0 /\ Cardinality(Live) = N
  BY <1>2, <1>3
<1>5. QED
  BY <1>2, <1>3, <1>4

\* A goroutine that moves without starting or ending stays alive.
LEMMA GoroutineMoves ==
  ASSUME SwarmInv, NEW i \in Agents, NEW place \in Places, Move(i, place)
  PROVE  /\ goroutine' \in [Agents -> Places]
         /\ goroutine'[i] = place
         /\ \A j \in Agents : j # i => goroutine'[j] = goroutine[j]
         /\ i \in Live /\ place \notin {"idle", "gone"} => Live' = Live
         /\ i \in Live /\ place = "gone" => Live' = Live \ {i}
         /\ i \notin Live /\ place \notin {"idle", "gone"} => Live' = Live \cup {i}
<1>1. /\ goroutine' \in [Agents -> Places]
      /\ goroutine'[i] = place
      /\ \A j \in Agents : j # i => goroutine'[j] = goroutine[j]
  BY DEF Move, SwarmInv, SwarmControl
<1>2. QED
  BY <1>1 DEF Live

LEMMA SwarmInitInv == SwarmInit => SwarmInv
<1> SUFFICES ASSUME SwarmInit PROVE SwarmInv
  OBVIOUS
<1>1. /\ goroutine = [i \in Agents |-> "idle"] /\ main = "launch" /\ next = 1 /\ taken = 0
      /\ tokens = 0 /\ closed = FALSE /\ crashed = FALSE
  BY DEF SwarmInit
<1>2. limit \in Nat
  <2>1. PICK m \in Limits : limit = IF m <= 0 THEN N ELSE m
    BY DEF SwarmInit
  <2>2. m \in Int /\ N \in Nat
    BY SwarmAssumption
  <2>3. QED
    BY <2>1, <2>2
<1>3. Live = {}
  BY <1>1 DEF Live
<1>4. Cardinality(Live) = 0
  BY <1>3, FS_EmptySet
<1>5. SwarmControl
  <2>1. next \in 1..N + 1 /\ taken \in 0..N /\ tokens \in Nat
    BY <1>1, SwarmAssumption
  <2>2. goroutine \in [Agents -> Places]
    BY <1>1 DEF Places
  <2>3. QED
    BY <1>1, <1>2, <2>1, <2>2 DEF SwarmControl
<1>6. TokensInv
  BY <1>1, <1>2, <1>4 DEF TokensInv
<1>7. QED
  BY <1>5, <1>6 DEF SwarmInv

LEMMA MainKeepsTokens == ASSUME SwarmInv, Main PROVE SwarmInv'
<1> USE SwarmAssumption
<1>1. UNCHANGED <<limit, crashed>>
  BY DEF Main, Launch, Launched, Take, Close, Return, config
<1>2. CASE Launch
  <2>1. /\ main = "launch" /\ next \in Agents /\ tokens < limit /\ tokens' = tokens + 1
        /\ Move(next, "started") /\ next' = next + 1 /\ UNCHANGED <<main, taken, closed>>
    BY <1>2 DEF Launch, Room
  <2>2. taken = 0 /\ goroutine[next] = "idle" /\ tokens = Cardinality(Live)
    BY <2>1 DEF SwarmInv, SwarmControl, TokensInv, Agents
  <2>3. next \notin Live
    BY <2>2 DEF Live
  <2>4. "started" \in Places
    BY DEF Places
  <2>5. /\ goroutine' \in [Agents -> Places]
        /\ goroutine'[next] = "started"
        /\ \A j \in Agents : j # next => goroutine'[j] = goroutine[j]
        /\ Live' = Live \cup {next}
    BY <2>1, <2>3, <2>4, GoroutineMoves
  <2>6. IsFiniteSet(Live)
    BY LiveFinite, FS_Subset DEF Live
  <2>7. Cardinality(Live') = Cardinality(Live) + 1
    BY <2>3, <2>5, <2>6, FS_AddElement
  <2>8. SwarmControl'
    BY <1>1, <2>1, <2>5 DEF SwarmInv, SwarmControl, Agents
  <2>9. TokensInv'
    BY <1>1, <2>1, <2>2, <2>5, <2>7 DEF SwarmInv, SwarmControl, TokensInv, Agents
  <2>10. QED
    BY <2>8, <2>9 DEF SwarmInv
<1>3. CASE Take
  <2>1. /\ main = "wait" /\ taken < N /\ tokens > 0 /\ tokens' = tokens - 1
        /\ taken' = taken + 1 /\ UNCHANGED <<main, next, closed, goroutine>>
    BY <1>3 DEF Take, WaitFor
  <2>2. Live' = Live
    BY <2>1 DEF Live
  <2>3. SwarmControl'
    BY <1>1, <2>1 DEF SwarmInv, SwarmControl
  <2>4. TokensInv'
    BY <1>1, <2>1, <2>2 DEF SwarmInv, SwarmControl, TokensInv
  <2>5. QED
    BY <2>3, <2>4 DEF SwarmInv
<1>4. CASE Launched \/ Close \/ Return
  <2>1. /\ UNCHANGED <<next, taken, tokens, goroutine>>
        /\ \/ main = "launch" /\ main' = "wait" /\ closed' = closed
           \/ main = "wait" /\ taken = N /\ main' = "merge" /\ closed' = TRUE
           \/ main = "merge" /\ main' = "returned" /\ closed' = closed
    BY <1>4 DEF Launched, Close, Return, WaitFor
  <2>2. Live' = Live
    BY <2>1 DEF Live
  <2>3. SwarmControl'
    BY <1>1, <2>1 DEF SwarmInv, SwarmControl
  <2>4. TokensInv'
    BY <1>1, <2>1, <2>2 DEF SwarmInv, SwarmControl, TokensInv
  <2>5. QED
    BY <2>3, <2>4 DEF SwarmInv
<1>5. QED
  BY <1>2, <1>3, <1>4 DEF Main

LEMMA RunKeepsTokens == ASSUME SwarmInv, NEW i \in Agents, Run(i) PROVE SwarmInv'
<1>1. UNCHANGED <<limit, main, next, taken, closed>>
  BY DEF Run, NotFound, AskAgent, Answer, Send, SendOnClosed, Release, config
<1>2. i < next
  <2>1. goroutine[i] # "idle"
    BY DEF Run, NotFound, AskAgent, Answer, Send, SendOnClosed, Release
  <2>2. QED
    BY <2>1 DEF SwarmInv, TokensInv, SwarmControl, Agents
<1>3. CASE Release(i)
  <2>1. /\ goroutine[i] \in {"sent", "panicking"} /\ tokens > 0 /\ tokens' = tokens - 1
        /\ Move(i, "gone") /\ crashed' = (goroutine[i] = "panicking")
    BY <1>3 DEF Release, Run
  <2>2. goroutine[i] = "sent" /\ ~crashed'
    <3>1. goroutine[i] # "panicking"
      BY <2>1, ClosedFact DEF SwarmInv, TokensInv
    <3>2. QED
      BY <2>1, <3>1, Zenon
  <2>3. i \in Live /\ "gone" \in Places
    BY <2>1 DEF Live, Places
  <2>4. /\ goroutine' \in [Agents -> Places]
        /\ goroutine'[i] = "gone"
        /\ \A j \in Agents : j # i => goroutine'[j] = goroutine[j]
        /\ Live' = Live \ {i}
    BY <2>1, <2>3, GoroutineMoves
  <2>5. IsFiniteSet(Live)
    BY LiveFinite, FS_Subset DEF Live
  <2>6. Cardinality(Live') = Cardinality(Live) - 1
    BY <2>3, <2>4, <2>5, FS_RemoveElement
  <2>7. SwarmControl'
    BY <1>1, <2>1, <2>4 DEF SwarmInv, SwarmControl
  <2>8. TokensInv'
    BY <1>1, <1>2, <2>1, <2>2, <2>4, <2>6 DEF SwarmInv, SwarmControl, TokensInv, Agents
  <2>9. QED
    BY <2>7, <2>8 DEF SwarmInv
<1>4. CASE ~Release(i)
  <2>1. PICK place \in Places \ {"idle", "gone"} :
          /\ Move(i, place) /\ tokens' = tokens
          /\ place = "panicking" => closed
          /\ goroutine[i] \in {"started", "calling", "answered", "failed"}
    BY <1>4 DEF Run, NotFound, AskAgent, Answer, Send, SendOnClosed, Places
  <2>2. i \in Live /\ ~crashed'
    BY <2>1 DEF Live, Run
  <2>3. /\ goroutine' \in [Agents -> Places]
        /\ goroutine'[i] = place
        /\ \A j \in Agents : j # i => goroutine'[j] = goroutine[j]
        /\ Live' = Live
    BY <2>1, <2>2, GoroutineMoves
  <2>4. SwarmControl'
    BY <1>1, <2>1, <2>3 DEF SwarmInv, SwarmControl
  <2>5. TokensInv'
    BY <1>1, <1>2, <2>1, <2>2, <2>3 DEF SwarmInv, SwarmControl, TokensInv, Agents
  <2>6. QED
    BY <2>4, <2>5 DEF SwarmInv
<1>5. QED
  BY <1>3, <1>4

\* The counting invariant holds in every reachable state.
THEOREM SwarmInvAlways == SwarmSpec => []SwarmInv
<1>1. SwarmInv /\ [SwarmNext]_swarmVars => SwarmInv'
  <2>1. SwarmInv /\ UNCHANGED swarmVars => SwarmInv'
    BY DEF SwarmInv, SwarmControl, TokensInv, Live, swarmVars
  <2>2. QED
    BY <2>1, MainKeepsTokens, RunKeepsTokens DEF SwarmNext
<1>2. QED
  BY <1>1, SwarmInitInv, PTL DEF SwarmSpec

\* No more goroutines are alive at any time than MaxConcurrent allows.
THEOREM ConcurrencyLimitedAlways == SwarmSpec => []ConcurrencyLimited
<1>1. SwarmInv => ConcurrencyLimited
  BY DEF SwarmInv, SwarmControl, TokensInv, ConcurrencyLimited
<1>2. QED
  BY <1>1, SwarmInvAlways, PTL

\* The panic of a send on the closed channel never leaves its goroutine.
THEOREM PanicNeverSurfacesAlways == SwarmSpec => []PanicNeverSurfaces
<1>1. SwarmInv => PanicNeverSurfaces
  BY DEF SwarmInv, TokensInv, PanicNeverSurfaces
<1>2. QED
  BY <1>1, SwarmInvAlways, PTL

\* ExecuteSwarm gets past its waiting loop only by outrunning every goroutine.
THEOREM ReturnsOnlyByOutrunningAlways == SwarmSpec => []ReturnsOnlyByOutrunning
<1>1. SwarmInv => ReturnsOnlyByOutrunning
  BY ClosedFact DEF Live, ReturnsOnlyByOutrunning
<1>2. QED
  BY <1>1, SwarmInvAlways, PTL

-----------------------------------------------------------------------------
(***************************************************************************)
(* What ExecuteSwarm returns.                                              *)
(***************************************************************************)
Result == [agent : Agents, failed : BOOLEAN]

\* A set of numbers that goes on holds them all.
LEMMA Induct ==
  ASSUME NEW T, T \subseteq Nat, 0 \in T, \A n \in T : n + 1 \in T
  PROVE  T = Nat
<1> SUFFICES ASSUME Nat \ T # {} PROVE FALSE
  OBVIOUS
<1>1. PICK x \in Nat \ T : \A y \in Nat \ T : x <= y
  BY LeastElement
<1>2. x # 0 /\ x - 1 \in Nat
  BY <1>1
<1>3. x - 1 \in T
  BY <1>1, <1>2
<1>4. QED
  BY <1>1, <1>2, <1>3

\* The values the loop of Gathered has after each of n results.
Gathers(n, failed, from) ==
  from = [k \in 0..n |->
            IF k = 0 THEN <<>>
            ELSE IF results[k].failed = failed THEN Append(from[k - 1], results[k])
            ELSE from[k - 1]]

LEMMA GathersExists ==
  ASSUME NEW failed
  PROVE  \A n \in Nat : \E from : Gathers(n, failed, from)
<1> DEFINE T == {n \in Nat : \E from : Gathers(n, failed, from)}
<1>1. 0 \in T
  <2> DEFINE g == [k \in 0..0 |-> <<>>]
  <2>1. Gathers(0, failed, g)
    BY DEF Gathers
  <2>2. QED
    BY <2>1
<1>2. ASSUME NEW n \in T PROVE n + 1 \in T
  <2>1. PICK g : Gathers(n, failed, g)
    OBVIOUS
  <2> DEFINE last == IF results[n + 1].failed = failed THEN Append(g[n], results[n + 1])
                     ELSE g[n]
             h == [k \in 0..n + 1 |-> IF k = n + 1 THEN last ELSE g[k]]
             body(k) == IF k = 0 THEN <<>>
                        ELSE IF results[k].failed = failed THEN Append(h[k - 1], results[k])
                        ELSE h[k - 1]
  <2>2. /\ n \in Nat /\ h[n + 1] = last
        /\ \A k \in 0..n : h[k] = g[k]
    OBVIOUS
  <2>3. \A k \in 0..n : g[k] = IF k = 0 THEN <<>>
                               ELSE IF results[k].failed = failed
                                    THEN Append(g[k - 1], results[k])
                               ELSE g[k - 1]
    BY <2>1 DEF Gathers
  <2>4. ASSUME NEW k \in 0..n + 1 PROVE h[k] = body(k)
    <3>1. CASE k = n + 1
      BY <2>2, <3>1
    <3>2. CASE k = 0
      BY <2>2, <2>3, <3>2
    <3>3. CASE k \in 1..n
      <4>1. h[k] = g[k] /\ h[k - 1] = g[k - 1]
        BY <2>2, <3>3
      <4> HIDE DEF h
      <4>2. QED
        BY <2>3, <3>3, <4>1
    <3>4. QED
      BY <2>2, <3>1, <3>2, <3>3
  <2>5. h = [k \in 0..n + 1 |-> body(k)]
    <3>1. h = [k \in 0..n + 1 |-> h[k]]
      OBVIOUS
    <3> HIDE DEF h
    <3>2. QED
      BY <2>4, <3>1
  <2>6. Gathers(n + 1, failed, h)
    <3> HIDE DEF h
    <3>1. QED
      BY <2>5 DEF Gathers
  <2>7. QED
    BY <2>2, <2>6
<1>3. T \subseteq Nat
  OBVIOUS
<1>4. T = Nat
  <2> HIDE DEF T
  <2>1. QED
    BY <1>1, <1>2, <1>3, Induct
<1>5. QED
  BY <1>4

\* A list is gathered from exactly the results of its kind.
LEMMA GatheredFact ==
  ASSUME results \in Seq(Result), NEW failed
  PROVE  /\ Gathered(failed) \in Seq(Result)
         /\ \A i \in Agents :
              (\E k \in 1..Len(Gathered(failed)) : Gathered(failed)[k].agent = i) <=>
              (\E k \in 1..Len(results) : results[k].agent = i /\ results[k].failed = failed)
<1> DEFINE from == CHOOSE f : Gathers(Len(results), failed, f)
           Lists(n) ==
             /\ from[n] \in Seq(Result)
             /\ \A i \in Agents :
                  (\E k \in 1..Len(from[n]) : from[n][k].agent = i) <=>
                  (\E k \in 1..n : results[k].agent = i /\ results[k].failed = failed)
           T == {n \in Nat : n <= Len(results) => Lists(n)}
<1>1. Len(results) \in Nat /\ \A k \in 1..Len(results) : results[k] \in Result
  OBVIOUS
<1>2. Gathers(Len(results), failed, from)
  <2>1. \E f : Gathers(Len(results), failed, f)
    BY <1>1, GathersExists
  <2>2. QED
    BY <2>1
<1>3. Gathered(failed) = from[Len(results)]
  BY DEF Gathered, Gathers
<1>4. \A k \in 0..Len(results) :
        from[k] = IF k = 0 THEN <<>>
                  ELSE IF results[k].failed = failed THEN Append(from[k - 1], results[k])
                  ELSE from[k - 1]
  <2> HIDE DEF from
  <2> QED
    BY <1>2 DEF Gathers
<1> HIDE DEF from
<1>5. Lists(0)
  <2>1. from[0] = <<>>
    BY <1>1, <1>4
  <2>2. from[0] \in Seq(Result) /\ Len(from[0]) = 0
    BY <2>1
  <2>3. QED
    BY <2>2
<1>6. ASSUME NEW n \in Nat, n + 1 <= Len(results), Lists(n) PROVE Lists(n + 1)
  <2>1. /\ n + 1 \in 1..Len(results) /\ results[n + 1] \in Result
        /\ from[n + 1] = IF results[n + 1].failed = failed THEN Append(from[n], results[n + 1])
                         ELSE from[n]
    BY <1>1, <1>4, <1>6
  <2>2. PICK s \in Seq(Result) : s = from[n]
    BY <1>6
  <2>3. PICK r \in Result : r = results[n + 1]
    BY <2>1
  <2>4. \A i \in Agents : (\E k \in 1..n + 1 : results[k].agent = i /\ results[k].failed = failed)
          <=> \/ \E k \in 1..n : results[k].agent = i /\ results[k].failed = failed
              \/ r.agent = i /\ r.failed = failed
    BY <2>3
  <2>5. CASE r.failed = failed
    <3>0. Append(s, r) \in Seq(Result)
      OBVIOUS
    <3>1. PICK u \in Seq(Result) : u = Append(s, r)
      BY <3>0
    <3>2. from[n + 1] = u
      BY <2>1, <2>2, <2>3, <2>5, <3>1
    <3>3. /\ Len(u) = Len(s) + 1 /\ u[Len(s) + 1] = r /\ Len(s) \in Nat
          /\ \A k \in 1..Len(s) : u[k] = s[k]
      BY <3>1
    <3>4. \A i \in Agents : (\E k \in 1..Len(u) : u[k].agent = i) <=>
                            (\E k \in 1..Len(s) : s[k].agent = i) \/ r.agent = i
      BY <3>3
    <3>5. QED
      BY <1>6, <2>2, <2>4, <2>5, <3>2, <3>4
  <2>6. CASE r.failed # failed
    <3>1. from[n + 1] = from[n]
      BY <2>1, <2>3, <2>6
    <3>2. QED
      BY <1>6, <2>4, <2>6, <3>1
  <2>7. QED
    BY <2>5, <2>6
<1>7. 0 \in T /\ \A n \in T : n + 1 \in T
  <2> HIDE DEF Lists
  <2>1. ASSUME NEW n \in T PROVE n + 1 \in T
    <3>1. n \in Nat /\ n + 1 \in Nat /\ (n + 1 <= Len(results) => n <= Len(results))
      BY <1>1
    <3>2. QED
      BY <1>6, <3>1
  <2>2. QED
    BY <1>5, <2>1
<1>8. T = Nat
  <2>1. T \subseteq Nat
    OBVIOUS
  <2> HIDE DEF T
  <2>2. QED
    BY <1>7, <2>1, Induct
<1>9. Lists(Len(results))
  <2> HIDE DEF Lists
  <2>1. Len(results) \in T
    BY <1>1, <1>8
  <2>2. QED
    BY <1>1, <2>1
<1>10. QED
  BY <1>3, <1>9

\* The agents that have delivered are those with a result, and nobody delivers
\* or ends once the channel is closed.
SentInv ==
  /\ results \in Seq(Result)
  /\ \A i \in Agents : (\E k \in 1..Len(results) : results[k].agent = i) <=>
                       goroutine[i] \in {"sent", "gone"}
  /\ main \in {"merge", "returned"} => closed
  /\ MissingAreUnsent

LEMMA MergedFact ==
  ASSUME results \in Seq(Result), mergeStrategy = "concatenate"
  PROVE  \A i \in Agents : (\E k \in 1..Len(Merged) : Merged[k].agent = i) <=>
                           (\E k \in 1..Len(results) : results[k].agent = i)
<1>1. PICK e \in Seq(Result) :
        /\ e = Gathered(TRUE)
        /\ \A i \in Agents :
             (\E k \in 1..Len(e) : e[k].agent = i) <=>
             (\E k \in 1..Len(results) : results[k].agent = i /\ results[k].failed = TRUE)
  BY GatheredFact, Zenon
<1>2. PICK x \in Seq(Result) :
        /\ x = Gathered(FALSE)
        /\ \A i \in Agents :
             (\E k \in 1..Len(x) : x[k].agent = i) <=>
             (\E k \in 1..Len(results) : results[k].agent = i /\ results[k].failed = FALSE)
  BY GatheredFact, Zenon
<1>3. Merged = e \o x
  BY <1>1, <1>2 DEF Merged
<1>4. /\ Len(e \o x) = Len(e) + Len(x) /\ Len(e) \in Nat /\ Len(x) \in Nat
      /\ \A k \in 1..Len(e) : (e \o x)[k] = e[k]
      /\ \A k \in 1..Len(x) : (e \o x)[Len(e) + k] = x[k]
  OBVIOUS
<1>5. \A k \in 1..Len(e \o x) : k \in 1..Len(e) \/ (k - Len(e) \in 1..Len(x)
                                                    /\ Len(e) + (k - Len(e)) = k)
  BY <1>4
<1>6. \A k \in 1..Len(x) : Len(e) + k \in 1..Len(e \o x)
  BY <1>4
<1>7. \A k \in 1..Len(e) : k \in 1..Len(e \o x)
  BY <1>4
<1>8. \A i \in Agents : (\E k \in 1..Len(e \o x) : (e \o x)[k].agent = i) <=>
                          \/ \E k \in 1..Len(e) : e[k].agent = i
                          \/ \E k \in 1..Len(x) : x[k].agent = i
  <2> SUFFICES ASSUME NEW i \in Agents
               PROVE  (\E k \in 1..Len(e \o x) : (e \o x)[k].agent = i) <=>
                        \/ \E k \in 1..Len(e) : e[k].agent = i
                        \/ \E k \in 1..Len(x) : x[k].agent = i
    OBVIOUS
  <2>1. ASSUME NEW k \in 1..Len(e \o x), (e \o x)[k].agent = i
        PROVE  \/ \E m \in 1..Len(e) : e[m].agent = i
               \/ \E m \in 1..Len(x) : x[m].agent = i
    <3>1. CASE k \in 1..Len(e)
      BY <1>4, <2>1, <3>1
    <3>2. CASE k - Len(e) \in 1..Len(x) /\ Len(e) + (k - Len(e)) = k
      <4>1. (e \o x)[k] = x[k - Len(e)]
        BY <1>4, <3>2
      <4>2. QED
        BY <2>1, <3>2, <4>1
    <3>3. QED
      BY <1>5, <3>1, <3>2
  <2>2. ASSUME NEW k \in 1..Len(e), e[k].agent = i
        PROVE  \E m \in 1..Len(e \o x) : (e \o x)[m].agent = i
    BY <1>4, <1>7, <2>2
  <2>3. ASSUME NEW k \in 1..Len(x), x[k].agent = i
        PROVE  \E m \in 1..Len(e \o x) : (e \o x)[m].agent = i
    BY <1>4, <1>6, <2>3
  <2>4. QED
    BY <2>1, <2>2, <2>3
<1>9. \A k \in 1..Len(results) : results[k].failed = TRUE \/ results[k].failed = FALSE
  <2>1. \A k \in 1..Len(results) : results[k] \in Result
    OBVIOUS
  <2>2. QED
    BY <2>1, Zenon DEF Result
<1>10. \A i \in Agents : (\E k \in 1..Len(Merged) : Merged[k].agent = i) <=>
                           (\E k \in 1..Len(e \o x) : (e \o x)[k].agent = i)
  BY <1>3
<1>11. \A i \in Agents :
         (\E k \in 1..Len(results) : results[k].agent = i) <=>
           \/ \E k \in 1..Len(results) : results[k].agent = i /\ results[k].failed = TRUE
           \/ \E k \in 1..Len(results) : results[k].agent = i /\ results[k].failed = FALSE
  BY <1>9, Zenon
<1>12. QED
  BY <1>1, <1>2, <1>8, <1>10, <1>11, Zenon

LEMMA SentInit == SwarmInit => SentInv
<1> SUFFICES ASSUME SwarmInit PROVE SentInv
  OBVIOUS
<1>1. results = <<>> /\ Len(results) = 0 /\ main = "launch"
  BY DEF SwarmInit
<1>2. \A i \in Agents : goroutine[i] = "idle"
  BY DEF SwarmInit
<1>3. QED
  BY <1>1, <1>2 DEF SentInv, MissingAreUnsent

LEMMA MainKeepsSent == ASSUME SwarmInv, SentInv, Main PROVE SentInv'
<1>1. results' = results
  BY DEF Main, Launch, Launched, Take, Close, Return
<1>2. CASE Launch
  <2>1. /\ main = "launch" /\ main' = main /\ next \in Agents /\ closed' = closed
        /\ Move(next, "started")
    BY <1>2 DEF Launch
  <2>2. goroutine[next] = "idle"
    BY <2>1 DEF SwarmInv, SwarmControl, TokensInv, Agents
  <2>3. \A i \in Agents : goroutine'[i] = IF i = next THEN "started" ELSE goroutine[i]
    BY <2>1 DEF SwarmInv, SwarmControl, Move
  <2>4. QED
    BY <1>1, <2>1, <2>2, <2>3 DEF SentInv, MissingAreUnsent
<1>3. CASE Launched \/ Take \/ Close
  BY <1>1, <1>3 DEF Launched, Take, Close, SentInv, MissingAreUnsent
<1>4. CASE Return
  <2>1. /\ main = "merge" /\ main' = "returned" /\ outputs' = Merged
        /\ UNCHANGED <<goroutine, closed, mergeStrategy>>
    BY <1>4 DEF Return, config
  <2>2. closed /\ \A i \in Agents : goroutine[i] # "gone"
    BY <2>1, ClosedFact DEF SentInv, Live
  <2>3. ASSUME mergeStrategy = "concatenate", NEW i \in Agents
        PROVE  (\E k \in 1..Len(outputs') : outputs'[k].agent = i) <=> goroutine[i] = "sent"
    BY <2>1, <2>2, <2>3, MergedFact DEF SentInv
  <2>4. QED
    BY <1>1, <2>1, <2>2, <2>3 DEF SentInv, MissingAreUnsent
<1>5. QED
  BY <1>2, <1>3, <1>4 DEF Main

LEMMA RunKeepsSent == ASSUME SwarmInv, SentInv, NEW i \in Agents, Run(i) PROVE SentInv'
<1>1. UNCHANGED <<mergeStrategy, main, closed, outputs>>
  BY DEF Run, NotFound, AskAgent, Answer, Send, SendOnClosed, Release, config
<1>2. goroutine \in [Agents -> Places]
  BY DEF SwarmInv, SwarmControl
<1>3. CASE Send(i)
  <2>1. /\ ~closed /\ goroutine[i] \in {"answered", "failed"}
        /\ results' = Append(results, [agent |-> i, failed |-> goroutine[i] = "failed"])
        /\ goroutine' = [goroutine EXCEPT ![i] = "sent"]
    BY <1>3 DEF Send, Move
  <2>2. PICK r \in Result : r = [agent |-> i, failed |-> goroutine[i] = "failed"]
    <3>1. (goroutine[i] = "failed") \in BOOLEAN
      OBVIOUS
    <3>2. QED
      BY <3>1 DEF Result
  <2>3. r.agent = i
    BY <2>2
  <2>4. /\ results' \in Seq(Result) /\ Len(results') = Len(results) + 1 /\ Len(results) \in Nat
        /\ results'[Len(results) + 1] = r
        /\ \A k \in 1..Len(results) : results'[k] = results[k]
    BY <2>1, <2>2 DEF SentInv
  <2>5. \A j \in Agents : (\E k \in 1..Len(results') : results'[k].agent = j) <=>
                          (\E k \in 1..Len(results) : results[k].agent = j) \/ j = i
    BY <2>3, <2>4
  <2>6. \A j \in Agents : goroutine'[j] = IF j = i THEN "sent" ELSE goroutine[j]
    BY <1>2, <2>1
  <2>7. main # "returned" /\ main # "merge"
    BY <2>1 DEF SentInv
  <2>8. QED
    BY <1>1, <2>4, <2>5, <2>6, <2>7 DEF SentInv, MissingAreUnsent
<1>4. CASE ~Send(i)
  <2>1. PICK place \in Places :
          /\ goroutine' = [goroutine EXCEPT ![i] = place] /\ results' = results
          /\ \/ goroutine[i] \notin {"sent", "gone"} /\ place \notin {"sent", "gone"}
             \/ goroutine[i] \in {"sent", "panicking"} /\ place = "gone" /\ tokens > 0
    BY <1>4 DEF Run, NotFound, AskAgent, Answer, SendOnClosed, Release, Places, Move
  <2>2. \A j \in Agents : goroutine'[j] = IF j = i THEN place ELSE goroutine[j]
    BY <1>2, <2>1
  <2>3. place = "gone" => ~closed /\ goroutine[i] = "sent"
    <3>1. closed => tokens = 0
      BY ClosedFact
    <3>2. goroutine[i] = "panicking" => closed
      BY DEF SwarmInv, TokensInv
    <3>3. tokens > 0 => ~closed
      BY <3>1 DEF SwarmInv, SwarmControl
    <3>4. QED
      BY <2>1, <3>2, <3>3
  <2>4. (goroutine'[i] \in {"sent", "gone"}) <=> (goroutine[i] \in {"sent", "gone"})
    BY <2>1, <2>2, <2>3
  <2>5. main' = "returned" => ((goroutine'[i] = "sent") <=> (goroutine[i] = "sent"))
    BY <1>1, <2>1, <2>2, <2>3 DEF SentInv
  <2>6. QED
    BY <1>1, <2>1, <2>2, <2>4, <2>5 DEF SentInv, MissingAreUnsent
<1>5. QED
  BY <1>3, <1>4

\* What a concatenated answer lacks is what had not been sent when the channel
\* was closed, for any number of agents (the loop over results, Merged).
THEOREM MissingAreUnsentAlways == SwarmSpec => []MissingAreUnsent
<1>1. SwarmInv /\ SentInv /\ [SwarmNext]_swarmVars => SentInv'
  <2>1. SentInv /\ UNCHANGED swarmVars => SentInv'
    BY DEF SentInv, MissingAreUnsent, swarmVars
  <2>2. QED
    BY <2>1, MainKeepsSent, RunKeepsSent DEF SwarmNext
<1>2. SentInv => MissingAreUnsent
  BY DEF SentInv
<1>3. QED
  BY <1>1, <1>2, SwarmInvAlways, SentInit, PTL DEF SwarmSpec
=============================================================================
