-------------------------------- MODULE DagRun ---------------------------------
(***************************************************************************)
(* What a pipeline run promises, whatever order Execute of                 *)
(* src/internal/pipeline/pipeline.go picks and however often it retries:   *)
(* no step is begun before all its dependencies have completed, none       *)
(* twice, and none once the run has returned.  A step may be given up only *)
(* for a dependency that failed or was given up itself, and the run comes  *)
(* to its end only when every step is accounted for, unless a step that    *)
(* fails ends it, or nothing was begun at all.                             *)
(*                                                                         *)
(* Any number of steps may be worked on side by side: that Execute takes   *)
(* them one by one is not part of the promise.                             *)
(***************************************************************************)
CONSTANTS Steps, Ghosts      \* ids of the steps; ids depended on that no step has

VARIABLES
  needs,      \* the steps each step depends on
  active,     \* the steps being worked on
  completed,
  failed,
  givenUp,    \* the steps that will not run: a dependency did not complete
  open        \* the run has not returned

dagVars == <<needs, active, completed, failed, givenUp, open>>

Over == completed \cup failed \cup givenUp

Init ==
  /\ needs \in [Steps -> SUBSET (Steps \cup Ghosts)]
  /\ active = {} /\ completed = {} /\ failed = {} /\ givenUp = {}
  /\ open = TRUE

Begin(s) ==
  /\ open
  /\ s \notin active \cup Over
  /\ needs[s] \subseteq completed
  /\ active' = active \cup {s}
  /\ UNCHANGED <<needs, completed, failed, givenUp, open>>

Succeed(s) ==
  /\ s \in active
  /\ active' = active \ {s}
  /\ completed' = completed \cup {s}
  /\ UNCHANGED <<needs, failed, givenUp, open>>

\* The step failed or was cancelled; the run may return with it, if no other
\* step is being worked on.
Fail(s) ==
  /\ s \in active
  /\ active' = active \ {s}
  /\ failed' = failed \cup {s}
  /\ \/ UNCHANGED open
     \/ open' = FALSE /\ active = {s}
  /\ UNCHANGED <<needs, completed, givenUp>>

GiveUp(s) ==
  /\ open
  /\ s \notin active \cup Over
  /\ needs[s] \cap (failed \cup givenUp) # {}
  /\ givenUp' = givenUp \cup {s}
  /\ UNCHANGED <<needs, active, completed, failed, open>>

\* Every step is accounted for, or none was begun.
Return ==
  /\ active = {}
  /\ Over = Steps \/ Over = {}
  /\ open' = FALSE
  /\ UNCHANGED <<needs, active, completed, failed, givenUp>>

Next == Return \/ \E s \in Steps : Begin(s) \/ Succeed(s) \/ Fail(s) \/ GiveUp(s)

Spec == Init /\ [][Next]_dagVars
=============================================================================
