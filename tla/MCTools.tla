-------------------------------- MODULE MCTools --------------------------------
(* The tools that share memory (web.search, web.fetch) and the tools that      *)
(* share the disk (files, notes): they have no state in common, so a behaviour *)
(* moves the one part or the other.                                            *)
EXTENDS WebTools, Sandbox, TLC

VARIABLE part

MCHost == [u \in URLs |-> "site"]

\* Two files of one base name in two folders, and a note's file.
MCBase == [p \in Paths |-> IF p = "x/n" THEN "n" ELSE p]
MCSafeName == [n \in Titles |-> "a_b"]

\* No action prefers one turn or one call to another, and no liveness is checked.
Symmetry == Permutations(Turns) \cup Permutations(Calls)

vars == <<webVars, sandboxVars, part>>

Init == WebInit /\ SandboxInit /\ part \in {"web", "sandbox"}

Next ==
  \/ part = "web" /\ WebNext /\ UNCHANGED <<sandboxVars, part>>
  \/ part = "sandbox" /\ SandboxNext /\ UNCHANGED <<webVars, part>>

Spec == Init /\ [][Next]_vars
=============================================================================
