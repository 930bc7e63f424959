----------------------------- MODULE MCBackground ------------------------------
(* What goes on behind the window: scheduled tasks and streamed replies.  They *)
(* have no state in common, so a behaviour moves the one part or the other.    *)
EXTENDS Scheduler, Streams

VARIABLE part

BackgroundInit ==
  /\ Init /\ StreamsInit /\ part \in {"scheduler", "streams"}
  /\ part = "streams" => Present(db) = {}

BackgroundNext ==
  \/ part = "scheduler" /\ Next /\ UNCHANGED <<streamsVars, part>>
  \/ part = "streams" /\ StreamsNext /\ UNCHANGED <<vars, part>>

\* Each part is as fair as it is alone.
BackgroundFairSpec ==
  /\ BackgroundInit
  /\ [][BackgroundNext]_<<vars, streamsVars, part>>
  /\ WF_vars(part = "scheduler" /\ Load)
  /\ \A r \in Slots : WF_vars(part = "scheduler" /\ Goroutine(r))
  /\ StreamsFairness
=============================================================================
