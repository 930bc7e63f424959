------------------------------ MODULE Transcript ------------------------------
(***************************************************************************)
(* What the tables agents, sessions and messages promise to whoever reads  *)
(* a conversation, whatever turns, deletions and restarts are under way in *)
(* src/internal/agent: a session belongs to the agent it was opened with   *)
(* and ends with it, a turn speaks in one session, asks once and is        *)
(* answered at most once after that, and what was said stays, in an open   *)
(* session, until the session ends and takes all of it along.              *)
(***************************************************************************)
CONSTANTS Agents, Sessions, Turns

VARIABLES
  staff,   \* the agents there are
  owner,   \* session -> its agent
  opened,  \* the sessions that were ever opened
  ended,   \* those that were deleted
  said     \* what can be read: [session, turn, role]

transcript == <<staff, owner, opened, ended, said>>

Init ==
  /\ staff = Agents
  /\ owner = [s \in Sessions |-> ""]
  /\ opened = {} /\ ended = {} /\ said = {}

Open(s, a) ==
  /\ s \notin opened
  /\ a \in staff
  /\ opened' = opened \cup {s}
  /\ owner' = [owner EXCEPT ![s] = a]
  /\ UNCHANGED <<staff, ended, said>>

End(S) ==
  /\ ended' = ended \cup S
  /\ said' = {m \in said : m.session \notin S}
  /\ UNCHANGED <<owner, opened>>

EndOne(s) == s \in opened \ ended /\ End({s}) /\ UNCHANGED staff

Dismiss(a) ==
  /\ a \in staff
  /\ staff' = staff \ {a}
  /\ End({s \in opened \ ended : owner[s] = a})

Ask(t, s) ==
  /\ s \in opened \ ended
  /\ \A m \in said : m.turn # t
  /\ said' = said \cup {[session |-> s, turn |-> t, role |-> "user"]}
  /\ UNCHANGED <<staff, owner, opened, ended>>

Answer(t, s) ==
  /\ s \in opened \ ended
  /\ \E m \in said : m.turn = t /\ m.session = s
  /\ \A m \in said : m.turn = t => m.role = "user"
  /\ said' = said \cup {[session |-> s, turn |-> t, role |-> "assistant"]}
  /\ UNCHANGED <<staff, owner, opened, ended>>

Next ==
  \/ \E s \in Sessions : EndOne(s) \/ \E a \in Agents : Open(s, a)
  \/ \E a \in Agents : Dismiss(a)
  \/ \E t \in Turns, s \in Sessions : Ask(t, s) \/ Answer(t, s)

Spec == Init /\ [][Next]_transcript
=============================================================================
