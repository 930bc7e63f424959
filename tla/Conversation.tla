----------------------------- MODULE Conversation -----------------------------
(***************************************************************************)
(* Sessions and turns: SessionManager (src/internal/agent/session.go) and  *)
(* ConversationLoop.ProcessMessage (src/internal/agent/loop.go).           *)
(*                                                                         *)
(* The tables agents, sessions and messages survive a restart; the rate    *)
(* limiter and the token tracker do not.  A turn is one ProcessMessage     *)
(* call, on a goroutine of its own; nothing keeps two turns of a session   *)
(* apart, and every statement it sends to the database is a step.  Writing *)
(* fails on constraints only; failures of the disk are left out.  So are   *)
(* the text of messages, token numbers and costs: a reply counts one in    *)
(* the row (message_count) and one in the tracker.                         *)
(*                                                                         *)
(* A definition marked "Mutant" is a wrong version of the one after it;    *)
(* it is used only to show that the property it breaks can fail.           *)
(***************************************************************************)
EXTENDS Integers, FiniteSets

CONSTANTS
  Agents,    \* ids of agents
  Sessions,  \* ids of sessions: a UUID is never used twice
  Turns,     \* bound: the calls of ProcessMessage
  Limit,     \* turns an agent may start within Window: 30 in a minute
  Window,    \* length of the sliding window, in ticks of clock
  MaxIter,   \* model calls of one turn: 20
  MaxTime,   \* bound on clock
  MaxBoots   \* bound: processes started

ASSUME ConversationAssumption ==
  /\ IsFiniteSet(Turns)
  /\ Limit \in Nat \ {0} /\ Window \in Nat \ {0} /\ MaxIter \in Nat \ {0}
  /\ MaxTime \in Nat /\ MaxBoots \in Nat

VARIABLES
  agents,    \* the rows of the table agents
  sessions,  \* the table sessions: [status, agent, count, old]
  messages,  \* the table messages: [session, turn, role]
  limiter,   \* agent -> the admissions in its sliding window: [turn, at]
  tracker,   \* TokenTracker: session -> replies counted
  turns,     \* the calls: [pc, session, agent, tools, iter]
  clock,
  boots,
  jammed,    \* a lock that tools wait for, whatever their context says, is held for good
  admitted   \* history: agent -> all admissions of this process

tables == <<agents, sessions, messages>>
memory == <<limiter, tracker, admitted>>
world == <<clock, boots, jammed>>
vars == <<agents, sessions, messages, limiter, tracker, turns, clock, boots, jammed, admitted>>

-----------------------------------------------------------------------------
NewTurn(s) == [pc |-> "session", session |-> s, agent |-> "", tools |-> FALSE, iter |-> 0]

Init ==
  /\ agents = Agents
  /\ sessions = [s \in Sessions |->
       [status |-> "unborn", agent |-> "", count |-> 0, old |-> FALSE]]
  /\ messages = {}
  /\ limiter = [a \in Agents |-> {}]
  /\ tracker = [s \in Sessions |-> 0]
  /\ turns = [t \in Turns |-> [NewTurn("") EXCEPT !.pc = "idle"]]
  /\ clock = 0
  /\ boots = 1
  /\ jammed = FALSE
  /\ admitted = [a \in Agents |-> {}]

Live(s) == sessions[s].status \notin {"unborn", "gone"}

\* An UPDATE of the row of s, which touches updated_at; it may change no row.
Touch(s, row) == IF Live(s) THEN [sessions EXCEPT ![s] = [row EXCEPT !.old = FALSE]] ELSE sessions

Goto(t, place) == turns' = [turns EXCEPT ![t].pc = place]

Ended == {"refused", "failed", "answered", "lost"}

-----------------------------------------------------------------------------
\* Create, by the UI or by the executor of the scheduler; the foreign key wants
\* the agent's row.
CreateSession(s, a) ==
  /\ sessions[s].status = "unborn"
  /\ a \in agents
  /\ sessions' = [sessions EXCEPT ![s] =
                     [status |-> "active", agent |-> a, count |-> 0, old |-> FALSE]]
  /\ UNCHANGED <<agents, messages, memory, turns, world>>

\* Pause, Resume and Complete, whatever the status was.
SetStatus(s, status) ==
  /\ Live(s)
  /\ sessions' = Touch(s, [sessions[s] EXCEPT !.status = status])
  /\ UNCHANGED <<agents, messages, memory, turns, world>>

Gone(S) == [s \in Sessions |-> IF s \in S THEN [sessions[s] EXCEPT !.status = "gone"]
                                          ELSE sessions[s]]

\* ON DELETE CASCADE takes the messages along.
Remove(S) ==
  /\ sessions' = Gone(S)
  /\ messages' = {m \in messages : m.session \notin S}

DeleteSession(s) ==
  /\ Live(s)
  /\ Remove({s})
  /\ UNCHANGED <<agents, memory, turns, world>>

DeleteAgent(a) ==
  /\ a \in agents
  /\ agents' = agents \ {a}
  /\ Remove({s \in Sessions : Live(s) /\ sessions[s].agent = a})
  /\ UNCHANGED <<memory, turns, world>>

\* Seven days pass without an UPDATE of the row.
Age(s) ==
  /\ Live(s)
  /\ sessions' = [sessions EXCEPT ![s].old = TRUE]
  /\ UNCHANGED <<agents, messages, memory, turns, world>>

\* One of the two statements of expireOld.
Expire(status) ==
  /\ sessions' = [s \in Sessions |->
       IF sessions[s].status = status /\ sessions[s].old
       THEN [sessions[s] EXCEPT !.status = "archived", !.old = FALSE] ELSE sessions[s]]
  /\ UNCHANGED <<agents, messages, memory, turns, world>>

-----------------------------------------------------------------------------
Send(t, s) ==
  /\ turns[t].pc = "idle"
  /\ sessions[s].status # "unborn"
  /\ turns' = [turns EXCEPT ![t] = NewTurn(s)]
  /\ UNCHANGED <<tables, memory, world>>

\* The status of the session is not looked at.
ReadSession(t) ==
  /\ turns[t].pc = "session"
  /\ LET s == turns[t].session
     IN  turns' = [turns EXCEPT ![t] =
                     IF Live(s) THEN [@ EXCEPT !.pc = "agent", !.agent = sessions[s].agent]
                     ELSE [@ EXCEPT !.pc = "refused"]]
  /\ UNCHANGED <<tables, memory, world>>


ReadAgent(t) ==
  /\ turns[t].pc = "agent"
  /\ Goto(t, IF turns[t].agent \in agents THEN "limit" ELSE "refused")
  /\ UNCHANGED <<tables, memory, world>>

\* Mutant: the admissions of the current tick only.
RecentNow(a) == {m \in limiter[a] : m.at >= clock}

\* The admissions after the cutoff; the others are dropped.
Recent(a) == {m \in limiter[a] : m.at > clock - Window}

\* rateLimiter.Allow: a refusal drops the old admissions too.
Admit(t) ==
  /\ turns[t].pc = "limit"
  /\ LET a == turns[t].agent
         new == IF Cardinality(Recent(a)) < Limit THEN {[turn |-> t, at |-> clock]} ELSE {}
     IN  /\ limiter' = [limiter EXCEPT ![a] = Recent(a) \cup new]
         /\ admitted' = [admitted EXCEPT ![a] = @ \cup new]
         /\ Goto(t, IF new = {} THEN "refused" ELSE "title")
  /\ UNCHANGED <<tables, tracker, world>>

\* SetTitle, when the session had no title as it was read; then the history is
\* loaded, which may fail.
Title(t) ==
  /\ turns[t].pc = "title"
  /\ LET s == turns[t].session
     IN  sessions' \in {sessions, Touch(s, sessions[s])}
  /\ \E place \in {"chat", "refused"} : Goto(t, place)
  /\ UNCHANGED <<agents, messages, memory, world>>

MayChat(n) == n < MaxIter

\* The model answers, or asks for tools.
ChatReplies(t) ==
  /\ turns[t].pc = "chat"
  /\ MayChat(turns[t].iter)
  /\ \E tools \in BOOLEAN :
       turns' = [turns EXCEPT ![t].pc = "track", ![t].tools = tools]
  /\ UNCHANGED <<tables, memory, world>>

\* An error of the router or the provider, the turn's timeout included.
ChatFails(t) ==
  /\ turns[t].pc = "chat"
  /\ MayChat(turns[t].iter)
  /\ Goto(t, "failed")
  /\ UNCHANGED <<tables, memory, world>>

IterationsUsedUp(t) ==
  /\ turns[t].pc = "chat"
  /\ ~MayChat(turns[t].iter)
  /\ Goto(t, "failed")
  /\ UNCHANGED <<tables, memory, world>>

Track(t) ==
  /\ turns[t].pc = "track"
  /\ tracker' = [tracker EXCEPT ![turns[t].session] = @ + 1]
  /\ Goto(t, "usage")
  /\ UNCHANGED <<tables, limiter, admitted, world>>

\* Mutant: the tokens are added, the message is not counted.
CountKept(s) == sessions[s]

\* message_count = message_count + 1
Counted(s) == [sessions[s] EXCEPT !.count = @ + 1]

TrackUsage(t) ==
  /\ turns[t].pc = "usage"
  /\ sessions' = Touch(turns[t].session, Counted(turns[t].session))
  /\ Goto(t, IF turns[t].tools THEN "tools" ELSE "question")
  /\ UNCHANGED <<agents, messages, memory, world>>

\* executeToolCalls: a tool that is missing or fails is a result as well.  But
\* memory.store and memory.recall take the lock of the memory manager, and
\* knowledge.search that of the embedder: behind a lock that is jammed they wait
\* for good, without a look at the turn's context.  knowledge.search may jam its
\* lock itself: too short an answer makes it panic under the lock, and the window,
\* whose call the turn is, recovers.
RunTools(t) ==
  /\ turns[t].pc = "tools"
  /\ \/ turns' = [turns EXCEPT ![t].pc = "chat", ![t].iter = @ + 1] /\ UNCHANGED jammed
     \/ jammed /\ Goto(t, "waiting") /\ UNCHANGED jammed
     \/ Goto(t, "lost") /\ jammed' = TRUE
  /\ UNCHANGED <<tables, memory, clock, boots>>

\* An INSERT; it fails on the foreign key when the session is gone, and the
\* error is dropped.
Insert(t, role) ==
  LET s == turns[t].session
  IN  messages' = IF Live(s) THEN messages \cup {[session |-> s, turn |-> t, role |-> role]}
                  ELSE messages

\* Mutant: the reply is saved before what it replies to.
SaveAnswerFirst(t) ==
  \/ turns[t].pc = "question" /\ Insert(t, "assistant") /\ Goto(t, "answer")
       /\ UNCHANGED <<agents, sessions, memory, world>>
  \/ turns[t].pc = "answer" /\ Insert(t, "user") /\ Goto(t, "answered")
       /\ UNCHANGED <<agents, sessions, memory, world>>

\* saveMessages: two INSERTs without a transaction.
SaveMessages(t) ==
  /\ \/ turns[t].pc = "question" /\ Insert(t, "user") /\ Goto(t, "answer")
     \/ turns[t].pc = "answer" /\ Insert(t, "assistant") /\ Goto(t, "answered")
  /\ UNCHANGED <<agents, sessions, memory, world>>

ProcessMessage(t) ==
  \/ ReadSession(t) \/ ReadAgent(t) \/ Admit(t) \/ Title(t)
  \/ ChatReplies(t) \/ ChatFails(t) \/ IterationsUsedUp(t)
  \/ Track(t) \/ TrackUsage(t) \/ RunTools(t) \/ SaveMessages(t)

-----------------------------------------------------------------------------
Tick ==
  /\ clock < MaxTime
  /\ clock' = clock + 1
  /\ UNCHANGED <<tables, memory, turns, boots, jammed>>

\* The consolidator asks for the manager's lock, which it holds; or a window's
\* ingestion or search panics under the embedder's.
Jam ==
  /\ ~jammed
  /\ jammed' = TRUE
  /\ UNCHANGED <<tables, memory, turns, clock, boots>>

\* The process ends at any point and a new one is started.
Restart ==
  /\ boots < MaxBoots
  /\ boots' = boots + 1
  /\ limiter' = [a \in Agents |-> {}]
  /\ admitted' = [a \in Agents |-> {}]
  /\ tracker' = [s \in Sessions |-> 0]
  /\ turns' = [t \in Turns |-> IF turns[t].pc \in Ended \cup {"idle"} THEN turns[t]
                               ELSE [turns[t] EXCEPT !.pc = "lost"]]
  /\ jammed' = FALSE
  /\ UNCHANGED <<tables, clock>>

SessionOp(s) ==
  \/ \E a \in Agents : CreateSession(s, a)
  \/ \E status \in {"paused", "active", "completed"} : SetStatus(s, status)
  \/ DeleteSession(s)
  \/ Age(s)

Next ==
  \/ \E s \in Sessions : SessionOp(s)
  \/ \E a \in Agents : DeleteAgent(a)
  \/ \E status \in {"paused", "completed"} : Expire(status)
  \/ \E t \in Turns : ProcessMessage(t) \/ \E s \in Sessions : Send(t, s)
  \/ Tick
  \/ Jam
  \/ Restart

Spec == Init /\ [][Next]_vars

\* A turn runs on its own goroutine; its model calls, and the tools that look at
\* their context, end by the agent's timeout.
FairSpec == Spec /\ \A t \in Turns : WF_vars(ProcessMessage(t))

-----------------------------------------------------------------------------
\* The type of the state.
TypeOK ==
  /\ agents \subseteq Agents
  /\ sessions \in [Sessions -> [status : {"unborn", "active", "paused", "completed", "archived",
                                          "gone"},
                                agent : Agents \cup {""}, count : Nat, old : BOOLEAN]]
  /\ messages \subseteq [session : Sessions, turn : Turns, role : {"user", "assistant"}]
  /\ limiter \in [Agents -> SUBSET [turn : Turns, at : Nat]]
  /\ tracker \in [Sessions -> Nat]
  /\ turns \in [Turns -> [pc : {"idle", "session", "agent", "limit", "title", "chat", "track",
                                "usage", "tools", "waiting", "question", "answer"} \cup Ended,
                          session : Sessions \cup {""}, agent : Agents \cup {""},
                          tools : BOOLEAN, iter : 0..MaxIter]]
  /\ clock \in Nat
  /\ boots \in Nat
  /\ jammed \in BOOLEAN
  /\ admitted \in [Agents -> SUBSET [turn : Turns, at : Nat]]

\* Within any window an agent starts at most Limit turns, whatever sessions
\* they are of, however admissions, refusals and the passing of time interleave.
RateLimited ==
  \A a \in Agents : \A now \in 0..clock :
    Cardinality({m \in admitted[a] : m.at \in now - Window + 1 .. now}) <= Limit

\* The history is whole, for every interleaving of turns, deletions and
\* restarts: nothing is left of a session that was deleted, itself or with its
\* agent, though turns of it are still saving, and every stored reply has the
\* message it replies to beside it (the two INSERTs of saveMessages).
HistoryIsWhole ==
  \A m \in messages :
    /\ Live(m.session) /\ sessions[m.session].agent \in agents
    /\ m.role = "assistant" => [m EXCEPT !.role = "user"] \in messages

\* The tables as whoever reads a conversation sees them.
Log == INSTANCE Transcript WITH
         staff <- agents,
         owner <- [s \in Sessions |-> sessions[s].agent],
         opened <- {s \in Sessions : sessions[s].status # "unborn"},
         ended <- {s \in Sessions : sessions[s].status = "gone"},
         said <- messages

\* The tables implement Transcript: a turn that answers has asked, once and in
\* the same session, nothing that was said goes but with its session, and a
\* session that was deleted, itself or with its agent, stays so, though turns
\* of it are still under way (the rows of Create, Delete and saveMessages, the
\* cascades of the schema).
ImplementsTranscript == Log!Spec

At(s, places) == {t \in Turns : turns[t].session = s /\ turns[t].pc \in places}

\* message_count accounts for every reply stored or about to be stored, and
\* for all the tracker in memory shows but the turns between the two: no
\* concurrent turn's increment is lost (TrackMessage, TrackUsage).
RepliesCounted ==
  \A s \in Sessions : Live(s) =>
    /\ Cardinality({m \in messages : m.session = s /\ m.role = "assistant"})
         + Cardinality(At(s, {"question", "answer"})) <= sessions[s].count
    /\ tracker[s] <= sessions[s].count + Cardinality(At(s, {"usage"}))


\* docs/spec.md "Save after every user message (sync)": when ProcessMessage
\* has answered, or reported an error to the user, the message is stored.
UserMessagesSaved ==
  \A t \in Turns :
    turns[t].pc \in {"failed", "answered"} /\ Live(turns[t].session) =>
      \E m \in messages : m.turn = t /\ m.role = "user"
=============================================================================
