--------------------------- MODULE ConversationProofs ---------------------------
(***************************************************************************)
(* TLAPS proofs about Conversation, for any agents, sessions, turns, limits *)
(* and bounds.                                                             *)
(***************************************************************************)
EXTENDS Conversation, FiniteSetTheorems, TLAPS

SessionRow == [status : {"unborn", "active", "paused", "completed", "archived", "gone"},
               agent : Agents \cup {""}, count : Nat, old : BOOLEAN]

TurnRow == [pc : {"idle", "session", "agent", "limit", "title", "chat", "track",
                  "usage", "tools", "waiting", "question", "answer"} \cup Ended,
            session : Sessions \cup {""}, agent : Agents \cup {""},
            tools : BOOLEAN, iter : 0..MaxIter]

Admissions == [turn : Turns, at : Nat]

\* A turn is of a session that has been created, and a call of the model has
\* been counted before its tools run.
TurnInv ==
  \A t \in Turns :
    /\ turns[t].pc # "idle" => /\ turns[t].session \in Sessions
                               /\ sessions[turns[t].session].status # "unborn"
    /\ turns[t].pc \in {"track", "usage", "tools"} => turns[t].iter < MaxIter

\* A session has its agent, until both are deleted.
SessionInv ==
  \A s \in Sessions :
    /\ Live(s) => sessions[s].agent \in agents
    /\ sessions[s].status = "unborn" => tracker[s] = 0

\* A turn that is about to store its answer has stored its question.
QuestionInv ==
  \A t \in Turns :
    turns[t].pc = "answer" /\ Live(turns[t].session) =>
      [session |-> turns[t].session, turn |-> t, role |-> "user"] \in messages

IInv == TypeOK /\ TurnInv /\ SessionInv /\ QuestionInv /\ HistoryIsWhole

-----------------------------------------------------------------------------
LEMMA Types ==
  TypeOK <=> /\ agents \subseteq Agents
             /\ sessions \in [Sessions -> SessionRow]
             /\ messages \subseteq [session : Sessions, turn : Turns,
                                    role : {"user", "assistant"}]
             /\ limiter \in [Agents -> SUBSET Admissions]
             /\ tracker \in [Sessions -> Nat]
             /\ turns \in [Turns -> TurnRow]
             /\ clock \in Nat
             /\ boots \in Nat
             /\ jammed \in BOOLEAN
             /\ admitted \in [Agents -> SUBSET Admissions]
BY DEF TypeOK, SessionRow, TurnRow, Admissions

\* An UPDATE of a session changes that row at most.
LEMMA TouchFact ==
  ASSUME sessions \in [Sessions -> SessionRow], NEW s \in Sessions, NEW row \in SessionRow
  PROVE  /\ Touch(s, row) \in [Sessions -> SessionRow]
         /\ \A r \in Sessions :
              Touch(s, row)[r] = IF r = s /\ Live(s) THEN [row EXCEPT !.old = FALSE]
                                 ELSE sessions[r]
<1>1. [row EXCEPT !.old = FALSE] \in SessionRow
  BY DEF SessionRow
<1>2. QED
  BY <1>1 DEF Touch

LEMMA CountedFact ==
  ASSUME sessions \in [Sessions -> SessionRow], NEW s \in Sessions
  PROVE  /\ Counted(s) \in SessionRow
         /\ Counted(s).count = sessions[s].count + 1
         /\ Counted(s).status = sessions[s].status
         /\ Counted(s).agent = sessions[s].agent
<1>1. PICK row \in SessionRow : row = sessions[s]
  OBVIOUS
<1>2. row.count + 1 \in Nat
  <2>1. row.count \in Nat
    BY DEF SessionRow
  <2>2. QED
    BY <2>1
<1>3. Counted(s) = [row EXCEPT !.count = row.count + 1]
  BY <1>1 DEF Counted
<1>4. QED
  BY <1>1, <1>2, <1>3 DEF SessionRow

\* A turn's step changes that turn.
LEMMA GotoFact ==
  ASSUME turns \in [Turns -> TurnRow], NEW t \in Turns, NEW place, Goto(t, place)
  PROVE  /\ turns' = [turns EXCEPT ![t] = [turns[t] EXCEPT !.pc = place]]
         /\ turns'[t].pc = place
         /\ turns'[t].session = turns[t].session /\ turns'[t].agent = turns[t].agent
         /\ turns'[t].iter = turns[t].iter
         /\ \A u \in Turns : u # t => turns'[u] = turns[u]
         /\ place \in {"agent", "limit", "title", "chat", "usage", "tools", "waiting",
                       "question", "answer"} \cup Ended => turns' \in [Turns -> TurnRow]
<1>1. turns' = [turns EXCEPT ![t] = [turns[t] EXCEPT !.pc = place]]
  BY DEF Goto
<1>2. turns[t] \in TurnRow
  OBVIOUS
<1>3. place \in {"agent", "limit", "title", "chat", "usage", "tools", "waiting", "question",
                 "answer"} \cup Ended => [turns[t] EXCEPT !.pc = place] \in TurnRow
  BY <1>2 DEF TurnRow
<1>4. /\ [turns[t] EXCEPT !.pc = place].pc = place
      /\ [turns[t] EXCEPT !.pc = place].session = turns[t].session
      /\ [turns[t] EXCEPT !.pc = place].agent = turns[t].agent
      /\ [turns[t] EXCEPT !.pc = place].iter = turns[t].iter
  BY <1>2 DEF TurnRow
<1>5. QED
  BY <1>1, <1>3, <1>4

LEMMA InitInv == Init => IInv
<1> SUFFICES ASSUME Init PROVE IInv
  OBVIOUS
<1>1. \A t \in Turns :
        turns[t] = [pc |-> "idle", session |-> "", agent |-> "", tools |-> FALSE, iter |-> 0]
  BY DEF Init, NewTurn
<1>2. turns \in [Turns -> TurnRow]
  <2>1. [pc |-> "idle", session |-> "", agent |-> "", tools |-> FALSE, iter |-> 0] \in TurnRow
    BY ConversationAssumption DEF TurnRow
  <2>2. DOMAIN turns = Turns /\ turns = [t \in Turns |-> turns[t]]
    BY DEF Init
  <2>3. QED
    BY <1>1, <2>1, <2>2
<1>3. \A s \in Sessions :
        sessions[s] = [status |-> "unborn", agent |-> "", count |-> 0, old |-> FALSE]
  BY DEF Init
<1>4. sessions \in [Sessions -> SessionRow]
  BY DEF Init, SessionRow
<1>5. TypeOK
  BY <1>2, <1>4, Types DEF Init
<1>6. TurnInv /\ SessionInv /\ QuestionInv /\ HistoryIsWhole
  BY <1>1, <1>3 DEF Init, TurnInv, SessionInv, QuestionInv, HistoryIsWhole, Live
<1>7. QED
  BY <1>5, <1>6 DEF IInv

-----------------------------------------------------------------------------
(***************************************************************************)
(* What a step does to the tables.                                         *)
(***************************************************************************)
\* An active turn's session is one.
LEMMA ActiveFact ==
  ASSUME IInv, NEW t \in Turns, turns[t].pc # "idle"
  PROVE  /\ turns[t].session \in Sessions
         /\ sessions[turns[t].session].status # "unborn"
         /\ sessions[turns[t].session] \in SessionRow
BY Types DEF IInv, TurnInv

\* Deleting keeps everything of a row but its status.
LEMMA GoneFact ==
  ASSUME sessions \in [Sessions -> SessionRow], NEW S
  PROVE  /\ Gone(S) \in [Sessions -> SessionRow]
         /\ \A s \in Sessions :
              /\ Gone(S)[s].status = IF s \in S THEN "gone" ELSE sessions[s].status
              /\ Gone(S)[s].agent = sessions[s].agent
              /\ Gone(S)[s].count = sessions[s].count
<1>1. \A s \in Sessions :
        /\ [sessions[s] EXCEPT !.status = "gone"] \in SessionRow
        /\ [sessions[s] EXCEPT !.status = "gone"].status = "gone"
        /\ [sessions[s] EXCEPT !.status = "gone"].agent = sessions[s].agent
        /\ [sessions[s] EXCEPT !.status = "gone"].count = sessions[s].count
  BY DEF SessionRow
<1>2. QED
  BY <1>1 DEF Gone

\* The rows after a step: types are kept; a row that was made stays made, one
\* that is deleted stays so, its messages with it, and a live one keeps its agent.
LEMMA RowsFact ==
  ASSUME IInv, [Next]_vars
  PROVE  /\ sessions' \in [Sessions -> SessionRow]
         /\ \A s \in Sessions :
              \/ /\ sessions'[s].status = "gone" /\ sessions[s].status # "unborn"
                 /\ \A m \in messages' : m.session # s
              \/ /\ sessions'[s].status = "unborn" <=> sessions[s].status = "unborn"
                 /\ sessions'[s].status = "gone" <=> sessions[s].status = "gone"
                 /\ sessions'[s].agent = sessions[s].agent
              \/ /\ sessions[s].status = "unborn"
                 /\ \E a \in agents : CreateSession(s, a)
<1>1. sessions \in [Sessions -> SessionRow] /\ turns \in [Turns -> TurnRow]
  BY Types DEF IInv
<1> DEFINE Kept == /\ sessions' \in [Sessions -> SessionRow]
                   /\ \A s \in Sessions :
                        /\ sessions'[s].status = "unborn" <=> sessions[s].status = "unborn"
                        /\ sessions'[s].status = "gone" <=> sessions[s].status = "gone"
                        /\ sessions'[s].agent = sessions[s].agent
<1>2. CASE UNCHANGED sessions
  BY <1>1, <1>2
<1>3. ASSUME NEW s \in Sessions, NEW a \in Agents, CreateSession(s, a)
      PROVE  /\ sessions' \in [Sessions -> SessionRow]
             /\ \A r \in Sessions : r # s => sessions'[r] = sessions[r]
             /\ sessions[s].status = "unborn" /\ a \in agents
  BY <1>1, <1>3 DEF CreateSession, SessionRow
<1>4. ASSUME NEW s \in Sessions, NEW row \in SessionRow, sessions' = Touch(s, row),
             Live(s) => row.status \notin {"unborn", "gone"} /\ row.agent = sessions[s].agent
      PROVE  Kept
  <2>1. [row EXCEPT !.old = FALSE].status = row.status
        /\ [row EXCEPT !.old = FALSE].agent = row.agent
    BY DEF SessionRow
  <2>2. /\ Touch(s, row) \in [Sessions -> SessionRow]
        /\ \A r \in Sessions :
             Touch(s, row)[r] = IF r = s /\ Live(s) THEN [row EXCEPT !.old = FALSE]
                                ELSE sessions[r]
    BY <1>1, TouchFact
  <2>3. \A r \in Sessions : sessions'[r] = sessions[r] \/ (r = s /\ Live(s))
    BY <1>4, <2>2
  <2>4. Live(s) => /\ sessions'[s].status = row.status
                   /\ sessions'[s].agent = sessions[s].agent
    BY <1>4, <2>1, <2>2
  <2>5. QED
    BY <1>4, <2>2, <2>3, <2>4 DEF Live
<1>5. ASSUME NEW s \in Sessions, NEW status \in {"paused", "active", "completed"},
             SetStatus(s, status)
      PROVE  Kept
  <2>1. [sessions[s] EXCEPT !.status = status] \in SessionRow
        /\ [sessions[s] EXCEPT !.status = status].status = status
        /\ [sessions[s] EXCEPT !.status = status].agent = sessions[s].agent
    BY <1>1 DEF SessionRow
  <2>2. QED
    BY <1>4, <1>5, <2>1 DEF SetStatus
<1>6. ASSUME NEW s \in Sessions, Age(s) PROVE Kept
  <2>1. /\ [sessions[s] EXCEPT !.old = TRUE] \in SessionRow
        /\ [sessions[s] EXCEPT !.old = TRUE].status = sessions[s].status
        /\ [sessions[s] EXCEPT !.old = TRUE].agent = sessions[s].agent
    BY <1>1 DEF SessionRow
  <2>2. sessions' = [sessions EXCEPT ![s] = [sessions[s] EXCEPT !.old = TRUE]]
    BY <1>6 DEF Age
  <2>3. QED
    BY <1>1, <2>1, <2>2
<1>7. ASSUME NEW status \in {"paused", "completed"}, Expire(status) PROVE Kept
  <2>1. \A s \in Sessions :
          /\ [sessions[s] EXCEPT !.status = "archived", !.old = FALSE] \in SessionRow
          /\ [sessions[s] EXCEPT !.status = "archived", !.old = FALSE].status = "archived"
          /\ [sessions[s] EXCEPT !.status = "archived", !.old = FALSE].agent = sessions[s].agent
    BY <1>1 DEF SessionRow
  <2>2. sessions' = [s \in Sessions |->
          IF sessions[s].status = status /\ sessions[s].old
          THEN [sessions[s] EXCEPT !.status = "archived", !.old = FALSE] ELSE sessions[s]]
    BY <1>7 DEF Expire
  <2>3. QED
    BY <1>1, <2>1, <2>2
<1>8. ASSUME NEW S, Remove(S), \A s \in Sessions \cap S : Live(s)
      PROVE  /\ sessions' \in [Sessions -> SessionRow]
             /\ \A s \in Sessions :
                  IF s \in S THEN /\ sessions'[s].status = "gone" /\ sessions[s].status # "unborn"
                                  /\ \A m \in messages' : m.session # s
                  ELSE /\ sessions'[s].status = sessions[s].status
                       /\ sessions'[s].agent = sessions[s].agent
  BY <1>1, <1>8, GoneFact DEF Remove, Live
<1>9. ASSUME NEW t \in Turns, Title(t) \/ TrackUsage(t) PROVE Kept
  <2>1. turns[t].session \in Sessions /\ sessions[turns[t].session] \in SessionRow
    BY <1>9, ActiveFact DEF Title, TrackUsage
  <2>2. CASE Title(t)
    BY <1>1, <1>4, <2>1, <2>2 DEF Title, Live
  <2>3. CASE TrackUsage(t)
    <3>1. /\ Counted(turns[t].session) \in SessionRow
          /\ Counted(turns[t].session).status = sessions[turns[t].session].status
          /\ Counted(turns[t].session).agent = sessions[turns[t].session].agent
      BY <1>1, <2>1, CountedFact
    <3>2. QED
      BY <1>4, <2>1, <2>3, <3>1 DEF TrackUsage, Live
  <2>4. QED
    BY <1>9, <2>2, <2>3
<1>10. CASE \E s \in Sessions : SessionOp(s)
  <2>1. PICK s \in Sessions : SessionOp(s)
    BY <1>10
  <2>2. CASE \E a \in Agents : CreateSession(s, a)
    BY <1>1, <1>3, <2>2
  <2>3. CASE DeleteSession(s)
    BY <1>8, <2>3 DEF DeleteSession
  <2>4. QED
    BY <1>5, <1>6, <2>1, <2>2, <2>3 DEF SessionOp
<1>11. CASE \E a \in Agents : DeleteAgent(a)
  BY <1>8, <1>11 DEF DeleteAgent
<1>12. CASE \E t \in Turns : ProcessMessage(t) \/ \E s \in Sessions : Send(t, s)
  BY <1>2, <1>9, <1>12 DEF ProcessMessage, ReadSession, ReadAgent, Admit, ChatReplies,
    ChatFails, IterationsUsedUp, Track, RunTools, SaveMessages, Send, tables
<1>13. CASE Tick \/ Jam \/ Restart \/ UNCHANGED vars
  BY <1>2, <1>13 DEF Tick, Jam, Restart, vars, tables
<1>14. QED
  BY <1>7, <1>10, <1>11, <1>12, <1>13 DEF Next

-----------------------------------------------------------------------------
(***************************************************************************)
(* What a step does to the turns.                                          *)
(***************************************************************************)
\* A step of a turn t, other than its beginning.
Kept(t) ==
  /\ turns' \in [Turns -> TurnRow]
  /\ turns[t].pc # "idle" /\ turns'[t].session = turns[t].session
  /\ turns'[t].pc \in {"track", "usage", "tools"} => turns'[t].iter < MaxIter
  /\ turns'[t].pc = "answer" => turns[t].pc = "question"
  /\ \A u \in Turns : u # t => turns'[u] = turns[u]

LEMMA ProcessFact ==
  ASSUME IInv, NEW t \in Turns, ProcessMessage(t)
  PROVE  Kept(t)
<1>1. /\ sessions \in [Sessions -> SessionRow] /\ turns \in [Turns -> TurnRow]
      /\ turns[t] \in TurnRow
  BY Types DEF IInv
<1>2. turns[t].pc \in {"track", "usage", "tools"} => turns[t].iter < MaxIter
  BY DEF IInv, TurnInv
<1>3. turns[t].iter \in 0..MaxIter /\ MaxIter \in Nat
  BY <1>1, ConversationAssumption DEF TurnRow
<1>4. ASSUME NEW place \in {"agent", "limit", "title", "chat", "usage", "tools", "waiting",
                            "question", "answer"} \cup Ended,
             Goto(t, place), turns[t].pc # "idle",
             place \in {"usage", "tools"} => turns[t].pc \in {"track", "usage", "tools"},
             place = "answer" => turns[t].pc = "question"
      PROVE  Kept(t)
  BY <1>1, <1>2, <1>4, GotoFact DEF Kept, Ended
<1>5. CASE ReadSession(t)
  <2>1. turns[t].pc = "session"
    BY <1>5 DEF ReadSession
  <2>2. turns[t].session \in Sessions /\ sessions[turns[t].session].agent \in Agents \cup {""}
    BY <1>1, <2>1, ActiveFact DEF SessionRow
  <2>3. PICK row : /\ turns' = [turns EXCEPT ![t] = row]
                   /\ \/ row = [turns[t] EXCEPT !.pc = "agent",
                                                !.agent = sessions[turns[t].session].agent]
                      \/ row = [turns[t] EXCEPT !.pc = "refused"]
    BY <1>5 DEF ReadSession
  <2>4. row \in TurnRow /\ row.session = turns[t].session /\ row.pc \in {"agent", "refused"}
    BY <1>1, <2>2, <2>3 DEF TurnRow, Ended
  <2>5. QED
    BY <1>1, <2>1, <2>3, <2>4 DEF Kept
<1>6. CASE ReadAgent(t)
  BY <1>4, <1>6 DEF ReadAgent, Ended
<1>7. CASE Admit(t)
  <2>1. Goto(t, "refused") \/ Goto(t, "title")
    BY <1>7 DEF Admit
  <2>2. turns[t].pc = "limit"
    BY <1>7 DEF Admit
  <2>3. QED
    BY <1>4, <2>1, <2>2 DEF Ended
<1>8. CASE Title(t)
  <2>1. turns[t].pc = "title" /\ (Goto(t, "chat") \/ Goto(t, "refused"))
    BY <1>8 DEF Title
  <2>2. QED
    BY <1>4, <2>1 DEF Ended
<1>9. CASE ChatReplies(t)
  <2>1. turns[t].pc = "chat" /\ turns[t].iter < MaxIter
    BY <1>9 DEF ChatReplies, MayChat
  <2>2. PICK tools \in BOOLEAN : turns' = [turns EXCEPT ![t].pc = "track", ![t].tools = tools]
    BY <1>9 DEF ChatReplies
  <2>3. turns' = [turns EXCEPT ![t] = [turns[t] EXCEPT !.pc = "track", !.tools = tools]]
    BY <1>1, <2>2
  <2>4. /\ [turns[t] EXCEPT !.pc = "track", !.tools = tools] \in TurnRow
        /\ [turns[t] EXCEPT !.pc = "track", !.tools = tools].session = turns[t].session
        /\ [turns[t] EXCEPT !.pc = "track", !.tools = tools].iter = turns[t].iter
        /\ [turns[t] EXCEPT !.pc = "track", !.tools = tools].pc = "track"
    BY <1>1 DEF TurnRow
  <2>5. QED
    BY <1>1, <2>1, <2>3, <2>4 DEF Kept
<1>10. CASE ChatFails(t) \/ IterationsUsedUp(t)
  BY <1>4, <1>10 DEF ChatFails, IterationsUsedUp, Ended
<1>11. CASE Track(t)
  BY <1>4, <1>11 DEF Track, Ended
<1>12. CASE TrackUsage(t)
  <2>1. turns[t].pc = "usage" /\ (Goto(t, "tools") \/ Goto(t, "question"))
    BY <1>12 DEF TrackUsage
  <2>2. QED
    BY <1>4, <2>1 DEF Ended
<1>13. CASE RunTools(t)
  <2>1. turns[t].pc = "tools" /\ turns[t].iter < MaxIter
    BY <1>2, <1>13 DEF RunTools
  <2>2. turns[t].iter + 1 \in 0..MaxIter
    BY <1>3, <2>1
  <2>3. PICK n \in 0..MaxIter : n = turns[t].iter + 1
    BY <2>2
  <2>4. CASE turns' = [turns EXCEPT ![t].pc = "chat", ![t].iter = @ + 1]
    <3>1. turns' = [turns EXCEPT ![t] = [turns[t] EXCEPT !.pc = "chat", !.iter = n]]
      BY <1>1, <2>3, <2>4
    <3>2. /\ [turns[t] EXCEPT !.pc = "chat", !.iter = n] \in TurnRow
          /\ [turns[t] EXCEPT !.pc = "chat", !.iter = n].session = turns[t].session
          /\ [turns[t] EXCEPT !.pc = "chat", !.iter = n].pc = "chat"
      BY <1>1 DEF TurnRow
    <3>3. QED
      BY <1>1, <2>1, <3>1, <3>2 DEF Kept
  <2>5. CASE Goto(t, "waiting") \/ Goto(t, "lost")
    BY <1>4, <2>1, <2>5 DEF Ended
  <2>6. QED
    BY <1>13, <2>4, <2>5 DEF RunTools
<1>14. CASE SaveMessages(t)
  <2>1. \/ turns[t].pc = "question" /\ Goto(t, "answer")
        \/ turns[t].pc = "answer" /\ Goto(t, "answered")
    BY <1>14 DEF SaveMessages
  <2>2. QED
    BY <1>4, <2>1 DEF Ended
<1>15. QED
  BY <1>5, <1>6, <1>7, <1>8, <1>9, <1>10, <1>11, <1>12, <1>13, <1>14 DEF ProcessMessage

LEMMA SendFact ==
  ASSUME IInv, NEW t \in Turns, NEW s \in Sessions, Send(t, s)
  PROVE  /\ turns' \in [Turns -> TurnRow]
         /\ turns'[t] = NewTurn(s) /\ turns[t].pc = "idle"
         /\ sessions[s].status # "unborn"
         /\ \A u \in Turns : u # t => turns'[u] = turns[u]
<1>1. NewTurn(s) \in TurnRow
  <2>1. 0 \in 0..MaxIter
    BY ConversationAssumption
  <2>2. QED
    BY <2>1 DEF NewTurn, TurnRow
<1>2. turns \in [Turns -> TurnRow]
  BY Types DEF IInv
<1>3. QED
  BY <1>1, <1>2 DEF Send

LEMMA RestartFact ==
  ASSUME IInv, Restart
  PROVE  /\ turns' \in [Turns -> TurnRow]
         /\ \A t \in Turns :
              /\ turns'[t].session = turns[t].session
              /\ turns'[t].pc \in Ended \cup {"idle"}
              /\ turns'[t].pc = "idle" <=> turns[t].pc = "idle"
<1>1. turns \in [Turns -> TurnRow]
  BY Types DEF IInv
<1>2. \A t \in Turns :
        /\ [turns[t] EXCEPT !.pc = "lost"] \in TurnRow
        /\ [turns[t] EXCEPT !.pc = "lost"].pc = "lost"
        /\ [turns[t] EXCEPT !.pc = "lost"].session = turns[t].session
  BY <1>1 DEF TurnRow, Ended
<1>3. QED
  BY <1>1, <1>2 DEF Restart, Ended

\* Every other step leaves the turns alone.
LEMMA TurnCases ==
  ASSUME [Next]_vars
  PROVE  \/ UNCHANGED turns
         \/ \E t \in Turns : ProcessMessage(t)
         \/ \E t \in Turns, s \in Sessions : Send(t, s)
         \/ Restart
BY DEF Next, vars, SessionOp, CreateSession, SetStatus, DeleteSession, DeleteAgent, Age,
       Expire, Tick, Jam

LEMMA TurnStep == IInv /\ [Next]_vars => turns' \in [Turns -> TurnRow] /\ TurnInv'
<1> SUFFICES ASSUME IInv, [Next]_vars PROVE turns' \in [Turns -> TurnRow] /\ TurnInv'
  OBVIOUS
<1>1. turns \in [Turns -> TurnRow] /\ TurnInv
  BY Types DEF IInv
<1>2. \A s \in Sessions : sessions[s].status # "unborn" => sessions'[s].status # "unborn"
  BY RowsFact
<1>3. CASE UNCHANGED turns
  BY <1>1, <1>2, <1>3 DEF TurnInv
<1>4. ASSUME NEW t \in Turns, ProcessMessage(t)
      PROVE  turns' \in [Turns -> TurnRow] /\ TurnInv'
  BY <1>1, <1>2, <1>4, ProcessFact DEF TurnInv, Kept
<1>5. ASSUME NEW t \in Turns, NEW s \in Sessions, Send(t, s)
      PROVE  turns' \in [Turns -> TurnRow] /\ TurnInv'
  <2>1. /\ turns' \in [Turns -> TurnRow]
        /\ turns'[t].pc = "session" /\ turns'[t].session = s
        /\ sessions'[s].status # "unborn"
        /\ \A u \in Turns : u # t => turns'[u] = turns[u]
    <3>1. /\ turns' \in [Turns -> TurnRow] /\ turns'[t] = NewTurn(s)
          /\ sessions[s].status # "unborn"
          /\ \A u \in Turns : u # t => turns'[u] = turns[u]
      BY <1>5, SendFact
    <3>2. turns'[t].pc = "session" /\ turns'[t].session = s
      <4>1. NewTurn(s).pc = "session" /\ NewTurn(s).session = s
        BY DEF NewTurn
      <4>2. QED
        BY <3>1, <4>1
    <3>3. sessions'[s].status # "unborn"
      BY <1>2, <3>1
    <3>4. QED
      BY <3>1, <3>2, <3>3
  <2>2. QED
    BY <1>1, <1>2, <2>1 DEF TurnInv
<1>6. CASE Restart
  BY <1>1, <1>2, <1>6, RestartFact DEF TurnInv, Ended
<1>7. QED
  BY <1>3, <1>4, <1>5, <1>6, TurnCases

-----------------------------------------------------------------------------
(***************************************************************************)
(* What a step does to the messages, the limiter and the tracker.          *)
(***************************************************************************)
Roles == {"user", "assistant"}

\* A message is stored by a step of its turn in a live session, or it is of a
\* session that is being deleted.
LEMMA MessagesFact ==
  ASSUME IInv, [Next]_vars
  PROVE  \/ messages' = messages
         \/ \E t \in Turns :
              /\ SaveMessages(t) /\ Live(turns[t].session)
              /\ \E role \in Roles :
                   /\ role = IF turns[t].pc = "question" THEN "user" ELSE "assistant"
                   /\ messages' = messages \cup
                        {[session |-> turns[t].session, turn |-> t, role |-> role]}
         \/ \E S : Remove(S)
<1>1. CASE UNCHANGED vars
  BY <1>1 DEF vars
<1>2. CASE \E s \in Sessions : SessionOp(s)
  BY <1>2 DEF SessionOp, CreateSession, SetStatus, DeleteSession, Age
<1>3. CASE \E a \in Agents : DeleteAgent(a)
  BY <1>3 DEF DeleteAgent
<1>4. ASSUME NEW t \in Turns, ProcessMessage(t), messages' # messages
      PROVE  /\ SaveMessages(t) /\ Live(turns[t].session)
             /\ \E role \in Roles :
                  /\ role = IF turns[t].pc = "question" THEN "user" ELSE "assistant"
                  /\ messages' = messages \cup
                       {[session |-> turns[t].session, turn |-> t, role |-> role]}
  <2>1. SaveMessages(t)
    BY <1>4 DEF ProcessMessage, ReadSession, ReadAgent, Admit, Title, ChatReplies, ChatFails,
      IterationsUsedUp, Track, TrackUsage, RunTools, tables
  <2>2. QED
    BY <1>4, <2>1 DEF SaveMessages, Insert, Roles
<1>5. CASE \E t \in Turns, s \in Sessions : Send(t, s)
  BY <1>5 DEF Send, tables
<1>6. CASE Tick \/ Jam \/ Restart \/ \E status \in {"paused", "completed"} : Expire(status)
  BY <1>6 DEF Tick, Jam, Restart, Expire, tables
<1>7. QED
  BY <1>1, <1>2, <1>3, <1>4, <1>5, <1>6 DEF Next

LEMMA MessagesStep ==
  IInv /\ [Next]_vars => messages' \subseteq [session : Sessions, turn : Turns, role : Roles]
<1> SUFFICES ASSUME IInv, [Next]_vars
             PROVE  messages' \subseteq [session : Sessions, turn : Turns, role : Roles]
  OBVIOUS
<1>1. messages \subseteq [session : Sessions, turn : Turns, role : Roles]
  BY Types DEF IInv, Roles
<1>2. ASSUME NEW t \in Turns, SaveMessages(t) PROVE turns[t].session \in Sessions
  BY <1>2, ActiveFact DEF SaveMessages
<1>3. QED
  BY <1>1, <1>2, MessagesFact DEF Remove

\* The lock is jammed or not.
LEMMA JammedStep ==
  ASSUME jammed \in BOOLEAN, [Next]_vars
  PROVE  jammed' \in BOOLEAN
BY DEF Next, vars, SessionOp, CreateSession, SetStatus, DeleteSession, DeleteAgent, Age, Expire,
       ProcessMessage, ReadSession, ReadAgent, Admit, Title, ChatReplies, ChatFails,
       IterationsUsedUp, Track, TrackUsage, RunTools, SaveMessages, Send, Tick, Jam, Restart,
       world

\* What the limiter and the tracker keep is of their types.
LEMMA MemoryStep ==
  IInv /\ [Next]_vars => /\ agents' \subseteq Agents
                         /\ limiter' \in [Agents -> SUBSET Admissions]
                         /\ admitted' \in [Agents -> SUBSET Admissions]
                         /\ tracker' \in [Sessions -> Nat]
                         /\ clock' \in Nat /\ boots' \in Nat
<1> SUFFICES ASSUME IInv, [Next]_vars
             PROVE  /\ agents' \subseteq Agents
                    /\ limiter' \in [Agents -> SUBSET Admissions]
                    /\ admitted' \in [Agents -> SUBSET Admissions]
                    /\ tracker' \in [Sessions -> Nat]
                    /\ clock' \in Nat /\ boots' \in Nat
  OBVIOUS
<1>1. /\ agents \subseteq Agents
      /\ limiter \in [Agents -> SUBSET Admissions]
      /\ admitted \in [Agents -> SUBSET Admissions]
      /\ tracker \in [Sessions -> Nat]
      /\ clock \in Nat /\ boots \in Nat
  BY Types DEF IInv
<1>2. CASE UNCHANGED vars
  BY <1>1, <1>2 DEF vars
<1>3. CASE \E s \in Sessions : SessionOp(s)
  BY <1>1, <1>3 DEF SessionOp, CreateSession, SetStatus, DeleteSession, Age, memory, world
<1>4. CASE \E a \in Agents : DeleteAgent(a)
  BY <1>1, <1>4 DEF DeleteAgent, memory, world
<1>5. ASSUME NEW t \in Turns, Admit(t)
      PROVE  /\ limiter' \in [Agents -> SUBSET Admissions]
             /\ admitted' \in [Agents -> SUBSET Admissions]
  <2>1. PICK new \in SUBSET Admissions :
          /\ limiter' = [limiter EXCEPT ![turns[t].agent] = Recent(turns[t].agent) \cup new]
          /\ admitted' = [admitted EXCEPT ![turns[t].agent] = admitted[turns[t].agent] \cup new]
    <3>1. {[turn |-> t, at |-> clock]} \in SUBSET Admissions
      BY <1>1 DEF Admissions
    <3>2. QED
      BY <1>5, <3>1 DEF Admit
  <2>2. turns[t].agent \in Agents => Recent(turns[t].agent) \subseteq Admissions
    BY <1>1 DEF Recent
  <2>3. QED
    BY <1>1, <2>1, <2>2
<1>6. ASSUME NEW t \in Turns, ProcessMessage(t)
      PROVE  /\ limiter' \in [Agents -> SUBSET Admissions]
             /\ admitted' \in [Agents -> SUBSET Admissions]
             /\ tracker' \in [Sessions -> Nat]
             /\ UNCHANGED <<agents, clock, boots>>
  <2>1. CASE Track(t)
    <3>1. \A s \in Sessions : tracker[s] + 1 \in Nat
      BY <1>1
    <3>2. tracker' \in [Sessions -> Nat]
      BY <1>1, <2>1, <3>1 DEF Track
    <3>3. QED
      BY <1>1, <2>1, <3>2 DEF Track, tables, world
  <2>2. CASE Admit(t)
    BY <1>1, <1>5, <2>2 DEF Admit, tables, world
  <2>3. QED
    BY <1>1, <1>6, <2>1, <2>2 DEF ProcessMessage, ReadSession, ReadAgent, Title, ChatReplies,
      ChatFails, IterationsUsedUp, TrackUsage, RunTools, SaveMessages, tables, memory, world
<1>7. CASE \E t \in Turns, s \in Sessions : Send(t, s)
  BY <1>1, <1>7 DEF Send, tables, memory, world
<1>8. CASE \E status \in {"paused", "completed"} : Expire(status)
  BY <1>1, <1>8 DEF Expire, memory, world
<1>9. CASE Tick \/ Jam
  BY <1>1, <1>9 DEF Tick, Jam, tables, memory
<1>10. CASE Restart
  <2>1. /\ limiter' \in [Agents -> SUBSET Admissions]
        /\ admitted' \in [Agents -> SUBSET Admissions]
        /\ tracker' \in [Sessions -> Nat]
    BY <1>10 DEF Restart
  <2>2. QED
    BY <1>1, <1>10, <2>1 DEF Restart, tables
<1>11. QED
  BY <1>1, <1>2, <1>3, <1>4, <1>6, <1>7, <1>8, <1>9, <1>10 DEF Next

-----------------------------------------------------------------------------
(***************************************************************************)
(* The invariant.                                                          *)
(***************************************************************************)
\* A session that is live after a step was so before, or is new.
LEMMA LiveFact ==
  ASSUME IInv, [Next]_vars, NEW s \in Sessions, Live(s)'
  PROVE  \/ Live(s) /\ sessions'[s].agent = sessions[s].agent
         \/ sessions[s].status = "unborn" /\ \E a \in agents : CreateSession(s, a)
BY RowsFact DEF Live

\* A message stays as long as its session does.
LEMMA MessageKept ==
  ASSUME IInv, [Next]_vars, NEW m \in messages, Live(m.session)'
  PROVE  m \in messages'
<1>1. m.session \in Sessions /\ sessions \in [Sessions -> SessionRow]
  BY Types DEF IInv
<1>2. CASE messages \subseteq messages'
  BY <1>2
<1>3. ASSUME NEW S, Remove(S) PROVE m \in messages'
  BY <1>1, <1>3, GoneFact DEF Remove, Live
<1>4. QED
  BY <1>2, <1>3, MessagesFact

\* An agent's row goes with the sessions of the agent.
LEMMA AgentsFact ==
  ASSUME [Next]_vars
  PROVE  agents' = agents \/ \E a \in Agents : DeleteAgent(a)
BY DEF Next, vars, SessionOp, CreateSession, SetStatus, DeleteSession, Age, Expire,
       ProcessMessage, ReadSession, ReadAgent, Admit, Title, ChatReplies, ChatFails,
       IterationsUsedUp, Track, TrackUsage, RunTools, SaveMessages, Send, Tick, Jam,
       Restart, tables

LEMMA TrackerFact ==
  ASSUME [Next]_vars
  PROVE  \/ tracker' = tracker
         \/ \E t \in Turns : Track(t)
         \/ Restart
BY DEF Next, vars, SessionOp, CreateSession, SetStatus, DeleteSession, DeleteAgent, Age, Expire,
       ProcessMessage, ReadSession, ReadAgent, Admit, Title, ChatReplies, ChatFails,
       IterationsUsedUp, TrackUsage, RunTools, SaveMessages, Send, Tick, Jam, memory

LEMMA SessionStep == IInv /\ [Next]_vars => SessionInv'
<1> SUFFICES ASSUME IInv, [Next]_vars, NEW s \in Sessions
             PROVE  /\ Live(s)' => sessions'[s].agent \in agents'
                    /\ sessions'[s].status = "unborn" => tracker'[s] = 0
  BY DEF SessionInv
<1>1. /\ sessions \in [Sessions -> SessionRow] /\ tracker \in [Sessions -> Nat]
      /\ SessionInv
  BY Types DEF IInv
<1>2. ASSUME Live(s)' PROVE sessions'[s].agent \in agents'
  <2>1. CASE agents' = agents
    <3>1. ASSUME NEW a \in agents, CreateSession(s, a) PROVE sessions'[s].agent = a
      BY <1>1, <3>1 DEF CreateSession
    <3>2. QED
      BY <1>1, <1>2, <2>1, <3>1, LiveFact DEF SessionInv
  <2>2. ASSUME NEW a \in Agents, DeleteAgent(a) PROVE sessions'[s].agent \in agents'
    <3>1. /\ agents' = agents \ {a}
          /\ sessions' = Gone({r \in Sessions : Live(r) /\ sessions[r].agent = a})
      BY <2>2 DEF DeleteAgent, Remove
    <3>2. ~(Live(s) /\ sessions[s].agent = a) /\ Live(s) /\ sessions'[s].agent = sessions[s].agent
      BY <1>1, <1>2, <3>1, GoneFact DEF Live
    <3>3. QED
      BY <1>1, <3>1, <3>2 DEF SessionInv
  <2>3. QED
    BY <2>1, <2>2, AgentsFact
<1>3. ASSUME sessions'[s].status = "unborn" PROVE tracker'[s] = 0
  <2>1. sessions[s].status = "unborn"
    <3>1. ASSUME NEW a \in agents, CreateSession(s, a) PROVE FALSE
      BY <1>1, <1>3, <3>1 DEF CreateSession
    <3>2. QED
      BY <1>3, <3>1, RowsFact
  <2>2. tracker[s] = 0
    BY <1>1, <2>1 DEF SessionInv
  <2>3. ASSUME NEW t \in Turns, Track(t) PROVE tracker'[s] = tracker[s]
    <3>1. turns[t].session # s
      BY <2>1, <2>3, ActiveFact DEF Track
    <3>2. QED
      BY <1>1, <2>3, <3>1 DEF Track
  <2>4. CASE Restart
    BY <2>4 DEF Restart
  <2>5. QED
    BY <2>2, <2>3, <2>4, TrackerFact
<1>4. QED
  BY <1>2, <1>3

LEMMA QuestionStep == IInv /\ [Next]_vars => QuestionInv'
<1> SUFFICES ASSUME IInv, [Next]_vars, NEW t \in Turns,
                    turns'[t].pc = "answer",
                    sessions'[turns'[t].session].status \notin {"unborn", "gone"}
             PROVE  [session |-> turns'[t].session, turn |-> t, role |-> "user"] \in messages'
  BY DEF QuestionInv, Live
<1>1. turns \in [Turns -> TurnRow] /\ TurnInv /\ QuestionInv
  BY Types DEF IInv
<1>2. CASE turns'[t] = turns[t]
  <2>1. PICK s \in Sessions : s = turns[t].session /\ sessions[s].status # "unborn"
    BY <1>2, ActiveFact
  <2>2. Live(s)'
    BY <1>2, <2>1 DEF Live
  <2>3. Live(s)
    BY <2>1, <2>2, LiveFact
  <2>4. PICK m \in messages : m = [session |-> s, turn |-> t, role |-> "user"]
    BY <1>1, <1>2, <2>1, <2>3 DEF QuestionInv
  <2>5. m.session = s
    BY <2>4
  <2>6. Live(m.session)'
    BY <2>2, <2>5
  <2>7. m \in messages'
    BY <2>6, MessageKept
  <2>8. QED
    BY <1>2, <2>1, <2>4, <2>7
<1>3. CASE turns'[t] # turns[t]
  <2>1. PICK u \in Turns : ProcessMessage(u)
    <3>1. ASSUME NEW u \in Turns, NEW s \in Sessions, Send(u, s) PROVE FALSE
      <4>1. turns'[u] = NewTurn(s) /\ \A v \in Turns : v # u => turns'[v] = turns[v]
        BY <3>1, SendFact
      <4>2. turns'[u].pc = "session"
        <5>1. NewTurn(s).pc = "session"
          BY DEF NewTurn
        <5>2. QED
          BY <4>1, <5>1
      <4>3. QED
        BY <1>3, <4>1, <4>2
    <3>2. ~Restart
      BY RestartFact DEF Ended
    <3>3. QED
      BY <1>3, <3>1, <3>2, TurnCases
  <2>2. u = t /\ turns[t].pc = "question" /\ turns'[t].session = turns[t].session
    BY <1>3, <2>1, ProcessFact DEF Kept
  <2>3. SaveMessages(t)
    BY <2>1, <2>2 DEF ProcessMessage, ReadSession, ReadAgent, Admit, Title, ChatReplies,
      ChatFails, IterationsUsedUp, Track, TrackUsage, RunTools
  <2>4. sessions' = sessions
    BY <2>3 DEF SaveMessages
  <2>5. Live(turns[t].session)
    <3>1. sessions'[turns[t].session].status \notin {"unborn", "gone"}
      BY <2>2
    <3>2. QED
      BY <2>4, <3>1 DEF Live
  <2>6. QED
    BY <2>2, <2>3, <2>5 DEF SaveMessages, Insert
<1>4. QED
  BY <1>2, <1>3

LEMMA HistoryStep == IInv /\ [Next]_vars => HistoryIsWhole'
<1> SUFFICES ASSUME IInv, [Next]_vars, NEW m \in messages'
             PROVE  /\ sessions'[m.session].status \notin {"unborn", "gone"}
                    /\ sessions'[m.session].agent \in agents'
                    /\ m.role = "assistant" => [m EXCEPT !.role = "user"] \in messages'
  BY DEF HistoryIsWhole, Live
<1>1. /\ m \in [session : Sessions, turn : Turns, role : Roles]
      /\ messages \subseteq [session : Sessions, turn : Turns, role : Roles]
      /\ HistoryIsWhole
  BY Types, MessagesStep DEF IInv, Roles
<1>2. ASSUME sessions'[m.session].status \notin {"unborn", "gone"}
      PROVE  sessions'[m.session].agent \in agents'
  BY <1>1, <1>2, SessionStep DEF SessionInv, Live
<1>3. CASE m \in messages
  <2>1. sessions'[m.session].status \notin {"unborn", "gone"}
    BY <1>1, <1>3, RowsFact DEF HistoryIsWhole, Live
  <2>2. ASSUME m.role = "assistant" PROVE [m EXCEPT !.role = "user"] \in messages'
    <3>1. PICK q \in messages : q = [m EXCEPT !.role = "user"]
      BY <1>1, <1>3, <2>2 DEF HistoryIsWhole
    <3>2. q.session = m.session
      BY <1>1, <3>1
    <3>3. Live(q.session)'
      BY <2>1, <3>2 DEF Live
    <3>4. QED
      BY <3>1, <3>3, MessageKept
  <2>3. QED
    BY <1>2, <2>1, <2>2
<1>4. CASE m \notin messages
  <2>1. PICK t \in Turns, role \in Roles :
          /\ SaveMessages(t) /\ Live(turns[t].session)
          /\ role = IF turns[t].pc = "question" THEN "user" ELSE "assistant"
          /\ messages' = messages \cup
               {[session |-> turns[t].session, turn |-> t, role |-> role]}
    BY <1>4, MessagesFact DEF Remove
  <2>2. m = [session |-> turns[t].session, turn |-> t, role |-> role]
    BY <1>4, <2>1
  <2>3. sessions'[m.session].status \notin {"unborn", "gone"}
    BY <2>1, <2>2 DEF SaveMessages, Live
  <2>4. ASSUME m.role = "assistant" PROVE [m EXCEPT !.role = "user"] \in messages'
    <3>1. turns[t].pc = "answer"
      BY <2>1, <2>2, <2>4 DEF SaveMessages
    <3>2. [session |-> turns[t].session, turn |-> t, role |-> "user"] \in messages
      BY <2>1, <3>1 DEF IInv, QuestionInv
    <3>3. [m EXCEPT !.role = "user"] = [session |-> turns[t].session, turn |-> t, role |-> "user"]
      BY <2>2
    <3>4. QED
      BY <2>1, <3>2, <3>3
  <2>5. QED
    BY <1>2, <2>3, <2>4
<1>5. QED
  BY <1>3, <1>4

LEMMA SpecInv == Spec => []IInv
<1>1. IInv /\ [Next]_vars => TypeOK'
  <2> SUFFICES ASSUME IInv, [Next]_vars PROVE TypeOK'
    OBVIOUS
  <2>1. sessions' \in [Sessions -> SessionRow] /\ turns' \in [Turns -> TurnRow]
    BY RowsFact, TurnStep
  <2>2. jammed' \in BOOLEAN
    BY JammedStep DEF IInv, TypeOK
  <2>3. QED
    BY <2>1, <2>2, MessagesStep, MemoryStep DEF TypeOK, SessionRow, TurnRow, Admissions,
      Roles, Ended
<1>2. IInv /\ [Next]_vars => IInv'
  BY <1>1, TurnStep, SessionStep, QuestionStep, HistoryStep DEF IInv
<1>3. QED
  BY InitInv, <1>2, PTL DEF Spec

-----------------------------------------------------------------------------
(***************************************************************************)
(* Admissions.                                                             *)
(***************************************************************************)
\* What the limiter has dropped is older than the window.
RateInv ==
  \A a \in Agents :
    /\ IsFiniteSet(admitted[a])
    /\ limiter[a] \subseteq admitted[a]
    /\ \A m \in admitted[a] : m.at <= clock
    /\ \A m \in admitted[a] : m.at > clock - Window => m \in limiter[a]
    /\ \A now \in 0..clock :
         Cardinality({m \in admitted[a] : m.at \in now - Window + 1 .. now}) <= Limit

LEMMA AdmissionCases ==
  ASSUME [Next]_vars
  PROVE  \/ UNCHANGED <<limiter, admitted, clock>>
         \/ \E t \in Turns : Admit(t)
         \/ Tick
         \/ Restart
BY DEF Next, vars, SessionOp, CreateSession, SetStatus, DeleteSession, DeleteAgent, Age, Expire,
       ProcessMessage, ReadSession, ReadAgent, Title, ChatReplies, ChatFails,
       IterationsUsedUp, Track, TrackUsage, RunTools, SaveMessages, Send, Jam, memory, world

LEMMA RateInit == Init => RateInv
<1> SUFFICES ASSUME Init, NEW a \in Agents
             PROVE  admitted[a] = {} /\ limiter[a] = {} /\ clock = 0
                    /\ IsFiniteSet({}) /\ Cardinality({}) <= Limit
  BY DEF RateInv
<1>1. IsFiniteSet({}) /\ Cardinality({}) = 0 /\ Limit \in Nat
  BY FS_EmptySet, ConversationAssumption
<1>2. limiter[a] = {} /\ admitted[a] = {} /\ clock = 0
  BY DEF Init
<1>3. Cardinality({}) <= Limit
  BY <1>1
<1>4. QED
  BY <1>1, <1>2, <1>3

LEMMA RateAdmit ==
  ASSUME TypeOK, RateInv, NEW t \in Turns, Admit(t)
  PROVE  RateInv'
<1> SUFFICES ASSUME NEW a \in Agents
             PROVE  /\ IsFiniteSet(admitted'[a])
                    /\ limiter'[a] \subseteq admitted'[a]
                    /\ \A m \in admitted'[a] : m.at <= clock'
                    /\ \A m \in admitted'[a] : m.at > clock' - Window => m \in limiter'[a]
                    /\ \A now \in 0..clock' :
                         Cardinality({m \in admitted'[a] : m.at \in now - Window + 1 .. now})
                           <= Limit
  BY DEF RateInv
<1>1. /\ limiter \in [Agents -> SUBSET Admissions]
      /\ admitted \in [Agents -> SUBSET Admissions]
      /\ clock \in Nat /\ clock' = clock
      /\ Window \in Nat \ {0} /\ Limit \in Nat
  BY Types, ConversationAssumption DEF Admit, world
<1>2. /\ IsFiniteSet(admitted[a])
      /\ limiter[a] \subseteq admitted[a]
      /\ \A m \in admitted[a] : m.at <= clock /\ m.at \in Nat
      /\ \A m \in admitted[a] : m.at > clock - Window => m \in limiter[a]
      /\ \A now \in 0..clock :
           Cardinality({m \in admitted[a] : m.at \in now - Window + 1 .. now}) <= Limit
  BY <1>1 DEF RateInv, Admissions
<1>3. CASE a # turns[t].agent
  <2>1. limiter'[a] = limiter[a] /\ admitted'[a] = admitted[a]
    BY <1>1, <1>3 DEF Admit
  <2>2. QED
    BY <1>1, <1>2, <2>1
<1>4. CASE a = turns[t].agent
  <2> DEFINE x == [turn |-> t, at |-> clock]
  <2>1. \/ limiter'[a] = Recent(a) /\ admitted'[a] = admitted[a]
        \/ /\ Cardinality(Recent(a)) < Limit
           /\ limiter'[a] = Recent(a) \cup {x}
           /\ admitted'[a] = admitted[a] \cup {x}
    BY <1>1, <1>4 DEF Admit
  <2>2. \A m : m \in Recent(a) <=> m \in admitted[a] /\ m.at > clock - Window
    BY <1>2 DEF Recent
  <2>3. CASE limiter'[a] = Recent(a) /\ admitted'[a] = admitted[a]
    BY <1>1, <1>2, <2>2, <2>3
  <2>4. CASE /\ Cardinality(Recent(a)) < Limit
             /\ limiter'[a] = Recent(a) \cup {x}
             /\ admitted'[a] = admitted[a] \cup {x}
    <3>1. IsFiniteSet(admitted[a] \cup {x})
      BY <1>2, FS_AddElement
    <3>2. IsFiniteSet(Recent(a)) /\ Cardinality(Recent(a)) \in Nat
      <4>1. Recent(a) \subseteq admitted[a]
        BY <2>2
      <4>2. QED
        BY <1>2, <4>1, FS_Subset, FS_CardinalityType
    <3>3. Cardinality(Recent(a) \cup {x}) <= Limit
      <4>1. Cardinality(Recent(a) \cup {x}) \in {Cardinality(Recent(a)), Cardinality(Recent(a)) + 1}
        BY <3>2, FS_AddElement
      <4>2. QED
        BY <1>1, <2>4, <3>2, <4>1
    <3>4. x.at = clock
      OBVIOUS
    <3>5. ASSUME NEW now \in 0..clock
          PROVE  Cardinality({m \in admitted[a] \cup {x} : m.at \in now - Window + 1 .. now})
                   <= Limit
      <4>1. CASE now = clock
        <5>1. {m \in admitted[a] \cup {x} : m.at \in now - Window + 1 .. now}
                = Recent(a) \cup {x}
          <6> HIDE DEF x
          <6> QED
            BY <1>1, <1>2, <2>2, <3>4, <4>1
        <5>2. QED
          BY <3>3, <5>1
      <4>2. CASE now # clock
        <5>1. {m \in admitted[a] \cup {x} : m.at \in now - Window + 1 .. now}
                = {m \in admitted[a] : m.at \in now - Window + 1 .. now}
          <6> HIDE DEF x
          <6> QED
            BY <1>1, <3>4, <4>2
        <5>2. QED
          BY <1>2, <5>1
      <4>3. QED
        BY <4>1, <4>2
    <3>6. QED
      <4> HIDE DEF x
      <4> QED
        BY <1>1, <1>2, <2>2, <2>4, <3>1, <3>4, <3>5
  <2>5. QED
    BY <2>1, <2>3, <2>4
<1>5. QED
  BY <1>3, <1>4

LEMMA RateTick ==
  ASSUME TypeOK, RateInv, Tick
  PROVE  RateInv'
<1> SUFFICES ASSUME NEW a \in Agents
             PROVE  /\ IsFiniteSet(admitted'[a])
                    /\ limiter'[a] \subseteq admitted'[a]
                    /\ \A m \in admitted'[a] : m.at <= clock'
                    /\ \A m \in admitted'[a] : m.at > clock' - Window => m \in limiter'[a]
                    /\ \A now \in 0..clock' :
                         Cardinality({m \in admitted'[a] : m.at \in now - Window + 1 .. now})
                           <= Limit
  BY DEF RateInv
<1>1. /\ limiter' = limiter /\ admitted' = admitted
      /\ clock \in Nat /\ clock' = clock + 1
      /\ admitted \in [Agents -> SUBSET Admissions]
      /\ Window \in Nat \ {0} /\ Limit \in Nat
  BY Types, ConversationAssumption DEF Tick, memory
<1>2. /\ IsFiniteSet(admitted[a])
      /\ limiter[a] \subseteq admitted[a]
      /\ \A m \in admitted[a] : m.at <= clock /\ m.at \in Nat
      /\ \A m \in admitted[a] : m.at > clock - Window => m \in limiter[a]
      /\ \A now \in 0..clock :
           Cardinality({m \in admitted[a] : m.at \in now - Window + 1 .. now}) <= Limit
  BY <1>1 DEF RateInv, Admissions
<1>3. ASSUME NEW now \in 0..clock + 1
      PROVE  Cardinality({m \in admitted[a] : m.at \in now - Window + 1 .. now}) <= Limit
  <2>1. CASE now <= clock
    BY <1>1, <1>2, <2>1
  <2>2. CASE now = clock + 1
    <3> DEFINE S == {m \in admitted[a] : m.at \in now - Window + 1 .. now}
               T == {m \in admitted[a] : m.at \in clock - Window + 1 .. clock}
    <3>1. S \subseteq T /\ T \subseteq admitted[a]
      BY <1>1, <1>2, <2>2
    <3>2. IsFiniteSet(T)
      BY <1>2, <3>1, FS_Subset
    <3>3. Cardinality(S) <= Cardinality(T) /\ Cardinality(S) \in Nat /\ Cardinality(T) \in Nat
      <4> HIDE DEF S, T
      <4> QED
        BY <3>1, <3>2, FS_Subset, FS_CardinalityType
    <3>4. Cardinality(T) <= Limit
      <4>1. clock \in 0..clock
        BY <1>1
      <4>2. QED
        BY <1>2, <4>1
    <3>5. QED
      BY <1>1, <3>3, <3>4
  <2>3. QED
    BY <1>1, <2>1, <2>2
<1>4. QED
  BY <1>1, <1>2, <1>3

LEMMA RateStep == TypeOK /\ RateInv /\ [Next]_vars => RateInv'
<1> SUFFICES ASSUME TypeOK, RateInv, [Next]_vars PROVE RateInv'
  OBVIOUS
<1>1. CASE UNCHANGED <<limiter, admitted, clock>>
  BY <1>1 DEF RateInv
<1>2. ASSUME NEW t \in Turns, Admit(t) PROVE RateInv'
  BY <1>2, RateAdmit
<1>3. CASE Tick
  BY <1>3, RateTick
<1>4. CASE Restart
  <2>1. \A a \in Agents : limiter'[a] = {} /\ admitted'[a] = {}
    BY <1>4 DEF Restart
  <2>2. IsFiniteSet({}) /\ Cardinality({}) = 0 /\ Limit \in Nat
    BY FS_EmptySet, ConversationAssumption
  <2>3. \A a \in Agents : \A now : {m \in admitted'[a] : m.at \in now - Window + 1 .. now} = {}
    BY <2>1
  <2>4. Cardinality({}) <= Limit
    BY <2>2
  <2>5. ASSUME NEW a \in Agents
        PROVE  /\ IsFiniteSet(admitted'[a])
               /\ limiter'[a] \subseteq admitted'[a]
               /\ \A m \in admitted'[a] : m.at <= clock'
               /\ \A m \in admitted'[a] : m.at > clock' - Window => m \in limiter'[a]
               /\ \A now \in 0..clock' :
                    Cardinality({m \in admitted'[a] : m.at \in now - Window + 1 .. now}) <= Limit
    <3>1. limiter'[a] = {} /\ admitted'[a] = {}
      BY <2>1
    <3>2. \A now : Cardinality({m \in admitted'[a] : m.at \in now - Window + 1 .. now}) <= Limit
      BY <2>3, <2>4
    <3>3. QED
      BY <2>2, <3>1, <3>2
  <2>6. QED
    BY <2>5 DEF RateInv
<1>5. QED
  BY <1>1, <1>2, <1>3, <1>4, AdmissionCases

-----------------------------------------------------------------------------
(***************************************************************************)
(* Counting replies.                                                       *)
(***************************************************************************)
Answers(s) == {m \in messages : m.session = s /\ m.role = "assistant"}

\* The replies of s that were counted in its row and are still to be stored,
\* and those counted in the tracker only.
Pending(s) == At(s, {"question", "answer"})
Uncounted(s) == At(s, {"usage"})

CountInv ==
  \A s \in Sessions : Live(s) =>
    /\ Cardinality(Answers(s)) + Cardinality(Pending(s)) <= sessions[s].count
    /\ tracker[s] <= sessions[s].count + Cardinality(Uncounted(s))

\* A turn stores one answer, so the answers are no more than the turns.
LEMMA CountTypes ==
  ASSUME TypeOK, NEW s \in Sessions
  PROVE  /\ IsFiniteSet(Answers(s)) /\ Cardinality(Answers(s)) \in Nat
         /\ IsFiniteSet(Pending(s)) /\ Cardinality(Pending(s)) \in Nat
         /\ IsFiniteSet(Uncounted(s)) /\ Cardinality(Uncounted(s)) \in Nat
         /\ sessions[s].count \in Nat /\ tracker[s] \in Nat
<1> DEFINE answer(t) == [session |-> s, turn |-> t, role |-> "assistant"]
           Img == {answer(t) : t \in Turns}
<1>1. IsFiniteSet(Turns)
  BY ConversationAssumption
<1>2. IsFiniteSet(Img)
  <2>1. [t \in Turns |-> answer(t)] \in Surjection(Turns, Img)
    BY DEF Surjection
  <2>2. QED
    BY <1>1, <2>1, FS_Surjection
<1>3. Answers(s) \subseteq Img
  BY Types DEF Answers
<1>4. Pending(s) \subseteq Turns /\ Uncounted(s) \subseteq Turns
  BY DEF Pending, Uncounted, At
<1>5. sessions[s].count \in Nat /\ tracker[s] \in Nat
  BY Types DEF SessionRow
<1>6. IsFiniteSet(Answers(s)) /\ IsFiniteSet(Pending(s)) /\ IsFiniteSet(Uncounted(s))
  <2> HIDE DEF Img
  <2> QED
    BY <1>1, <1>2, <1>3, <1>4, FS_Subset
<1>7. QED
  BY <1>5, <1>6, FS_CardinalityType

\* A step of a turn moves that turn.
LEMMA AtFact ==
  ASSUME IInv, NEW t \in Turns, ProcessMessage(t), NEW s \in Sessions, NEW places
  PROVE  At(s, places)' = IF turns[t].session = s /\ turns'[t].pc \in places
                          THEN At(s, places) \cup {t} ELSE At(s, places) \ {t}
BY ProcessFact DEF At, Kept

\* The row's count goes up by the step that counts, and with a new row.
LEMMA CountsFact ==
  ASSUME IInv, [Next]_vars, NEW s \in Sessions, Live(s)
  PROVE  /\ sessions'[s].count \in {sessions[s].count, sessions[s].count + 1}
         /\ \A t \in Turns : TrackUsage(t) /\ turns[t].session = s =>
              sessions'[s].count = sessions[s].count + 1
<1>1. sessions \in [Sessions -> SessionRow]
  BY Types DEF IInv
<1>2. ASSUME NEW r \in Sessions, NEW row \in SessionRow, sessions' = Touch(r, row),
             row.count = sessions[r].count
      PROVE  sessions'[s].count = sessions[s].count
  <2>1. [row EXCEPT !.old = FALSE].count = row.count
    BY DEF SessionRow
  <2>2. \A q \in Sessions :
          Touch(r, row)[q] = IF q = r /\ Live(r) THEN [row EXCEPT !.old = FALSE] ELSE sessions[q]
    BY <1>1, TouchFact
  <2>3. sessions'[s] = IF s = r THEN [row EXCEPT !.old = FALSE] ELSE sessions[s]
    BY <1>2, <2>2
  <2>4. QED
    BY <1>2, <2>1, <2>3
<1>3. ASSUME NEW t \in Turns, TrackUsage(t)
      PROVE  IF turns[t].session = s THEN sessions'[s].count = sessions[s].count + 1
             ELSE sessions'[s].count = sessions[s].count
  <2>1. PICK r \in Sessions : r = turns[t].session
    BY <1>3, ActiveFact DEF TrackUsage
  <2>2. PICK row \in SessionRow : row = Counted(r) /\ row.count = sessions[r].count + 1
    BY <1>1, CountedFact
  <2>3. [row EXCEPT !.old = FALSE].count = row.count
    BY DEF SessionRow
  <2>4. sessions' = Touch(r, row)
    BY <1>3, <2>1, <2>2 DEF TrackUsage
  <2>5. \A q \in Sessions :
          Touch(r, row)[q] = IF q = r /\ Live(r) THEN [row EXCEPT !.old = FALSE] ELSE sessions[q]
    BY <1>1, TouchFact
  <2>6. sessions'[s] = IF s = r THEN [row EXCEPT !.old = FALSE] ELSE sessions[s]
    BY <2>4, <2>5
  <2>7. QED
    BY <2>1, <2>2, <2>3, <2>6
<1> DEFINE Same == sessions'[s].count = sessions[s].count
<1>4. ASSUME \E r \in Sessions : SessionOp(r) PROVE Same
  <2>1. PICK r \in Sessions : SessionOp(r)
    BY <1>4
  <2>2. ASSUME NEW a \in Agents, CreateSession(r, a) PROVE Same
    <3>1. r # s
      BY <2>2 DEF CreateSession, Live
    <3>2. QED
      BY <1>1, <2>2, <3>1 DEF CreateSession
  <2>3. ASSUME NEW status \in {"paused", "active", "completed"}, SetStatus(r, status)
        PROVE  Same
    <3>1. [sessions[r] EXCEPT !.status = status] \in SessionRow
          /\ [sessions[r] EXCEPT !.status = status].count = sessions[r].count
      BY <1>1 DEF SessionRow
    <3>2. QED
      BY <1>2, <2>3, <3>1 DEF SetStatus
  <2>4. ASSUME DeleteSession(r) PROVE Same
    BY <1>1, <2>4, GoneFact DEF DeleteSession, Remove
  <2>5. ASSUME Age(r) PROVE Same
    <3>1. [sessions[r] EXCEPT !.old = TRUE].count = sessions[r].count
      BY <1>1 DEF SessionRow
    <3>2. QED
      BY <1>1, <2>5, <3>1 DEF Age
  <2>6. QED
    BY <2>1, <2>2, <2>3, <2>4, <2>5 DEF SessionOp
<1>5. ASSUME \E a \in Agents : DeleteAgent(a) PROVE Same
  BY <1>1, <1>5, GoneFact DEF DeleteAgent, Remove
<1>6. ASSUME NEW status \in {"paused", "completed"}, Expire(status)
      PROVE  sessions'[s].count = sessions[s].count
  <2>1. [sessions[s] EXCEPT !.status = "archived", !.old = FALSE].count = sessions[s].count
    BY <1>1 DEF SessionRow
  <2>2. QED
    BY <1>1, <1>6, <2>1 DEF Expire
<1>7. ASSUME NEW t \in Turns, Title(t) PROVE sessions'[s].count = sessions[s].count
  <2>1. turns[t].session \in Sessions /\ sessions[turns[t].session] \in SessionRow
    BY <1>7, ActiveFact DEF Title
  <2>2. QED
    BY <1>2, <1>7, <2>1 DEF Title
<1>8. ASSUME \E t \in Turns : ProcessMessage(t) \/ \E r \in Sessions : Send(t, r)
      PROVE  Same \/ \E t \in Turns : TrackUsage(t)
  BY <1>7, <1>8 DEF ProcessMessage, ReadSession, ReadAgent, Admit, ChatReplies,
    ChatFails, IterationsUsedUp, Track, RunTools, SaveMessages, Send, tables
<1>9. ASSUME Tick \/ Jam \/ Restart \/ UNCHANGED vars PROVE Same
  BY <1>9 DEF Tick, Jam, Restart, vars, tables
<1>10. Same \/ \E t \in Turns : TrackUsage(t)
  BY <1>4, <1>5, <1>6, <1>8, <1>9 DEF Next
<1>11. QED
  BY <1>3, <1>10

\* A row that is made has nothing to account for.
LEMMA CreatedFact ==
  ASSUME IInv, NEW s \in Sessions, NEW a \in Agents, CreateSession(s, a)
  PROVE  /\ sessions'[s].count = 0 /\ tracker'[s] = 0
         /\ Answers(s)' = {} /\ Pending(s)' = {} /\ Uncounted(s)' = {}
<1>1. /\ sessions \in [Sessions -> SessionRow] /\ sessions[s].status = "unborn"
      /\ turns' = turns /\ messages' = messages /\ tracker' = tracker
  BY Types DEF IInv, CreateSession, memory
<1>2. \A m \in messages : m.session # s
  BY <1>1 DEF IInv, HistoryIsWhole, Live
<1>3. \A t \in Turns : turns[t].session = s => turns[t].pc = "idle"
  BY <1>1 DEF IInv, TurnInv
<1>4. sessions'[s].count = 0
  BY <1>1 DEF CreateSession
<1>5. tracker'[s] = 0
  BY <1>1 DEF IInv, SessionInv
<1>6. QED
  BY <1>1, <1>2, <1>3, <1>4, <1>5 DEF Answers, Pending, Uncounted, At

LEMMA CountInit == Init => CountInv
<1> SUFFICES ASSUME Init, NEW s \in Sessions PROVE ~Live(s)
  BY DEF CountInv
<1>1. \A r \in Sessions : sessions[r].status = "unborn"
  BY DEF Init
<1>2. QED
  BY <1>1 DEF Live

\* What a step of a turn does to the answers and the tracker, and where it goes.
LEMMA MovesFact ==
  ASSUME IInv, NEW t \in Turns, ProcessMessage(t)
  PROVE  LET to == turns'[t].pc
             places == {"question", "answer", "usage"}
         IN  \/ /\ TrackUsage(t) /\ turns[t].pc = "usage" /\ to \in {"tools", "question"}
                /\ messages' = messages /\ tracker' = tracker
             \/ /\ turns[t].pc = "track" /\ to = "usage" /\ messages' = messages
                /\ tracker' = [tracker EXCEPT ![turns[t].session] = @ + 1]
             \/ /\ turns[t].pc = "question" /\ to = "answer" /\ tracker' = tracker
                /\ messages' \subseteq messages \cup
                     {[session |-> turns[t].session, turn |-> t, role |-> "user"]}
             \/ /\ turns[t].pc = "answer" /\ to = "answered" /\ tracker' = tracker
                /\ messages' \subseteq messages \cup
                     {[session |-> turns[t].session, turn |-> t, role |-> "assistant"]}
             \/ /\ turns[t].pc \notin places /\ to \notin places
                /\ messages' = messages /\ tracker' = tracker
<1>1. turns \in [Turns -> TurnRow]
  BY Types DEF IInv
<1>2. \A place : Goto(t, place) => turns'[t].pc = place
  BY <1>1, GotoFact
<1>3. CASE ReadSession(t)
  <2>1. turns[t].pc = "session" /\ turns'[t].pc \in {"agent", "refused"}
    BY <1>1, <1>3 DEF ReadSession, TurnRow
  <2>2. QED
    BY <1>3, <2>1 DEF ReadSession, tables, memory
<1>4. CASE ReadAgent(t) \/ ChatFails(t) \/ IterationsUsedUp(t) \/ Title(t)
  BY <1>2, <1>4 DEF ReadAgent, ChatFails, IterationsUsedUp, Title, tables, memory
<1>5. CASE Admit(t)
  BY <1>2, <1>5 DEF Admit, tables
<1>6. CASE ChatReplies(t)
  <2>1. turns[t].pc = "chat" /\ turns'[t].pc = "track"
    BY <1>1, <1>6 DEF ChatReplies, TurnRow
  <2>2. QED
    BY <1>6, <2>1 DEF ChatReplies, tables, memory
<1>7. CASE RunTools(t)
  <2>1. turns[t].pc = "tools" /\ turns'[t].pc \in {"chat", "waiting", "lost"}
    BY <1>1, <1>2, <1>7 DEF RunTools, TurnRow
  <2>2. QED
    BY <1>7, <2>1 DEF RunTools, tables, memory
<1>8. CASE Track(t)
  BY <1>2, <1>8 DEF Track, tables
<1>9. CASE TrackUsage(t)
  BY <1>2, <1>9 DEF TrackUsage, memory
<1>10. CASE SaveMessages(t)
  BY <1>2, <1>10 DEF SaveMessages, Insert, memory
<1>11. QED
  BY <1>3, <1>4, <1>5, <1>6, <1>7, <1>8, <1>9, <1>10 DEF ProcessMessage

\* Every other step stores no answer and moves no turn into or out of the two
\* places, but a restart, which empties them and the tracker.
LEMMA OthersFact ==
  ASSUME IInv, [Next]_vars, ~ \E t \in Turns : ProcessMessage(t), NEW s \in Sessions
  PROVE  /\ Answers(s)' \subseteq Answers(s)
         /\ Pending(s)' \subseteq Pending(s)
         /\ (Uncounted(s)' = Uncounted(s) /\ tracker'[s] = tracker[s]) \/ tracker'[s] = 0
<1>1. messages' \subseteq messages
  BY MessagesFact DEF Remove, ProcessMessage
<1>2. CASE UNCHANGED turns
  <2>1. tracker' = tracker \/ Restart
    BY TrackerFact DEF ProcessMessage
  <2>2. QED
    BY <1>1, <1>2, <2>1 DEF Answers, Pending, Uncounted, At, Restart
<1>3. ASSUME NEW t \in Turns, NEW r \in Sessions, Send(t, r)
      PROVE  /\ Pending(s)' \subseteq Pending(s) /\ Uncounted(s)' = Uncounted(s)
             /\ tracker' = tracker
  <2>1. /\ turns[t].pc = "idle" /\ turns'[t] = NewTurn(r)
        /\ \A u \in Turns : u # t => turns'[u] = turns[u]
    BY <1>3, SendFact
  <2>2. NewTurn(r).pc = "session"
    BY DEF NewTurn
  <2>3. QED
    BY <1>3, <2>1, <2>2 DEF Send, memory, Pending, Uncounted, At
<1>4. CASE Restart
  <2>1. \A t \in Turns : turns'[t].pc \in Ended \cup {"idle"}
    BY <1>4, RestartFact
  <2>2. Pending(s)' = {} /\ tracker'[s] = 0
    BY <1>4, <2>1 DEF Pending, At, Ended, Restart
  <2>3. QED
    BY <1>1, <2>2 DEF Answers
<1>5. QED
  BY <1>1, <1>2, <1>3, <1>4, TurnCases DEF Answers

LEMMA CountStep == IInv /\ CountInv /\ [Next]_vars => CountInv'
<1> SUFFICES ASSUME IInv, CountInv, [Next]_vars, NEW s \in Sessions, Live(s)'
             PROVE  /\ Cardinality(Answers(s)') + Cardinality(Pending(s)') <= sessions'[s].count
                    /\ tracker'[s] <= sessions'[s].count + Cardinality(Uncounted(s)')
  BY DEF CountInv
<1> DEFINE c == sessions[s].count  c2 == sessions'[s].count
           k == tracker[s]         k2 == tracker'[s]
<1>0. PICK A, A2, Q, Q2, U, U2 :
        /\ A = Answers(s) /\ A2 = Answers(s)'
        /\ Q = Pending(s) /\ Q2 = Pending(s)'
        /\ U = Uncounted(s) /\ U2 = Uncounted(s)'
  OBVIOUS
<1>1. /\ IsFiniteSet(A) /\ IsFiniteSet(Q) /\ IsFiniteSet(U) /\ c \in Nat /\ k \in Nat
      /\ Cardinality(A) \in Nat /\ Cardinality(Q) \in Nat /\ Cardinality(U) \in Nat
  BY <1>0, CountTypes DEF IInv
<1>2. c2 \in Nat /\ k2 \in Nat /\ IsFiniteSet(U2)
  <2>1. sessions' \in [Sessions -> SessionRow] /\ tracker' \in [Sessions -> Nat]
    BY RowsFact, MemoryStep
  <2>2. U2 \subseteq Turns /\ IsFiniteSet(Turns)
    BY <1>0, ConversationAssumption DEF Uncounted, At
  <2>3. IsFiniteSet(U2)
    BY <2>2, FS_Subset
  <2>4. c2 \in Nat /\ k2 \in Nat
    BY <2>1 DEF SessionRow
  <2>5. QED
    BY <2>2, <2>3, <2>4
<1>3. CASE \E a \in Agents : CreateSession(s, a)
  <2>1. c2 = 0 /\ k2 = 0 /\ A2 = {} /\ Q2 = {} /\ U2 = {}
    BY <1>0, <1>3, CreatedFact
  <2>2. Cardinality({}) = 0
    BY FS_EmptySet
  <2>3. QED
    BY <1>0, <2>1, <2>2
<1>4. CASE ~ \E a \in Agents : CreateSession(s, a)
  <2>1. Live(s)
    BY <1>4, LiveFact, Types DEF IInv
  <2>2. Cardinality(A) + Cardinality(Q) <= c /\ k <= c + Cardinality(U)
    BY <1>0, <2>1 DEF CountInv
  <2>3. /\ c2 \in {c, c + 1}
        /\ \A t \in Turns : TrackUsage(t) /\ turns[t].session = s => c2 = c + 1
    BY <2>1, CountsFact
  <2>4. /\ A2 \subseteq A => Cardinality(A2) \in Nat /\ Cardinality(A2) <= Cardinality(A)
        /\ Q2 \subseteq Q => Cardinality(Q2) \in Nat /\ Cardinality(Q2) <= Cardinality(Q)
    BY <1>1, FS_Subset, FS_CardinalityType
  <2>5. CASE ~ \E t \in Turns : ProcessMessage(t)
    <3>1. /\ A2 \subseteq A /\ Q2 \subseteq Q
          /\ (U2 = U /\ k2 = k) \/ k2 = 0
      BY <1>0, <2>5, OthersFact
    <3>2. Cardinality(U2) \in Nat
      BY <1>2, FS_CardinalityType
    <3> HIDE DEF c, c2, k, k2
    <3>3. QED
      BY <1>0, <1>1, <1>2, <2>2, <2>3, <2>4, <3>1, <3>2 DEF c, c2, k, k2
  <2>6. ASSUME NEW t \in Turns, ProcessMessage(t)
        PROVE  Cardinality(A2) + Cardinality(Q2) <= c2 /\ k2 <= c2 + Cardinality(U2)
    <3>1. /\ Q2 = IF turns[t].session = s /\ turns'[t].pc \in {"question", "answer"}
                  THEN Q \cup {t} ELSE Q \ {t}
          /\ U2 = IF turns[t].session = s /\ turns'[t].pc = "usage"
                  THEN U \cup {t} ELSE U \ {t}
          /\ t \in Q <=> turns[t].session = s /\ turns[t].pc \in {"question", "answer"}
          /\ t \in U <=> turns[t].session = s /\ turns[t].pc = "usage"
      <4>1. /\ Pending(s)' = IF turns[t].session = s /\ turns'[t].pc \in {"question", "answer"}
                             THEN Pending(s) \cup {t} ELSE Pending(s) \ {t}
            /\ Uncounted(s)' = IF turns[t].session = s /\ turns'[t].pc \in {"usage"}
                               THEN Uncounted(s) \cup {t} ELSE Uncounted(s) \ {t}
        BY <2>6, AtFact DEF Pending, Uncounted
      <4>2. /\ t \in Pending(s) <=>
                 turns[t].session = s /\ turns[t].pc \in {"question", "answer"}
            /\ t \in Uncounted(s) <=> turns[t].session = s /\ turns[t].pc = "usage"
        BY DEF Pending, Uncounted, At
      <4>3. QED
        BY <1>0, <4>1, <4>2
    <3>2. /\ t \in Q => Cardinality(Q \ {t}) = Cardinality(Q) - 1
          /\ t \in U => Cardinality(U \ {t}) = Cardinality(U) - 1
          /\ Cardinality(Q \cup {t}) \in {Cardinality(Q), Cardinality(Q) + 1}
          /\ t \notin U => Cardinality(U \cup {t}) = Cardinality(U) + 1
      BY <1>1, FS_AddElement, FS_RemoveElement
    <3> HIDE DEF c, c2, k, k2
    <3>3. CASE /\ TrackUsage(t) /\ turns[t].pc = "usage" /\ turns'[t].pc \in {"tools", "question"}
               /\ messages' = messages /\ tracker' = tracker
      <4>1. A2 = A /\ k2 = k
        BY <1>0, <3>3 DEF Answers, k, k2
      <4>2. CASE turns[t].session # s
        <5>1. Q2 = Q /\ U2 = U
          BY <3>1, <4>2
        <5>2. QED
          BY <1>1, <1>2, <2>2, <2>3, <4>1, <5>1
      <4>3. CASE turns[t].session = s
        <5>1. c2 = c + 1 /\ Cardinality(U2) = Cardinality(U) - 1
          BY <2>3, <3>1, <3>2, <3>3, <4>3
        <5>2. Cardinality(Q2) \in {Cardinality(Q), Cardinality(Q) + 1}
          <6>1. Q2 = Q \cup {t} \/ Q2 = Q
            BY <3>1, <3>3, <4>3
          <6>2. QED
            BY <3>2, <6>1
        <5>3. QED
          BY <1>1, <1>2, <2>2, <4>1, <5>1, <5>2
      <4>4. QED
        BY <4>2, <4>3
    <3>4. CASE /\ turns[t].pc = "track" /\ turns'[t].pc = "usage" /\ messages' = messages
               /\ tracker' = [tracker EXCEPT ![turns[t].session] = @ + 1]
      <4>1. A2 = A /\ Q2 = Q
        BY <1>0, <3>1, <3>4 DEF Answers
      <4>2. tracker \in [Sessions -> Nat]
        BY Types DEF IInv
      <4>3. CASE turns[t].session # s
        <5>1. k2 = k /\ U2 = U
          BY <3>1, <3>4, <4>2, <4>3 DEF k, k2
        <5>2. QED
          BY <1>1, <1>2, <2>2, <2>3, <4>1, <5>1
      <4>4. CASE turns[t].session = s
        <5>1. k2 = k + 1 /\ Cardinality(U2) = Cardinality(U) + 1
          <6>1. k2 = k + 1
            BY <3>4, <4>2, <4>4 DEF k, k2
          <6>2. t \notin U /\ U2 = U \cup {t}
            BY <3>1, <3>4, <4>4
          <6>3. QED
            BY <3>2, <6>1, <6>2
        <5>2. QED
          BY <1>1, <1>2, <2>2, <2>3, <4>1, <5>1
      <4>5. QED
        BY <4>3, <4>4
    <3>5. CASE /\ turns[t].pc = "question" /\ turns'[t].pc = "answer" /\ tracker' = tracker
               /\ messages' \subseteq messages \cup
                    {[session |-> turns[t].session, turn |-> t, role |-> "user"]}
      <4>1. A2 \subseteq A
        BY <1>0, <3>5 DEF Answers
      <4>2. Q2 = Q /\ U2 = U
        BY <3>1, <3>5
      <4>3. k2 = k
        BY <3>5 DEF k, k2
      <4>4. QED
        BY <1>1, <1>2, <2>2, <2>3, <2>4, <4>1, <4>2, <4>3
    <3>6. CASE /\ turns[t].pc = "answer" /\ turns'[t].pc = "answered" /\ tracker' = tracker
               /\ messages' \subseteq messages \cup
                    {[session |-> turns[t].session, turn |-> t, role |-> "assistant"]}
      <4>1. PICK m : m = [session |-> turns[t].session, turn |-> t, role |-> "assistant"]
        OBVIOUS
      <4>2. U2 = U /\ k2 = k
        <5>1. U2 = U
          BY <3>1, <3>6
        <5>2. QED
          BY <3>6, <5>1 DEF k, k2
      <4>3. CASE turns[t].session # s
        <5>1. A2 \subseteq A /\ Q2 = Q
          BY <1>0, <3>1, <3>6, <4>3 DEF Answers
        <5>2. QED
          BY <1>1, <1>2, <2>2, <2>3, <2>4, <4>2, <5>1
      <4>4. CASE turns[t].session = s
        <5>1. A2 \subseteq A \cup {m}
          BY <1>0, <3>6, <4>1 DEF Answers
        <5>2. Cardinality(A2) <= Cardinality(A) + 1 /\ Cardinality(A2) \in Nat
          <6>1. /\ IsFiniteSet(A \cup {m})
                /\ Cardinality(A \cup {m}) \in {Cardinality(A), Cardinality(A) + 1}
            BY <1>1, FS_AddElement
          <6>2. /\ IsFiniteSet(A2) /\ Cardinality(A2) <= Cardinality(A \cup {m})
            BY <5>1, <6>1, FS_Subset
          <6>3. Cardinality(A2) \in Nat
            BY <6>2, FS_CardinalityType
          <6>4. QED
            BY <1>1, <6>1, <6>2, <6>3
        <5>3. t \in Q /\ Q2 = Q \ {t}
          BY <3>1, <3>6, <4>4
        <5>4. Cardinality(Q2) = Cardinality(Q) - 1
          BY <3>2, <5>3
        <5>5. QED
          BY <1>1, <1>2, <2>2, <2>3, <4>2, <5>2, <5>4
      <4>5. QED
        BY <4>3, <4>4
    <3>7. CASE /\ turns[t].pc \notin {"question", "answer", "usage"}
               /\ turns'[t].pc \notin {"question", "answer", "usage"}
               /\ messages' = messages /\ tracker' = tracker
      <4>1. A2 = A /\ k2 = k
        BY <1>0, <3>7 DEF Answers, k, k2
      <4>2. Q2 = Q /\ U2 = U
        BY <3>1, <3>7
      <4>3. QED
        BY <1>1, <1>2, <2>2, <2>3, <4>1, <4>2
    <3>8. QED
      BY <2>6, <3>3, <3>4, <3>5, <3>6, <3>7, MovesFact
  <2>7. QED
    BY <1>0, <2>5, <2>6
<1>5. QED
  BY <1>3, <1>4

-----------------------------------------------------------------------------
(***************************************************************************)
(* The theorems.                                                           *)
(***************************************************************************)
\* Every state of the tables, of the limiter, of the tracker and of the calls
\* of ProcessMessage is of its type, whatever interleaves with a turn.
THEOREM TypeCorrect == Spec => []TypeOK
<1>1. IInv => TypeOK
  BY DEF IInv
<1>2. QED
  BY <1>1, SpecInv, PTL

\* Nothing is left of a deleted session, and every stored reply has its
\* question beside it: SaveMessages, the two deletions and their cascades.
THEOREM HistoryWhole == Spec => []HistoryIsWhole
<1>1. IInv => HistoryIsWhole
  BY DEF IInv
<1>2. QED
  BY <1>1, SpecInv, PTL

\* No agent starts more than Limit turns within any window of rateLimiter.Allow,
\* whatever number of agents, sessions and turns there is.
THEOREM RateLimits == Spec => []RateLimited
<1>1. RateInv => RateLimited
  BY DEF RateInv, RateLimited
<1>2. TypeOK /\ RateInv /\ [Next]_vars => RateInv'
  BY RateStep
<1>3. QED
  BY <1>1, <1>2, TypeCorrect, RateInit, PTL DEF Spec

\* The row of a session counts every reply that is stored or about to be, and
\* what the tracker shows, whatever turns, deletions and restarts interleave:
\* TrackMessage, TrackUsage and saveMessages.
THEOREM RepliesAreCounted == Spec => []RepliesCounted
<1>1. CountInv => RepliesCounted
  BY DEF CountInv, RepliesCounted, Answers, Pending, Uncounted
<1>2. QED
  BY <1>1, SpecInv, CountInit, CountStep, PTL DEF Spec

-----------------------------------------------------------------------------
(***************************************************************************)
(* The refinement: what the tables show, as ImplementsTranscript maps it.  *)
(***************************************************************************)
Owner == [s \in Sessions |-> sessions[s].agent]
Opened == {s \in Sessions : sessions[s].status # "unborn"}
Deleted == {s \in Sessions : sessions[s].status = "gone"}

\* Whatever is stored was said by a turn of that session which is past its
\* question, and past its answer if it is the answer.
SpokenInv ==
  \A m \in messages :
    /\ turns[m.turn].session = m.session
    /\ turns[m.turn].pc \in {"answer"} \cup Ended
    /\ m.role = "assistant" => turns[m.turn].pc \in Ended

\* A turn that has ended does nothing more, and one that stores its answer ends.
LEMMA EndsFact ==
  ASSUME IInv, NEW t \in Turns, ProcessMessage(t)
  PROVE  /\ turns[t].pc \notin Ended
         /\ turns[t].pc = "answer" => turns'[t].pc \in Ended
<1>1. turns[t].pc \notin Ended
  BY DEF ProcessMessage, ReadSession, ReadAgent, Admit, Title, ChatReplies, ChatFails,
    IterationsUsedUp, Track, TrackUsage, RunTools, SaveMessages, Ended
<1>2. turns[t].pc = "answer" => turns'[t].pc = "answered"
  BY MovesFact
<1>3. QED
  BY <1>1, <1>2 DEF Ended

LEMMA SpokenStep == IInv /\ SpokenInv /\ [Next]_vars => SpokenInv'
<1> SUFFICES ASSUME IInv, SpokenInv, [Next]_vars, NEW m \in messages'
             PROVE  /\ turns'[m.turn].session = m.session
                    /\ turns'[m.turn].pc \in {"answer"} \cup Ended
                    /\ m.role = "assistant" => turns'[m.turn].pc \in Ended
  BY DEF SpokenInv
<1>1. CASE m \in messages
  <2>1. PICK t \in Turns : t = m.turn
    BY <1>1, Types DEF IInv
  <2>2. /\ turns[t].session = m.session /\ turns[t].pc \in {"answer"} \cup Ended
        /\ m.role = "assistant" => turns[t].pc \in Ended
    BY <1>1, <2>1 DEF SpokenInv
  <2>3. ASSUME NEW u \in Turns, ProcessMessage(u)
        PROVE  /\ turns'[t].session = turns[t].session
               /\ \/ turns'[t].pc = turns[t].pc
                  \/ turns[t].pc = "answer" /\ turns'[t].pc \in Ended
    <3>1. CASE u = t
      BY <2>2, <2>3, <3>1, ProcessFact, EndsFact DEF Kept
    <3>2. CASE u # t
      <4>1. Kept(u)
        BY <2>3, ProcessFact
      <4>2. turns'[t] = turns[t]
        BY <3>2, <4>1 DEF Kept
      <4>3. QED
        BY <4>2
    <3>3. QED
      BY <3>1, <3>2
  <2>4. ASSUME NEW u \in Turns, NEW s \in Sessions, Send(u, s) PROVE turns'[t] = turns[t]
    BY <2>2, <2>4, SendFact DEF Ended
  <2>5. ASSUME Restart PROVE turns'[t].session = turns[t].session /\ turns'[t].pc \in Ended
    BY <2>2, <2>5, RestartFact DEF Ended
  <2>6. QED
    BY <2>1, <2>2, <2>3, <2>4, <2>5, TurnCases
<1>2. CASE m \notin messages
  <2>1. PICK t \in Turns, role \in Roles :
          /\ SaveMessages(t)
          /\ role = IF turns[t].pc = "question" THEN "user" ELSE "assistant"
          /\ m = [session |-> turns[t].session, turn |-> t, role |-> role]
    BY <1>2, MessagesFact DEF Remove
  <2>2. ProcessMessage(t) /\ turns[t].pc \in {"question", "answer"}
    BY <2>1 DEF ProcessMessage, SaveMessages
  <2>3. turns[t].pc = "question" => turns'[t].pc = "answer"
    BY <2>2, MovesFact
  <2>4. turns'[t].session = turns[t].session
    BY <2>2, ProcessFact DEF Kept
  <2>5. /\ m.turn = t /\ m.session = turns[t].session
        /\ m.role = "assistant" => turns[t].pc = "answer"
    BY <2>1, <2>2
  <2>6. QED
    BY <2>2, <2>3, <2>4, <2>5, EndsFact
<1>3. QED
  BY <1>1, <1>2

LEMMA LogInit == Init => Log!Init /\ SpokenInv
<1> SUFFICES ASSUME Init PROVE Log!Init /\ SpokenInv
  OBVIOUS
<1>1. /\ sessions = [s \in Sessions |->
           [status |-> "unborn", agent |-> "", count |-> 0, old |-> FALSE]]
      /\ agents = Agents /\ messages = {}
  BY DEF Init
<1>2. \A s \in Sessions : sessions[s].status = "unborn" /\ sessions[s].agent = ""
  BY <1>1
<1>3. Opened = {} /\ Deleted = {} /\ Owner = [s \in Sessions |-> ""]
  BY <1>2 DEF Opened, Deleted, Owner
<1>4. QED
  BY <1>1, <1>3 DEF Log!Init, Opened, Deleted, Owner, SpokenInv

\* The rows keep their agents and are opened and deleted as they were.
SameRows ==
  \A s \in Sessions : /\ sessions'[s].agent = sessions[s].agent
                      /\ sessions'[s].status = "unborn" <=> sessions[s].status = "unborn"
                      /\ sessions'[s].status = "gone" <=> sessions[s].status = "gone"

LEMMA SameShown ==
  ASSUME SameRows PROVE Owner' = Owner /\ Opened' = Opened /\ Deleted' = Deleted
BY DEF SameRows, Owner, Opened, Deleted

\* A deletion of the sessions in S.
LEMMA RemoveShown ==
  ASSUME sessions \in [Sessions -> SessionRow], NEW S \in SUBSET Sessions, Remove(S),
         \A s \in S : Live(s)
  PROVE  /\ Owner' = Owner /\ Opened' = Opened /\ Deleted' = Deleted \cup S
         /\ messages' = {m \in messages : m.session \notin S}
<1>1. \A s \in Sessions :
        /\ sessions'[s].agent = sessions[s].agent
        /\ sessions'[s].status = IF s \in S THEN "gone" ELSE sessions[s].status
        /\ s \in S => sessions[s].status # "unborn"
  BY GoneFact DEF Remove, Live
<1>2. Owner' = Owner /\ Opened' = Opened
  BY <1>1 DEF Owner, Opened
<1>3. Deleted' = Deleted \cup S
  BY <1>1 DEF Deleted
<1>4. QED
  BY <1>2, <1>3 DEF Remove

\* A message of a turn in a live session is a question or an answer.
LEMMA SaveShown ==
  ASSUME IInv, SpokenInv, NEW t \in Turns, SaveMessages(t)
  PROVE  \/ messages' = messages
         \/ \E s \in Sessions : Log!Ask(t, s) \/ Log!Answer(t, s)
<1>1. PICK s \in Sessions : s = turns[t].session
  BY ActiveFact DEF SaveMessages
<1>2. sessions' = sessions /\ agents' = agents /\ Owner' = Owner /\ Opened' = Opened
      /\ Deleted' = Deleted
  BY DEF SaveMessages, Owner, Opened, Deleted
<1>3. \A m \in messages : m.turn = t =>
        m.session = s /\ turns[t].pc # "question" /\ (turns[t].pc = "answer" => m.role = "user")
  <2>1. \A m \in messages : m.role \in Roles
    BY Types DEF IInv, Roles
  <2>2. QED
    BY <1>1, <2>1 DEF SpokenInv, Ended, Roles
<1>4. CASE ~Live(s)
  BY <1>1, <1>4 DEF SaveMessages, Insert
<1>5. CASE Live(s) /\ turns[t].pc = "question"
  <2>1. messages' = messages \cup {[session |-> s, turn |-> t, role |-> "user"]}
    BY <1>1, <1>5 DEF SaveMessages, Insert
  <2>2. s \in Opened \ Deleted
    BY <1>5 DEF Live, Opened, Deleted
  <2>3. Log!Ask(t, s)
    BY <1>2, <1>3, <1>5, <2>1, <2>2 DEF Log!Ask, Owner, Opened, Deleted
  <2>4. QED
    BY <2>3
<1>6. CASE Live(s) /\ turns[t].pc = "answer"
  <2>1. messages' = messages \cup {[session |-> s, turn |-> t, role |-> "assistant"]}
    BY <1>1, <1>6 DEF SaveMessages, Insert
  <2>2. s \in Opened \ Deleted
    BY <1>6 DEF Live, Opened, Deleted
  <2>3. \E m \in messages : m.turn = t /\ m.session = s
    <3>1. [session |-> s, turn |-> t, role |-> "user"] \in messages
      BY <1>1, <1>6 DEF IInv, QuestionInv
    <3>2. QED
      BY <3>1
  <2>4. Log!Answer(t, s)
    BY <1>2, <1>3, <1>6, <2>1, <2>2, <2>3 DEF Log!Answer, Owner, Opened, Deleted
  <2>5. QED
    BY <2>4
<1>7. QED
  BY <1>4, <1>5, <1>6 DEF SaveMessages

LEMMA LogStep == IInv /\ SpokenInv /\ [Next]_vars => [Log!Next]_Log!transcript
<1> SUFFICES ASSUME IInv, SpokenInv, [Next]_vars PROVE [Log!Next]_Log!transcript
  OBVIOUS
<1>1. sessions \in [Sessions -> SessionRow]
  BY Types DEF IInv
<1>2. ASSUME SameRows, agents' = agents, messages' = messages PROVE [Log!Next]_Log!transcript
  BY <1>2, SameShown DEF Log!transcript, Owner, Opened, Deleted
<1>3. ASSUME NEW s \in Sessions, NEW a \in Agents, CreateSession(s, a)
      PROVE  [Log!Next]_Log!transcript
  <2>1. /\ sessions[s].status = "unborn" /\ a \in agents
        /\ sessions'[s].status = "active" /\ sessions'[s].agent = a
        /\ \A r \in Sessions : r # s => sessions'[r] = sessions[r]
        /\ agents' = agents /\ messages' = messages
    BY <1>1, <1>3 DEF CreateSession
  <2>2. s \notin Opened /\ Opened' = Opened \cup {s}
    BY <2>1 DEF Opened
  <2>3. Deleted' = Deleted
    BY <2>1 DEF Deleted
  <2>4. Owner' = [Owner EXCEPT ![s] = a]
    BY <2>1 DEF Owner
  <2>5. Log!Open(s, a)
    BY <2>1, <2>2, <2>3, <2>4 DEF Log!Open, Owner, Opened, Deleted
  <2>6. QED
    BY <2>5 DEF Log!Next
<1>4. ASSUME NEW s \in Sessions, DeleteSession(s) PROVE [Log!Next]_Log!transcript
  <2>1. /\ Live(s) /\ agents' = agents /\ \A r \in {s} : Live(r)
        /\ Remove({s}) /\ {s} \in SUBSET Sessions
    BY <1>4 DEF DeleteSession
  <2>2. /\ Owner' = Owner /\ Opened' = Opened /\ Deleted' = Deleted \cup {s}
        /\ messages' = {m \in messages : m.session \notin {s}}
    BY <1>1, <2>1, RemoveShown
  <2>3. s \in Opened \ Deleted
    BY <2>1 DEF Live, Opened, Deleted
  <2>4. Log!EndOne(s)
    BY <2>1, <2>2, <2>3 DEF Log!EndOne, Log!End, Owner, Opened, Deleted
  <2>5. QED
    BY <2>4 DEF Log!Next
<1>5. ASSUME NEW a \in Agents, DeleteAgent(a) PROVE [Log!Next]_Log!transcript
  <2>1. PICK S \in SUBSET Sessions : S = {s \in Sessions : Live(s) /\ sessions[s].agent = a}
    OBVIOUS
  <2>2. /\ a \in agents /\ agents' = agents \ {a}
        /\ Remove(S) /\ \A s \in S : Live(s)
    BY <1>5, <2>1 DEF DeleteAgent
  <2>3. /\ Owner' = Owner /\ Opened' = Opened /\ Deleted' = Deleted \cup S
        /\ messages' = {m \in messages : m.session \notin S}
    BY <1>1, <2>2, RemoveShown
  <2>4. S = {s \in Opened \ Deleted : Owner[s] = a}
    BY <2>1 DEF Live, Opened, Deleted, Owner
  <2>5. Log!Dismiss(a)
    BY <2>2, <2>3, <2>4 DEF Log!Dismiss, Log!End, Owner, Opened, Deleted
  <2>6. QED
    BY <2>5 DEF Log!Next
<1>6. ASSUME NEW s \in Sessions, SessionOp(s) PROVE [Log!Next]_Log!transcript
  <2>1. ASSUME NEW status \in {"paused", "active", "completed"}, SetStatus(s, status)
        PROVE  SameRows /\ agents' = agents /\ messages' = messages
    <3>1. [sessions[s] EXCEPT !.status = status] \in SessionRow
      BY <1>1 DEF SessionRow
    <3>2. PICK row \in SessionRow : row = [sessions[s] EXCEPT !.status = status]
      BY <3>1
    <3>3. sessions' = Touch(s, row) /\ Live(s) /\ agents' = agents /\ messages' = messages
      BY <2>1, <3>2 DEF SetStatus
    <3>4. row.agent = sessions[s].agent /\ row.status = status
      BY <1>1, <3>2 DEF SessionRow
    <3>5. [row EXCEPT !.old = FALSE].agent = row.agent
          /\ [row EXCEPT !.old = FALSE].status = row.status
      BY DEF SessionRow
    <3>6. \A r \in Sessions : sessions'[r] = IF r = s THEN [row EXCEPT !.old = FALSE]
                                              ELSE sessions[r]
      BY <1>1, <3>3, TouchFact
    <3>7. /\ sessions'[s].agent = sessions[s].agent /\ sessions'[s].status = status
          /\ sessions[s].status \notin {"unborn", "gone"}
      BY <3>3, <3>4, <3>5, <3>6 DEF Live
    <3>8. SameRows
      BY <3>6, <3>7 DEF SameRows
    <3>9. QED
      BY <3>3, <3>8
  <2>2. ASSUME Age(s) PROVE SameRows /\ agents' = agents /\ messages' = messages
    BY <1>1, <2>2 DEF Age, SameRows, SessionRow
  <2>3. QED
    BY <1>2, <1>3, <1>4, <1>6, <2>1, <2>2 DEF SessionOp
<1>7. ASSUME NEW status \in {"paused", "completed"}, Expire(status)
      PROVE  [Log!Next]_Log!transcript
  <2>1. SameRows
    BY <1>1, <1>7 DEF Expire, SameRows, SessionRow
  <2>2. QED
    BY <1>2, <1>7, <2>1 DEF Expire
<1>8. ASSUME NEW t \in Turns, ProcessMessage(t) PROVE [Log!Next]_Log!transcript
  <2>1. ASSUME ~SaveMessages(t) PROVE SameRows /\ agents' = agents /\ messages' = messages
    <3>1. agents' = agents /\ messages' = messages
      BY <1>8, <2>1 DEF ProcessMessage, ReadSession, ReadAgent, Admit, Title, ChatReplies,
        ChatFails, IterationsUsedUp, Track, TrackUsage, RunTools, tables
    <3>2. SameRows
      <4>1. CASE sessions' = sessions
        BY <4>1 DEF SameRows
      <4>2. PICK s \in Sessions, row \in SessionRow :
              /\ sessions' \in {sessions, Touch(s, row)}
              /\ row.agent = sessions[s].agent /\ row.status = sessions[s].status
        <5>1. PICK s \in Sessions : s = turns[t].session
          <6>1. turns[t].pc # "idle"
            BY <1>8, ProcessFact DEF Kept
          <6>2. QED
            BY <6>1, ActiveFact
        <5>2. sessions[s] \in SessionRow
          BY <1>1
        <5>3. PICK row \in SessionRow : row = Counted(s)
          BY <1>1, CountedFact
        <5>4. row.agent = sessions[s].agent /\ row.status = sessions[s].status
          BY <1>1, <5>3, CountedFact
        <5>5. sessions' \in {sessions, Touch(s, sessions[s]), Touch(s, row)}
          BY <1>8, <2>1, <5>1, <5>3 DEF ProcessMessage, ReadSession, ReadAgent, Admit, Title,
            ChatReplies, ChatFails, IterationsUsedUp, Track, TrackUsage, RunTools, tables
        <5>6. QED
          BY <5>2, <5>4, <5>5
      <4>3. CASE sessions' = Touch(s, row)
        <5>1. /\ [row EXCEPT !.old = FALSE].agent = row.agent
              /\ [row EXCEPT !.old = FALSE].status = row.status
          BY DEF SessionRow
        <5>2. \A r \in Sessions : sessions'[r] = IF r = s /\ Live(s)
                                                THEN [row EXCEPT !.old = FALSE] ELSE sessions[r]
          BY <1>1, <4>3, TouchFact
        <5>3. QED
          BY <4>2, <5>1, <5>2 DEF SameRows
      <4>4. QED
        BY <4>1, <4>2, <4>3
    <3>3. QED
      BY <3>1, <3>2
  <2>2. ASSUME SaveMessages(t) PROVE [Log!Next]_Log!transcript
    <3>1. SameRows /\ agents' = agents
      BY <2>2 DEF SaveMessages, SameRows
    <3>2. CASE messages' = messages
      BY <1>2, <3>1, <3>2
    <3>3. CASE \E s \in Sessions : Log!Ask(t, s) \/ Log!Answer(t, s)
      BY <3>3 DEF Log!Next
    <3>4. QED
      BY <2>2, <3>2, <3>3, SaveShown
  <2>3. QED
    BY <1>2, <2>1, <2>2
<1>9. ASSUME UNCHANGED tables PROVE [Log!Next]_Log!transcript
  <2>1. SameRows
    BY <1>9 DEF tables, SameRows
  <2>2. QED
    BY <1>2, <1>9, <2>1 DEF tables
<1>10. Tick \/ Jam \/ Restart \/ UNCHANGED vars => UNCHANGED tables
  BY DEF Tick, Jam, Restart, vars, tables
<1>11. \A t \in Turns, s \in Sessions : Send(t, s) => UNCHANGED tables
  BY DEF Send
<1>12. QED
  BY <1>5, <1>6, <1>7, <1>8, <1>9, <1>10, <1>11 DEF Next

\* The tables implement Transcript, whatever turns, deletions and restarts
\* interleave: questions before answers, both in the session of the turn, and
\* nothing said that goes or comes back but with its session.
THEOREM ImplementsTranscriptAlways == Spec => ImplementsTranscript
<1>1. QED
  BY SpecInv, LogInit, SpokenStep, LogStep, PTL DEF Spec, ImplementsTranscript, Log!Spec
=============================================================================
