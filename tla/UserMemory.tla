------------------------------- MODULE UserMemory -------------------------------
(***************************************************************************)
(* What Nala remembers in memory only: the conversations, user memories    *)
(* and entities of src/internal/memory/manager.go and entity.go, and the   *)
(* queries that combine them.  (Knowledge bases are in Knowledge.)         *)
(*                                                                         *)
(* Manager.mu is one lock; every critical section but consolidate's runs   *)
(* without calling out and is one step, so only the consolidator is ever   *)
(* seen holding it.  Texts are abstracted to what the regular expressions  *)
(* find in them, times to "idle for more than an hour", confidences to     *)
(* tenths.                                                                 *)
(*                                                                         *)
(* A definition marked "Mutant" is a wrong version of the one after it;    *)
(* it is used only to show that the property it breaks can fail.           *)
(***************************************************************************)
EXTENDS Integers, Sequences, FiniteSets

CONSTANTS
  Clients,    \* goroutines that call the manager
  Sessions,   \* ids of conversations
  Messages,   \* texts
  Batches,    \* numbers of messages one AddMessages may bring
  Facts,      \* facts, as written
  Folded,     \* Folded[f]: f without regard to case
  FactsIn,    \* FactsIn[m]: the facts extractFacts finds in a message, in order
  Mentions,   \* Mentions[m]: the entities the patterns match in it, in order
  Queries,    \* search texts
  Named,      \* the queries whose text names an entity
  Hits,       \* Hits[q]: the facts, folded, that share a word with q
  Hops,       \* values of max_hops
  TopK,       \* memories a hop recalls at most: 5
  NoTalk,     \* no conversation under this id
  MaxRequests \* bound: calls of the manager

Entities == UNION {{Mentions[m][i].entity : i \in DOMAIN Mentions[m]} : m \in Messages}

ASSUME UserMemoryAssumption ==
  /\ Batches \subseteq Nat \ {0} /\ Hops \subseteq 1..5
  /\ TopK \in Nat \ {0} /\ MaxRequests \in Nat
  /\ DOMAIN Folded = Facts
  /\ FactsIn \in [Messages -> Seq(Facts)]
  /\ Mentions \in [Messages -> Seq([entity : Entities, confidence : 0..10])]
  /\ Named \subseteq Queries
  /\ Hits \in [Queries -> SUBSET {Folded[f] : f \in Facts}]

VARIABLES
  mu,           \* Manager.mu: "free", or held by the "consolidator"
  talks,        \* Manager.conversations: session -> [len, idle, summary]
  memories,     \* Manager.userMemories: a sequence of [fact, confidence, source]
  entities,     \* EntityExtractor.entities: entity -> [count, confidence], count 0 if absent
  auto,         \* Manager.autoExtractFacts
  client,       \* client -> its call: [pc, op, before, found, left]
  consolidator, \* the loop's goroutine: [pc, todo]
  requests,     \* calls made so far
  stuck,        \* CachedEmbedder.mu is locked for good (module Knowledge)
  mentioned     \* history: messages stored that mention the entity

memVars == <<mu, talks, memories, entities, auto, client, consolidator, requests, mentioned, stuck>>

NoOp == [name |-> "none"]
Idle == [pc |-> "idle", op |-> NoOp, before |-> 0, found |-> {}, left |-> 0]

Ops ==
  [name : {"add"}, session : Sessions, message : Messages, batch : Batches]
    \cup [name : {"summarize"}, session : Sessions]
    \cup [name : {"store"}, fact : Facts, confidence : {5, 9}]
    \cup [name : {"query"}, query : Queries, hops : Hops]
    \cup [name : {"auto"}, on : BOOLEAN]

MemInit ==
  /\ mu = "free"
  /\ talks = [s \in Sessions |-> NoTalk]
  /\ memories = <<>>
  /\ entities = [e \in Entities |-> [count |-> 0, confidence |-> 0]]
  /\ auto = TRUE
  /\ client = [c \in Clients |-> Idle]
  /\ consolidator = [pc |-> "select", todo |-> {}]
  /\ requests = 0
  /\ stuck = FALSE
  /\ mentioned = [e \in Entities |-> 0]

\* A call is made; before is what the manager knows of the user at that moment.
Request(c, op) ==
  /\ client[c].pc \in {"idle", "answered", "panicked"}
  /\ requests < MaxRequests
  /\ requests' = requests + 1
  /\ client' = [client EXCEPT ![c] =
       [pc |-> IF op.name = "query" THEN "hops" ELSE "wait", op |-> op,
        before |-> Len(memories), found |-> {},
        left |-> IF op.name = "query" THEN op.hops ELSE 0]]
  /\ UNCHANGED <<mu, talks, memories, entities, auto, consolidator, mentioned, stuck>>

Waits(c, name) ==
  /\ client[c].pc = "wait" /\ client[c].op.name = name
  /\ mu = "free"

Return(c) == client' = [client EXCEPT ![c].pc = "answered"]

-----------------------------------------------------------------------------
(***************************************************************************)
(* addUserMemoryLocked and EntityExtractor.Store.                          *)
(***************************************************************************)
\* strings.EqualFold.
SameFact(f, g) == Folded[f] = Folded[g]

\* A known fact is left as it is: the confidence is raised on the copy that
\* the range loop made of it.
addUserMemory(known, fact, confidence, source) ==
  IF \E i \in DOMAIN known : SameFact(known[i].fact, fact) THEN known
  ELSE Append(known, [fact |-> fact, confidence |-> confidence, source |-> source])

\* The facts of one message; the same message again brings no new one.
RememberAll(known, facts) ==
  LET Known[i \in 0..Len(facts)] ==
        IF i = 0 THEN known ELSE addUserMemory(Known[i - 1], facts[i], 7, "auto_extracted")
  IN  Known[Len(facts)]

\* Mutant: every match of a pattern is counted.
MatchesOf(message, e) ==
  {i \in DOMAIN Mentions[message] : Mentions[message][i].entity = e}

\* Extract keeps the first of the matches of one type and value.
MentionsOf(message, e) ==
  LET all == {i \in DOMAIN Mentions[message] : Mentions[message][i].entity = e}
  IN  {i \in all : \A j \in all : i <= j}

Least(x, y) == IF x <= y THEN x ELSE y

\* Storing one message batch times: the first sighting sets the confidence,
\* each further one raises it by a tenth, up to one.
Seen(e, message, batch) ==
  LET new == batch * Cardinality(MentionsOf(message, e))
      old == entities[e]
      first == Mentions[message][CHOOSE i \in MentionsOf(message, e) : TRUE].confidence
  IN  IF new = 0 THEN old
      ELSE [count |-> old.count + new,
            confidence |-> IF old.count = 0 THEN Least(10, first + new - 1)
                           ELSE Least(10, old.confidence + new)]

-----------------------------------------------------------------------------
(***************************************************************************)
(* The operations under Manager.mu.                                        *)
(***************************************************************************)
Talk(s) == IF talks[s] = NoTalk THEN [len |-> 0, idle |-> FALSE, summary |-> 0] ELSE talks[s]

\* Mutant: the facts are stored with StoreUserMemory, which takes the lock
\* the caller holds: nobody gives it back.
AddLockedTwice(c) ==
  LET op == client[c].op IN
  /\ Waits(c, "add")
  /\ IF auto /\ FactsIn[op.message] # <<>>
     THEN mu' = "consolidator" /\ UNCHANGED client
     ELSE Return(c) /\ UNCHANGED mu
  /\ UNCHANGED <<talks, memories, entities, auto, consolidator, requests, mentioned, stuck>>

AddMessages(c) ==
  LET op == client[c].op IN
  /\ Waits(c, "add")
  /\ talks' = [talks EXCEPT ![op.session] =
                 [Talk(op.session) EXCEPT !.len = @ + op.batch, !.idle = FALSE]]
  /\ entities' = [e \in Entities |-> Seen(e, op.message, op.batch)]
  /\ memories' = IF auto THEN RememberAll(memories, FactsIn[op.message]) ELSE memories
  /\ mentioned' = [e \in Entities |-> mentioned[e] +
       IF \E i \in DOMAIN Mentions[op.message] : Mentions[op.message][i].entity = e
       THEN op.batch ELSE 0]
  /\ Return(c)
  /\ UNCHANGED <<mu, auto, consolidator, requests, stuck>>

SummarizeConversation(c) ==
  LET s == client[c].op.session IN
  /\ Waits(c, "summarize")
  /\ talks' = IF talks[s] = NoTalk THEN talks
              ELSE [talks EXCEPT ![s].summary = talks[s].len]
  /\ Return(c)
  /\ UNCHANGED <<mu, memories, entities, auto, consolidator, requests, mentioned, stuck>>

StoreUserMemory(c) ==
  LET op == client[c].op IN
  /\ Waits(c, "store")
  /\ memories' = addUserMemory(memories, op.fact, op.confidence, "explicit")
  /\ Return(c)
  /\ UNCHANGED <<mu, talks, entities, auto, consolidator, requests, mentioned, stuck>>

SetAutoExtract(c) ==
  /\ Waits(c, "auto")
  /\ auto' = client[c].op.on
  /\ Return(c)
  /\ UNCHANGED <<mu, talks, memories, entities, consolidator, requests, mentioned, stuck>>

-----------------------------------------------------------------------------
(***************************************************************************)
(* QueryMemory: hops of MultiHopQuery, then, without a source, whatever is *)
(* known of the user.  Manager.mu is taken and released by every step that *)
(* reads the memories.                                                     *)
(***************************************************************************)
Asks(c, pc) == client[c].pc = pc /\ client[c].op.name = "query"

Matching(q) == {i \in DOMAIN memories : Folded[memories[i].fact] \in Hits[q]}

\* What may be recalled: the scores that rank the matches are left out.
RecallUserMemory(q) ==
  {r \in SUBSET Matching(q) : Cardinality(r) = Least(TopK, Cardinality(Matching(q)))}

\* The first hop asks the embedder for the vector of the query, the second for
\* that of its entities, if there are any.
Embeds(c) ==
  /\ Asks(c, "hops") /\ client[c].left > 0
  /\ \/ client[c].op.hops = client[c].left
     \/ client[c].op.hops = client[c].left + 1 /\ client[c].op.query \in Named

\* The first two hops; the text index and the vectors may have a source or not.
\* An error of the embedder is dropped, but its lock is waited for.
VectorHop(c) ==
  /\ Asks(c, "hops") /\ client[c].left > 0
  /\ client[c].op.hops - client[c].left < 2
  /\ ~(Embeds(c) /\ stuck)
  /\ \E source \in {{}, {"document"}} :
       client' = [client EXCEPT ![c].left = @ - 1, ![c].found = @ \cup source]
  /\ UNCHANGED <<mu, talks, memories, entities, auto, consolidator, requests, mentioned, stuck>>

\* An answer without a vector: the embedder panics under its lock, and the window,
\* whose call this is, recovers.
HopPanics(c) ==
  /\ Embeds(c) /\ ~stuck
  /\ stuck' = TRUE
  /\ client' = [client EXCEPT ![c].pc = "panicked"]
  /\ UNCHANGED <<mu, talks, memories, entities, auto, consolidator, requests, mentioned>>

\* An ingestion or a search does so.
EmbedderJams ==
  /\ ~stuck
  /\ stuck' = TRUE
  /\ UNCHANGED <<mu, talks, memories, entities, auto, client, consolidator, requests, mentioned>>

\* Mutant: a hop recalls only what was stored explicitly.
RecallExplicit(c) ==
  /\ Asks(c, "hops") /\ client[c].left > 0
  /\ client[c].op.hops - client[c].left >= 2
  /\ mu = "free"
  /\ \E recalled \in RecallUserMemory(client[c].op.query) :
       client' = [client EXCEPT ![c].left = @ - 1, ![c].found = @ \cup
         {memories[i].fact : i \in {j \in recalled : memories[j].source = "explicit"}}]
  /\ UNCHANGED <<mu, talks, memories, entities, auto, consolidator, requests, mentioned, stuck>>

\* Every further hop recalls user memories, and keeps the new ones.
RecallHop(c) ==
  /\ Asks(c, "hops") /\ client[c].left > 0
  /\ client[c].op.hops - client[c].left >= 2
  /\ mu = "free"
  /\ \E recalled \in RecallUserMemory(client[c].op.query) :
       client' = [client EXCEPT ![c].left = @ - 1,
                                ![c].found = @ \cup {memories[i].fact : i \in recalled}]
  /\ UNCHANGED <<mu, talks, memories, entities, auto, consolidator, requests, mentioned, stuck>>

HopsDone(c) ==
  /\ Asks(c, "hops") /\ client[c].left = 0
  /\ client' = [client EXCEPT ![c].pc = IF client[c].found = {} THEN "all" ELSE "answered"]
  /\ UNCHANGED <<mu, talks, memories, entities, auto, consolidator, requests, mentioned, stuck>>

GetAllUserMemories(c) ==
  /\ Asks(c, "all")
  /\ mu = "free"
  /\ client' = [client EXCEPT ![c].pc = "answered",
                              ![c].found = {memories[i].fact : i \in DOMAIN memories}]
  /\ UNCHANGED <<mu, talks, memories, entities, auto, consolidator, requests, mentioned, stuck>>

-----------------------------------------------------------------------------
(***************************************************************************)
(* Consolidation.                                                          *)
(***************************************************************************)
Long(s) == talks[s] # NoTalk /\ talks[s].len > 50 /\ talks[s].idle

\* A pass of the consolidator reads the clock once, as it starts.
AnHourPasses(s) ==
  /\ talks[s] # NoTalk
  /\ mu = "free"
  /\ talks' = [talks EXCEPT ![s].idle = TRUE]
  /\ UNCHANGED <<mu, memories, entities, auto, client, consolidator, requests, mentioned, stuck>>

Tick ==
  /\ consolidator.pc = "select" /\ mu = "free"
  /\ mu' = "consolidator"
  /\ consolidator' = [pc |-> "range", todo |-> {s \in Sessions : talks[s] # NoTalk}]
  /\ UNCHANGED <<talks, memories, entities, auto, client, requests, mentioned, stuck>>

\* One conversation of the range.  SummarizeConversation asks for the lock
\* its caller holds: nothing follows "summarize", and the code that keeps
\* the last 20 messages is never reached.
Visit(s) ==
  /\ consolidator.pc = "range" /\ s \in consolidator.todo
  /\ consolidator' = IF Long(s) THEN [consolidator EXCEPT !.pc = "summarize"]
                     ELSE [consolidator EXCEPT !.todo = @ \ {s}]
  /\ UNCHANGED <<mu, talks, memories, entities, auto, client, requests, mentioned, stuck>>

Unlock ==
  /\ consolidator.pc = "range" /\ consolidator.todo = {}
  /\ mu' = "free"
  /\ consolidator' = [pc |-> "select", todo |-> {}]
  /\ UNCHANGED <<talks, memories, entities, auto, client, requests, mentioned, stuck>>

-----------------------------------------------------------------------------
Serve(c) ==
  \/ AddMessages(c) \/ SummarizeConversation(c) \/ StoreUserMemory(c) \/ SetAutoExtract(c)
  \/ VectorHop(c) \/ HopPanics(c) \/ RecallHop(c) \/ HopsDone(c) \/ GetAllUserMemories(c)

Consolidate == Tick \/ Unlock \/ \E s \in Sessions : Visit(s)

MemNext ==
  \/ \E c \in Clients : Serve(c) \/ \E op \in Ops : Request(c, op)
  \/ \E s \in Sessions : AnHourPasses(s)
  \/ Consolidate
  \/ EmbedderJams

MemSpec == MemInit /\ [][MemNext]_memVars

\* A call goes on when it can.  A free lock is handed to a waiting call even
\* if the consolidator takes it again and again: sync.RWMutex wakes waiters.
\* The ticker of the consolidator fires.
Fairness ==
  /\ \A c \in Clients : SF_memVars(Serve(c))
  /\ WF_memVars(Consolidate)

MemFairSpec == MemSpec /\ Fairness

-----------------------------------------------------------------------------
Jammed == consolidator.pc = "summarize"

MemTypeOK ==
  /\ mu \in {"free", "consolidator"}
  /\ talks \in [Sessions -> {NoTalk} \cup [len : Nat, idle : BOOLEAN, summary : Nat]]
  /\ memories \in Seq([fact : Facts, confidence : 0..10,
                       source : {"explicit", "auto_extracted"}])
  /\ entities \in [Entities -> [count : Nat, confidence : 0..10]]
  /\ auto \in BOOLEAN
  /\ client \in [Clients -> [pc : {"idle", "wait", "hops", "all", "answered", "panicked"},
                             op : Ops \cup {NoOp}, before : Nat,
                             found : SUBSET (Facts \cup {"document"}), left : 0..5]]
  /\ consolidator \in [pc : {"select", "range", "summarize"}, todo : SUBSET Sessions]
  /\ requests \in 0..MaxRequests
  /\ stuck \in BOOLEAN
  /\ mentioned \in [Entities -> Nat]

\* source_count of an entity is the number of messages that mention it, also
\* when several patterns match in one message (deduplicate, Store).
CountsAreOfMessages == \A e \in Entities : entities[e].count = mentioned[e]

\* What was known when a query began is in its answer: if it hops far enough
\* to recall, every memory that matches or as many matches as a hop may bring;
\* and, when nothing at all is found, nothing was known (QueryMemory reads the
\* memories several times, each time with the lock of its own).
AnsweredFrom(c) ==
  LET known == 1..client[c].before
      matching == Matching(client[c].op.query)
      told == {i \in matching : memories[i].fact \in client[c].found}
  IN
  /\ client[c].op.hops >= 3 => known \cap matching \subseteq told \/ Cardinality(told) >= TopK
  /\ client[c].found = {} => known = {}

QueryMissesNothing == \A c \in Clients : Asks(c, "answered") => AnsweredFrom(c)

\* Every call is answered, or ends in a panic, unless the consolidator has locked
\* itself out, or the call is a query that waits for an embedder whose lock an
\* answer that was too short has jammed: no other operation holds a lock and waits
\* for it (the Locked suffix of addUserMemoryLocked, the unlocked steps of a query).
CallsAnswered ==
  \A c \in Clients :
    client[c].pc \in {"wait", "hops", "all"} ~>
      \/ client[c].pc \in {"answered", "panicked"}
      \/ Jammed
      \/ stuck /\ Embeds(c)

\* docs/spec.md:2009-2012: a conversation of more than 50 messages that is
\* idle for an hour is summarised and cut (the body of consolidate).
LongTalksShrink ==
  \A s \in Sessions : Long(s) ~> ~Long(s)
=============================================================================
