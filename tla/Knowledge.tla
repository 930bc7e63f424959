------------------------------- MODULE Knowledge -------------------------------
(***************************************************************************)
(* Knowledge bases: CreateKB, DeleteKB and IngestDocument of the memory    *)
(* Manager (manager.go), the search of the knowledge.search tool           *)
(* (tool/handlers.go) and of RAGPipeline.Query (rag.go), and what they     *)
(* share: the rows of the database, the full-text index (fts.go), the      *)
(* vectors in memory (vector.go) and the cache of embeddings               *)
(* (embedding.go).                                                         *)
(*                                                                         *)
(* The calls run concurrently, each in a goroutine of its own, and the     *)
(* process may end between any two steps.  Each statement of the database  *)
(* and each section under a lock is one step.  The vector of a text is     *)
(* written as the text itself.  Scores are left out: a search finds the    *)
(* vectors equal to that of its query, which score highest, and of these   *)
(* any top_k when there are more, for the sort is not stable.  Statements  *)
(* fail on constraints only.                                               *)
(*                                                                         *)
(* A definition marked "Mutant" is a wrong version of the one after it;    *)
(* it is used only to show that the property it breaks can fail.           *)
(***************************************************************************)
EXTENDS Integers, Sequences, FiniteSets

CONSTANTS
  Bases,       \* ids of knowledge bases, each given out once
  Docs,        \* ids of documents; also the calls of IngestDocument
  Searches,    \* calls of the search
  Texts,       \* the text of a chunk, or of a query
  Files,       \* the chunks a file may be cut into
  Batch,       \* texts in one request of an embedder: 10
  MaxHits,     \* the best entries a search shows: 5, or up to 20 on request
  AllBases,    \* no id of a base is given: the collection "documents"
  NoBase,      \* no row
  NoVector,    \* nil
  MaxRestarts  \* bound: how often the process ends

ASSUME KnowledgeAssumption ==
  /\ Docs \cap Searches = {}
  /\ Files \subseteq Seq(Texts)
  /\ Batch \in Nat \ {0} /\ MaxHits \in Nat \ {0}
  /\ AllBases \notin Bases
  /\ NoBase \notin Bases
  /\ NoVector \notin Texts
  /\ MaxRestarts \in Nat

VARIABLES
  created,      \* the bases that have been created
  rows,         \* rows of knowledge_bases
  documents,    \* rows of documents: the base of each, or NoBase
  index,        \* rows of fts_documents: <<entity_type, entity_id>>
  collections,  \* VectorDB.collections
  cache,        \* CachedEmbedder.cache
  jammed,       \* CachedEmbedder.mu is write-locked for good
  deleting,     \* bases whose DeleteKB has still to clear the vectors
  pc,           \* where each call is
  base,         \* the base each call was given
  texts,        \* what each call has embedded: chunks, or the query
  found,        \* the vectors it has
  next,         \* the chunk an ingestion inserts next
  hits,         \* what a search has found
  restarts,     \* how often the process has ended
  settled,      \* history: ingestions past their inserts at the last DeleteKB
  expected      \* history: documents searchable when a search began

database == <<rows, documents, index>>
call == <<base, texts>>
history == <<settled, expected>>
vars == <<created, database, collections, cache, jammed, deleting, pc, call, found,
          next, hits, restarts, history>>

Calls == Docs \cup Searches

Collections == Bases \cup {AllBases}

Init ==
  /\ created = {} /\ rows = {} /\ index = {} /\ deleting = {}
  /\ documents = [d \in Docs |-> NoBase]
  /\ collections = [k \in Collections |-> {}]
  /\ cache = [t \in Texts |-> NoVector]
  /\ jammed = FALSE
  /\ pc = [c \in Calls |-> "none"]
  /\ base = [c \in Calls |-> NoBase]
  /\ texts = [c \in Calls |-> <<>>]
  /\ found = [c \in Calls |-> <<>>]
  /\ next = [d \in Docs |-> 1]
  /\ hits = [s \in Searches |-> {}]
  /\ restarts = 0
  /\ settled = [b \in Bases |-> {}]
  /\ expected = [s \in Searches |-> {}]

Goto(c, place) == pc' = [pc EXCEPT ![c] = place]

-----------------------------------------------------------------------------
CreateKB(b) ==
  /\ b \notin created
  /\ created' = created \cup {b}
  /\ rows' = rows \cup {b}
  /\ UNCHANGED <<documents, index, collections, cache, jammed, deleting, pc, call,
                 found, next, hits, restarts, history>>

\* An ingestion of which no vector is to come.
PastInserts(d) == pc[d] \in {"index", "content", "done", "panicked", "lost"}

\* The first statement of DeleteKB; the documents of the base go with its row.
\* A base that is gone may be deleted again.
DeleteRow(b) ==
  /\ b \in created \ deleting
  /\ rows' = rows \ {b}
  /\ documents' = [d \in Docs |-> IF documents[d] = b THEN NoBase ELSE documents[d]]
  /\ deleting' = deleting \cup {b}
  /\ settled' = [settled EXCEPT ![b] = {d \in Docs : base[d] = b /\ PastInserts(d)}]
  /\ UNCHANGED <<created, index, collections, cache, jammed, pc, call, found, next,
                 hits, restarts, expected>>

\* Mutant: the name of the collection lacks the id.
ClearedName(b) == AllBases

Cleared(b) == b

\* The second step of DeleteKB, VectorDB.Clear.
ClearVectors(b) ==
  /\ b \in deleting
  /\ collections' = [collections EXCEPT ![Cleared(b)] = {}]
  /\ deleting' = deleting \ {b}
  /\ UNCHANGED <<created, database, cache, jammed, pc, call, found, next, hits,
                 restarts, history>>

-----------------------------------------------------------------------------
\* IngestDocument has read the file and cut it.  The id of the base comes from
\* the window, which may still show one that was deleted.  Of a binary file
\* only a row is stored.
Accept(d, b, file) ==
  /\ pc[d] = "none"
  /\ base' = [base EXCEPT ![d] = b]
  /\ texts' = [texts EXCEPT ![d] = file]
  /\ \/ Goto(d, "store")
     \/ file = <<>> /\ Goto(d, "storeBinary")
  /\ UNCHANGED <<created, database, collections, cache, jammed, deleting, found, next,
                 hits, restarts, history>>

\* The file cannot be read or is too large.
Reject(d) ==
  /\ pc[d] = "none"
  /\ Goto(d, "failed")
  /\ UNCHANGED <<created, database, collections, cache, jammed, deleting, call, found,
                 next, hits, restarts, history>>

\* Mutant: a document without text is not stored.
StoredText(d) == IF base[d] \in rows /\ texts[d] # <<>> THEN base[d] ELSE NoBase

Stored(d) == IF base[d] \in rows THEN base[d] ELSE NoBase

\* storeDocument ignores that the INSERT fails when the base has no row.
Store(d) ==
  /\ pc[d] \in {"store", "storeBinary"}
  /\ documents' = [documents EXCEPT ![d] = Stored(d)]
  /\ Goto(d, IF pc[d] = "storeBinary" THEN "done"
             ELSE IF texts[d] = <<>> THEN "index" ELSE "lookup")
  /\ UNCHANGED <<created, rows, index, collections, cache, jammed, deleting, call, found,
                 next, hits, restarts, history>>

\* VectorDB.Insert: an entry with the same id is replaced.
Insert(d) ==
  /\ pc[d] = "insert"
  /\ LET i == next[d]
     IN  /\ collections' =
              [collections EXCEPT ![base[d]] =
                 {e \in @ : e.doc # d \/ e.chunk # i}
                   \cup {[doc |-> d, chunk |-> i, vector |-> found[d][i]]}]
         /\ next' = [next EXCEPT ![d] = i + 1]
         /\ Goto(d, IF i = Len(texts[d]) THEN "index" ELSE "insert")
  /\ UNCHANGED <<created, database, cache, jammed, deleting, call, found, hits, restarts,
                 history>>

\* FTSManager.Index, for the document and for its chunks; the id is new, so the
\* DELETE before the INSERT finds nothing.
IndexDocument(d) ==
  /\ pc[d] = "index"
  /\ index' = index \cup {<<"document", d>>}
  /\ Goto(d, "content")
  /\ UNCHANGED <<created, rows, documents, collections, cache, jammed, deleting, call,
                 found, next, hits, restarts, history>>

IndexContent(d) ==
  /\ pc[d] = "content"
  /\ index' = index \cup {<<"document_content", d>>}
  /\ Goto(d, "done")
  /\ UNCHANGED <<created, rows, documents, collections, cache, jammed, deleting, call,
                 found, next, hits, restarts, history>>

-----------------------------------------------------------------------------
\* CachedEmbedder.Embed, for the chunks of a document or for a query.
Missing(c) == {i \in DOMAIN texts[c] : found[c][i] = NoVector}

WithVectors(c) == IF c \in Docs THEN "insert" ELSE "search"

\* What is cached is taken from the cache.
Lookup(c) ==
  /\ pc[c] = "lookup"
  /\ ~jammed
  /\ LET cached == [i \in 1..Len(texts[c]) |-> cache[texts[c][i]]]
     IN  /\ found' = [found EXCEPT ![c] = cached]
         /\ Goto(c, IF \E i \in DOMAIN cached : cached[i] = NoVector
                    THEN "embed" ELSE WithVectors(c))
  /\ UNCHANGED <<created, database, collections, cache, jammed, deleting, call, next,
                 hits, restarts, history>>

Remember(c) ==
  cache' = [t \in Texts |-> IF \E i \in Missing(c) : texts[c][i] = t THEN t ELSE cache[t]]

\* The provider has answered every batch in full, in the order of its texts.
\* Another call may have cached some of them meanwhile.
Answered(c) ==
  /\ pc[c] = "embed"
  /\ ~jammed
  /\ found' = [found EXCEPT ![c] = texts[c]]
  /\ Remember(c)
  /\ Goto(c, WithVectors(c))
  /\ UNCHANGED <<created, database, collections, jammed, deleting, call, next, hits,
                 restarts, history>>

\* Mutant: the texts are asked for again.
AskAgain(c) == "lookup"

WithoutVectors(c) == IF c \in Docs THEN "index" ELSE "failed"

\* An error of the provider: the document is stored without vectors.
AnswerFails(c) ==
  /\ pc[c] = "embed"
  /\ Goto(c, WithoutVectors(c))
  /\ UNCHANGED <<created, database, collections, cache, jammed, deleting, call, found,
                 next, hits, restarts, history>>

\* The place of i among the places in S.
Place(S, i) == Cardinality({j \in S : j <= i})

BatchOf(c, i) == (Place(Missing(c), i) - 1) \div Batch

\* The missing texts whose vectors come: the first of each batch, down to none in
\* the body of an error, and not all.
ShortAnswers(c) ==
  {S \in SUBSET Missing(c) :
     /\ S # Missing(c)
     /\ \A i \in S, j \in Missing(c) : j < i /\ BatchOf(c, j) = BatchOf(c, i) => j \in S}

\* The batches are joined without a gap and matched by position: what comes after
\* a batch that is too short is remembered for texts it is not of.
RememberShifted(c, S) ==
  LET written(t) == {i \in Missing(c) : texts[c][i] = t /\ Place(Missing(c), i) <= Cardinality(S)}
  IN  /\ cache' \in [Texts -> Texts \cup {NoVector}]
      /\ \A t \in Texts :
           IF written(t) = {} THEN cache'[t] = cache[t]
           ELSE \E i \in written(t), j \in S :
                  /\ \A k \in written(t) : k <= i
                  /\ Place(S, j) = Place(Missing(c), i)
                  /\ cache'[t] = texts[c][j]

\* Mutant: the lock is released by a deferred call.
IndexUnlocked(c) == Goto(c, "panicked") /\ UNCHANGED jammed

\* The loop panics at the first vector that is not there, with the lock held.
IndexOutOfRange(c) == Goto(c, "panicked") /\ jammed' = TRUE

\* The provider answers with fewer vectors than texts.  Restart is the case of a
\* panic that ends the process; this is that of one the window's dispatcher
\* recovers from.
AnswerShort(c) ==
  /\ pc[c] = "embed"
  /\ ~jammed
  /\ \E S \in ShortAnswers(c) : RememberShifted(c, S)
  /\ IndexOutOfRange(c)
  /\ UNCHANGED <<created, database, collections, deleting, call, found, next, hits,
                 restarts, history>>

-----------------------------------------------------------------------------
\* An ingestion that has all its vectors.
HasVectors(d) == texts[d] # <<>> /\ found[d] = texts[d]

Searchable == {d \in Docs : pc[d] = "done" /\ HasVectors(d)}

StartSearch(s, b, query) ==
  /\ pc[s] = "none"
  /\ base' = [base EXCEPT ![s] = b]
  /\ texts' = [texts EXCEPT ![s] = <<query>>]
  /\ Goto(s, "lookup")
  /\ expected' = [expected EXCEPT ![s] = Searchable]
  /\ UNCHANGED <<created, database, collections, cache, jammed, deleting, found, next,
                 hits, restarts, settled>>

\* Mutant: the id of the base is not looked at.
SearchedAlways(b) == AllBases

Searched(b) == b

Similar(s) == {e \in collections[Searched(base[s])] : e.vector = found[s][1]}

\* VectorDB.SearchWithMinScore in the one collection of the base, or in
\* "documents" when none is given.
Search(s) ==
  /\ pc[s] = "search"
  /\ \E shown \in SUBSET Similar(s) :
       /\ IF Cardinality(Similar(s)) <= MaxHits THEN shown = Similar(s)
                                               ELSE Cardinality(shown) = MaxHits
       /\ hits' = [hits EXCEPT ![s] = shown]
  /\ Goto(s, "done")
  /\ UNCHANGED <<created, database, collections, cache, jammed, deleting, call, found,
                 next, restarts, history>>

-----------------------------------------------------------------------------
Kept(d) == documents[d]

\* The process ends and starts again: what is in memory is lost.
Restart ==
  /\ restarts < MaxRestarts
  /\ restarts' = restarts + 1
  /\ documents' = [d \in Docs |-> Kept(d)]
  /\ collections' = [k \in Collections |-> {}]
  /\ cache' = [t \in Texts |-> NoVector]
  /\ jammed' = FALSE
  /\ deleting' = {}
  /\ pc' = [c \in Calls |-> IF pc[c] = "none" THEN "none" ELSE "lost"]
  /\ texts' = [c \in Calls |-> <<>>]
  /\ found' = [c \in Calls |-> <<>>]
  /\ next' = [d \in Docs |-> 1]
  /\ hits' = [s \in Searches |-> {}]
  /\ expected' = [s \in Searches |-> {}]
  /\ UNCHANGED <<created, rows, index, base, settled>>

Ingest(d) ==
  \/ Reject(d)
  \/ \E b \in created, file \in Files : Accept(d, b, file)

Step(c) ==
  \/ Lookup(c) \/ Answered(c) \/ AnswerFails(c) \/ AnswerShort(c)
  \/ c \in Docs /\ (Store(c) \/ Insert(c) \/ IndexDocument(c) \/ IndexContent(c))
  \/ c \in Searches /\ Search(c)

Next ==
  \/ \E b \in Bases : CreateKB(b) \/ DeleteRow(b) \/ ClearVectors(b)
  \/ \E d \in Docs : Ingest(d)
  \/ \E s \in Searches, b \in created \cup {AllBases}, t \in Texts : StartSearch(s, b, t)
  \/ \E c \in Calls : Step(c)
  \/ Restart

Spec == Init /\ [][Next]_vars

\* Goroutines are scheduled, and the 30 seconds of the embedders' HTTP clients
\* end a request that is not answered.
FairSpec == Spec /\ \A c \in Calls : WF_vars(Step(c))

-----------------------------------------------------------------------------
Entries == [doc : Docs, chunk : Nat, vector : Texts]

Places == {"none", "store", "storeBinary", "lookup", "embed", "insert", "index", "content",
           "search", "done", "failed", "panicked", "lost"}

\* The type of the state; no entry of the vector database has a nil vector.
TypeOK ==
  /\ rows \subseteq created /\ deleting \subseteq created /\ created \subseteq Bases
  /\ documents \in [Docs -> Bases \cup {NoBase}]
  /\ index \subseteq {"document", "document_content"} \X Docs
  /\ collections \in [Collections -> SUBSET Entries]
  /\ cache \in [Texts -> Texts \cup {NoVector}]
  /\ jammed \in BOOLEAN
  /\ pc \in [Calls -> Places]
  /\ base \in [Calls -> Bases \cup {AllBases, NoBase}]
  /\ texts \in [Calls -> Seq(Texts)]
  /\ found \in [Calls -> Seq(Texts \cup {NoVector})]
  /\ next \in [Docs -> Nat \ {0}]
  /\ hits \in [Searches -> SUBSET Entries]
  /\ restarts \in 0..MaxRestarts
  /\ settled \in [Bases -> SUBSET Docs]
  /\ expected \in [Searches -> SUBSET Docs]

\* Whatever ingestions, deletions and ends of the process interleave, a vector
\* or an index row whose document is not in the database is left only of a base
\* that has been deleted: IngestDocument stores first and indexes afterwards.
OrphansOnlyOfDeleted ==
  /\ \A b \in rows : \A e \in collections[b] : documents[e.doc] = b
  /\ \A row \in index : base[row[2]] \in rows => documents[row[2]] = base[row[2]]

\* Once DeleteKB has returned, no row and no vector is left, or comes back, of
\* the documents whose vectors had all been inserted when it was called; those
\* of an ingestion that was under way may stay.  It does not touch the index:
\* the rows with the names and the text of the documents stay, and nothing
\* removes them.
DeletionIsFinal ==
  \A b \in Bases \ deleting : \A d \in settled[b] :
    documents[d] # b /\ \A e \in collections[b] : e.doc # d

\* Each vector in a collection is that of its own text, and so is each in the
\* cache while its lock can be had: answers are matched by position to the texts
\* a call did not find, several calls look up and fill the cache at once, and the
\* vectors of an answer that was too short are remembered for the wrong texts,
\* but then the lock is held, and nobody reads them (CachedEmbedder.Embed).
VectorsMatchTexts ==
  /\ jammed \/ \A t \in Texts : cache[t] \in {t, NoVector}
  /\ \A k \in Collections : \A e \in collections[k] :
       e.chunk \in DOMAIN texts[e.doc] /\ e.vector = texts[e.doc][e.chunk]

\* The documents a search is to show: they had been ingested with their vectors
\* when it began, they are in the database, and a chunk of theirs is the query.
Wanted(s) ==
  {d \in expected[s] : /\ documents[d] # NoBase
                       /\ \E i \in DOMAIN texts[d] : texts[d][i] = texts[s][1]}

Shown(s) == {e.doc : e \in hits[s]}

\* A search in a base shows each document of it that it is to show, or else as
\* many entries as it may, whatever else is ingested, searched, deleted or cached
\* meanwhile.
SearchFindsIngested ==
  \A s \in Searches : pc[s] = "done" =>
    \/ {d \in Wanted(s) : base[d] = base[s]} \subseteq Shown(s)
    \/ Cardinality(hits[s]) = MaxHits

\* The parameter knowledge_base_id of knowledge.search, tool/handlers.go:1313:
\* "optional, searches all if empty".
SearchesAllIfEmpty ==
  \A s \in Searches : pc[s] = "done" /\ base[s] = AllBases => Wanted(s) \subseteq Shown(s)

Ended(c) == pc[c] \in {"done", "failed", "panicked", "lost"}

\* A call returns, whatever the provider answers, unless an answer was too
\* short: the lock of the cache is then never released, and calls that embed wait.
CallsEnd == \A c \in Calls : pc[c] # "none" ~> Ended(c) \/ jammed
=============================================================================
