---------------------------- MODULE KnowledgeProofs -----------------------------
(***************************************************************************)
(* Theorems about Knowledge, for any bases, documents, searches, texts and *)
(* files, and about UserMemory, for any clients, texts, patterns and       *)
(* limits.  The two have no state in common.                               *)
(***************************************************************************)
EXTENDS Knowledge, UserMemory, FiniteSetTheorems, TLAPS

\* The entry of chunk i of a document.
EntryOf(d, i) == [doc |-> d, chunk |-> i, vector |-> texts[d][i]]

\* A base that has its row has not been deleted.
BaseInv == rows \cap deleting = {} /\ NoBase \notin created /\ AllBases \notin created

\* A call that goes on with vectors has those of its texts, one that asks the
\* provider lacks some.
CallInv ==
  /\ jammed \/ \A t \in Texts : cache[t] \in {t, NoVector}
  /\ \A c \in Calls :
       /\ pc[c] = "embed" => found[c] # texts[c]
       /\ pc[c] \in {"insert", "search"} => found[c] = texts[c]
       /\ pc[c] \in {"lookup", "embed", "insert"} => texts[c] # <<>>
       /\ pc[c] = "storeBinary" => texts[c] = <<>>

\* A document is stored in its base or nowhere, and stored before it goes on.
DocInv ==
  \A d \in Docs :
    /\ pc[d] # "search"
    /\ base[d] \in created \cup {NoBase}
    /\ pc[d] \notin {"none", "failed", "lost"} => base[d] \in created
    /\ documents[d] # NoBase => documents[d] = base[d] /\ base[d] \in rows
    /\ pc[d] \in {"none", "store", "storeBinary"} => documents[d] = NoBase
    /\ pc[d] \in {"lookup", "embed", "insert", "index", "content", "done", "panicked"}
         => (base[d] \in rows => documents[d] = base[d])
    /\ pc[d] \in {"none", "store", "storeBinary", "lookup", "embed"} => next[d] = 1
    /\ pc[d] = "insert" => next[d] <= Len(texts[d])

\* An index row is of a document past the step that stores it.
IndexInv ==
  \A row \in index :
    /\ pc[row[2]] \in {"content", "done", "lost"}
    /\ base[row[2]] \in rows => documents[row[2]] = base[row[2]]

\* An entry is of a document of its collection, and of one of its chunks.
EntryInv ==
  /\ collections[AllBases] = {}
  /\ \A b \in Bases : \A e \in collections[b] :
       /\ base[e.doc] = b
       /\ pc[e.doc] \in {"insert", "index", "content", "done"}
       /\ e.chunk \in 1..Len(texts[e.doc])
       /\ e.vector = texts[e.doc][e.chunk]

\* While its base is not deleted, a document keeps the entries it was given.
InsertedInv ==
  \A d \in Docs : base[d] \in rows =>
    /\ pc[d] = "insert" =>
         \A j \in 1..Len(texts[d]) : j < next[d] => EntryOf(d, j) \in collections[base[d]]
    /\ pc[d] \in {"index", "content", "done"} /\ HasVectors(d) =>
         \A j \in 1..Len(texts[d]) : EntryOf(d, j) \in collections[base[d]]

\* What DeletionIsFinal needs of the documents settled at a deletion.
SettledInv ==
  \A b \in Bases : \A d \in settled[b] :
    /\ base[d] = b /\ PastInserts(d) /\ b \notin rows
    /\ b \notin deleting => \A e \in collections[b] : e.doc # d

\* Chunk i of a document is the query of a search for some i.
HoldsQuery(d, s) == \E i \in 1..Len(texts[d]) : texts[d][i] = texts[s][1]

\* What a search that has ended owes to the documents it was begun with.
ShowsExpected(s) ==
  \A d \in expected[s] :
    documents[d] # NoBase /\ base[d] = base[s] /\ HoldsQuery(d, s) => \E e \in hits[s] : e.doc = d

\* A search that shows all it may.
Full(s) == Cardinality(hits[s]) = MaxHits

\* A search was begun with documents that had been ingested with their vectors.
SearchInv ==
  \A s \in Searches :
    /\ pc[s] \in {"none", "lookup", "embed", "search", "done", "failed", "panicked", "lost"}
    /\ pc[s] \in {"lookup", "embed", "search", "done"} =>
         Len(texts[s]) = 1 /\ \A d \in expected[s] : pc[d] = "done" /\ HasVectors(d)
    /\ pc[s] \in {"lookup", "embed", "search"} => base[s] \in Collections
    /\ pc[s] = "done" => ShowsExpected(s) \/ Full(s)

Inv == /\ TypeOK /\ BaseInv /\ CallInv /\ DocInv /\ IndexInv /\ EntryInv /\ InsertedInv
       /\ SettledInv /\ SearchInv

\* A step that leaves the searches that have ended and the documents that were
\* ingested as they are, but for rows it may remove, keeps SearchInv.
LEMMA SearchFrame ==
  ASSUME TypeOK, SearchInv, UNCHANGED <<hits, expected>>,
         \A s \in Searches :
           /\ base'[s] = base[s] /\ texts'[s] = texts[s]
           /\ \/ pc'[s] = pc[s]
              \/ pc[s] \in {"lookup", "embed"} /\ pc'[s] \in {"embed", "search", "failed", "panicked"},
         \A d \in Docs :
           /\ pc[d] = "done" => /\ pc'[d] = "done" /\ base'[d] = base[d]
                                 /\ texts'[d] = texts[d] /\ found'[d] = found[d]
                                 /\ documents'[d] \in {documents[d], NoBase}
  PROVE  SearchInv'
<1> SUFFICES ASSUME NEW s \in Searches
             PROVE  /\ pc'[s] \in {"none", "lookup", "embed", "search", "done", "failed", "panicked", "lost"}
                    /\ pc'[s] \in {"lookup", "embed", "search", "done"} =>
                         Len(texts'[s]) = 1 /\ \A d \in expected'[s] : pc'[d] = "done" /\ HasVectors(d)'
                    /\ pc'[s] \in {"lookup", "embed", "search"} => base'[s] \in Collections
                    /\ pc'[s] = "done" => ShowsExpected(s)' \/ Full(s)'
  BY DEF SearchInv
<1>1. /\ expected[s] \subseteq Docs
      /\ expected'[s] = expected[s] /\ hits'[s] = hits[s]
  BY DEF TypeOK
<1>2. pc[s] \in {"lookup", "embed", "search", "done"} => \A d \in expected[s] : pc[d] = "done"
  BY DEF SearchInv
<1>3. ASSUME pc'[s] = "done", ~Full(s)' PROVE ShowsExpected(s)'
  <2>1. pc[s] = "done" /\ ShowsExpected(s)
    BY <1>1, <1>3 DEF SearchInv, Full
  <2>2. SUFFICES ASSUME NEW d \in expected[s], documents'[d] # NoBase, base'[d] = base'[s], HoldsQuery(d, s)'
                 PROVE  \E e \in hits[s] : e.doc = d
    BY <1>1 DEF ShowsExpected
  <2>3. documents[d] # NoBase /\ base[d] = base[s] /\ HoldsQuery(d, s)
    BY <1>1, <1>2, <2>1, <2>2 DEF HoldsQuery
  <2>4. QED
    BY <2>1, <2>3 DEF ShowsExpected
<1>4. QED
  BY <1>1, <1>2, <1>3 DEF SearchInv, HasVectors

\* The invariant holds before anything was created.
LEMMA InitInv == Init => Inv
<1> SUFFICES ASSUME Init PROVE Inv
  OBVIOUS
<1> USE KnowledgeAssumption DEF Init, Calls, Collections
<1>1. TypeOK
  <2>1. <<>> \in Seq(Texts) /\ <<>> \in Seq(Texts \cup {NoVector})
    OBVIOUS
  <2>2. texts \in [Calls -> Seq(Texts)] /\ found \in [Calls -> Seq(Texts \cup {NoVector})]
    BY <2>1
  <2>3. next \in [Docs -> Nat \ {0}] /\ restarts \in 0..MaxRestarts
    OBVIOUS
  <2>4. pc \in [Calls -> Places]
    BY DEF Places
  <2>5. collections \in [Collections -> SUBSET Entries] /\ hits \in [Searches -> SUBSET Entries]
    OBVIOUS
  <2>6. QED
    BY <2>2, <2>3, <2>4, <2>5 DEF TypeOK
<1>2. BaseInv /\ CallInv /\ DocInv
  BY DEF BaseInv, CallInv, DocInv
<1>3. IndexInv /\ EntryInv /\ InsertedInv
  BY DEF IndexInv, EntryInv, InsertedInv
<1>4. SettledInv /\ SearchInv
  BY DEF SettledInv, SearchInv
<1>5. QED
  BY <1>1, <1>2, <1>3, <1>4 DEF Inv

\* Creating a base keeps Inv.
LEMMA CreateKBKeepsInv == ASSUME Inv, NEW b \in Bases, CreateKB(b) PROVE Inv'
<1> USE KnowledgeAssumption DEF Inv, Calls, CreateKB, Goto, database, call, history
<1>1. TypeOK'
  BY DEF TypeOK, Entries, Places, Collections
<1>2. (BaseInv /\ CallInv)'
  BY DEF TypeOK, BaseInv, CallInv, DocInv
<1>3. DocInv'
  BY DEF TypeOK, DocInv, BaseInv, CallInv
<1>4. (IndexInv /\ SettledInv)'
  BY DEF TypeOK, IndexInv, DocInv, BaseInv, SettledInv, EntryInv, Collections, PastInserts
<1>5. EntryInv'
  BY DEF TypeOK, EntryInv, DocInv, CallInv, BaseInv, Collections
<1>6. InsertedInv'
  BY DEF TypeOK, InsertedInv, DocInv, EntryInv, BaseInv, CallInv, Collections, HasVectors, EntryOf
<1>7. SearchInv'
  BY SMTT(60), SearchFrame DEF TypeOK, SearchInv, DocInv
<1>8. QED
  BY <1>1, <1>2, <1>3, <1>4, <1>5, <1>6, <1>7

\* DeleteKB's statement keeps Inv.
LEMMA DeleteRowKeepsInv == ASSUME Inv, NEW b \in Bases, DeleteRow(b) PROVE Inv'
<1> USE KnowledgeAssumption DEF Inv, Calls, DeleteRow, Goto, database, call, history
<1>1. TypeOK'
  BY DEF TypeOK, Entries, Places, Collections
<1>2. (BaseInv /\ CallInv)'
  BY DEF TypeOK, BaseInv, CallInv, DocInv
<1>3. DocInv'
  BY DEF TypeOK, DocInv, BaseInv, CallInv
<1>4. (IndexInv /\ SettledInv)'
  BY DEF TypeOK, IndexInv, DocInv, BaseInv, SettledInv, EntryInv, Collections, PastInserts
<1>5. EntryInv'
  BY DEF TypeOK, EntryInv, DocInv, CallInv, BaseInv, Collections
<1>6. InsertedInv'
  BY DEF TypeOK, InsertedInv, DocInv, EntryInv, BaseInv, CallInv, Collections, HasVectors, EntryOf
<1>7. SearchInv'
  BY SMTT(60), SearchFrame DEF TypeOK, SearchInv, DocInv
<1>8. QED
  BY <1>1, <1>2, <1>3, <1>4, <1>5, <1>6, <1>7

\* Clearing the vectors keeps Inv.
LEMMA ClearVectorsKeepsInv == ASSUME Inv, NEW b \in Bases, ClearVectors(b) PROVE Inv'
<1> USE KnowledgeAssumption DEF Inv, Calls, ClearVectors, Goto, database, call, history, Cleared
<1>1. TypeOK'
  BY DEF TypeOK, Entries, Places, Collections
<1>2. (BaseInv /\ CallInv)'
  BY DEF TypeOK, BaseInv, CallInv, DocInv
<1>3. DocInv'
  BY DEF TypeOK, DocInv, BaseInv, CallInv
<1>4. (IndexInv /\ SettledInv)'
  BY DEF TypeOK, IndexInv, DocInv, BaseInv, SettledInv, EntryInv, Collections, PastInserts
<1>5. EntryInv'
  BY DEF TypeOK, EntryInv, DocInv, CallInv, BaseInv, Collections
<1>6. InsertedInv'
  BY DEF TypeOK, InsertedInv, DocInv, EntryInv, BaseInv, CallInv, Collections, HasVectors, EntryOf
<1>7. SearchInv'
  BY SMTT(60), SearchFrame DEF TypeOK, SearchInv, DocInv
<1>8. QED
  BY <1>1, <1>2, <1>3, <1>4, <1>5, <1>6, <1>7

\* Beginning an ingestion keeps Inv.
LEMMA AcceptKeepsInv ==
  ASSUME Inv, NEW d \in Docs, NEW b \in created, NEW file \in Files, Accept(d, b, file)
  PROVE  Inv'
<1> USE KnowledgeAssumption DEF Inv, Calls, Accept, Goto, database, call, history
<1>1. TypeOK'
  BY DEF TypeOK, Entries, Places, Collections
<1>2. (BaseInv /\ CallInv)'
  BY DEF TypeOK, BaseInv, CallInv, DocInv
<1>3. DocInv'
  BY DEF TypeOK, DocInv, BaseInv, CallInv
<1>4. IndexInv'
  BY DEF TypeOK, IndexInv, DocInv, BaseInv
<1>5. SettledInv'
  <2>1. \A k \in Bases : \A x \in settled[k] : x \in Docs /\ x # d
    BY DEF SettledInv, PastInserts, TypeOK
  <2>2. \A x \in Docs : x # d => base'[x] = base[x] /\ pc'[x] = pc[x]
    BY DEF TypeOK
  <2>3. QED
    BY <2>1, <2>2 DEF SettledInv, PastInserts
<1>6. EntryInv'
  <2>1. ASSUME NEW k \in Bases, NEW e \in collections[k] PROVE e.doc \in Docs /\ e.doc # d
    <3>1. e \in Entries
      BY DEF TypeOK, Collections
    <3>2. pc[e.doc] # "none"
      BY DEF EntryInv
    <3>3. QED
      BY <3>1, <3>2 DEF Entries
  <2>2. \A x \in Docs : x # d => base'[x] = base[x] /\ texts'[x] = texts[x] /\ pc'[x] = pc[x]
    BY DEF TypeOK
  <2>3. QED
    BY <2>1, <2>2 DEF EntryInv
<1>7. InsertedInv'
  BY DEF TypeOK, InsertedInv, DocInv, EntryInv, BaseInv, CallInv, Collections, HasVectors, EntryOf
<1>8. SearchInv'
  BY SMTT(60), SearchFrame DEF TypeOK, SearchInv, DocInv
<1>9. QED
  BY <1>1, <1>2, <1>3, <1>4, <1>5, <1>6, <1>7, <1>8

\* Refusing a file keeps Inv.
LEMMA RejectKeepsInv == ASSUME Inv, NEW d \in Docs, Reject(d) PROVE Inv'
<1> USE KnowledgeAssumption DEF Inv, Calls, Reject, Goto, database, call, history
<1>1. TypeOK'
  BY DEF TypeOK, Entries, Places, Collections
<1>2. (BaseInv /\ CallInv)'
  BY DEF TypeOK, BaseInv, CallInv, DocInv
<1>3. DocInv'
  BY DEF TypeOK, DocInv, BaseInv, CallInv
<1>4. (IndexInv /\ SettledInv)'
  BY DEF TypeOK, IndexInv, DocInv, BaseInv, SettledInv, EntryInv, Collections, PastInserts
<1>5. EntryInv'
  BY DEF TypeOK, EntryInv, DocInv, CallInv, BaseInv, Collections
<1>6. InsertedInv'
  BY DEF TypeOK, InsertedInv, DocInv, EntryInv, BaseInv, CallInv, Collections, HasVectors, EntryOf
<1>7. SearchInv'
  BY SMTT(60), SearchFrame DEF TypeOK, SearchInv, DocInv
<1>8. QED
  BY <1>1, <1>2, <1>3, <1>4, <1>5, <1>6, <1>7

\* Storing the document keeps Inv.
LEMMA StoreKeepsInv == ASSUME Inv, NEW d \in Docs, Store(d) PROVE Inv'
<1> USE KnowledgeAssumption DEF Inv, Calls, Store, Stored, Goto, database, call, history
<1>1. TypeOK'
  BY DEF TypeOK, Entries, Places, Collections
<1>2. (BaseInv /\ CallInv)'
  BY DEF TypeOK, BaseInv, CallInv, DocInv
<1>3. DocInv'
  BY DEF TypeOK, DocInv, BaseInv, CallInv
<1>4. (IndexInv /\ SettledInv)'
  BY DEF TypeOK, IndexInv, DocInv, BaseInv, SettledInv, EntryInv, Collections, PastInserts
<1>5. EntryInv'
  BY DEF TypeOK, EntryInv, DocInv, CallInv, BaseInv, Collections
<1>6. InsertedInv'
  <2>1. pc'[d] = "done" => texts'[d] = <<>>
    BY DEF TypeOK, CallInv
  <2>2. HasVectors(d)' => pc'[d] \notin {"insert", "index", "content", "done"}
    BY <2>1 DEF HasVectors, TypeOK
  <2>3. QED
    BY <2>2 DEF TypeOK, InsertedInv, DocInv, HasVectors, EntryOf
<1>7. SearchInv'
  BY SMTT(60), SearchFrame DEF TypeOK, SearchInv, DocInv
<1>8. QED
  BY <1>1, <1>2, <1>3, <1>4, <1>5, <1>6, <1>7

\* Inserting a vector keeps Inv.
LEMMA InsertKeepsInv == ASSUME Inv, NEW d \in Docs, Insert(d) PROVE Inv'
<1> USE KnowledgeAssumption DEF Inv, Calls, Insert, Goto, database, call, history
<1>1. TypeOK'
  <2>1. /\ found[d] = texts[d] /\ texts[d] \in Seq(Texts)
        /\ next[d] \in 1..Len(texts[d])
    BY DEF TypeOK, CallInv, DocInv
  <2>2. base[d] \in Bases
    BY DEF TypeOK, DocInv
  <2>3. found[d][next[d]] \in Texts
    BY <2>1
  <2>4. [doc |-> d, chunk |-> next[d], vector |-> found[d][next[d]]] \in Entries
    BY <2>1, <2>3 DEF Entries
  <2>5. collections' \in [Collections -> SUBSET Entries]
    BY <2>2, <2>4 DEF TypeOK, Collections
  <2>6. QED
    BY <2>1, <2>5 DEF TypeOK, Places
<1>2. (BaseInv /\ CallInv)'
  BY DEF TypeOK, BaseInv, CallInv, DocInv
<1>3. DocInv'
  BY DEF TypeOK, DocInv, BaseInv, CallInv
<1>4. (IndexInv /\ SettledInv)'
  BY DEF TypeOK, IndexInv, DocInv, BaseInv, SettledInv, EntryInv, Collections, PastInserts
<1>5. EntryInv'
  <2>1. /\ found[d] = texts[d] /\ next[d] \in 1..Len(texts[d])
    BY DEF TypeOK, CallInv, DocInv
  <2>2. base[d] \in Bases
    BY DEF TypeOK, DocInv
  <2>3. SUFFICES ASSUME NEW b \in Bases, NEW e \in collections'[b]
                 PROVE  /\ base[e.doc] = b
                        /\ pc'[e.doc] \in {"insert", "index", "content", "done"}
                        /\ e.chunk \in 1..Len(texts[e.doc])
                        /\ e.vector = texts[e.doc][e.chunk]
    BY <2>2 DEF EntryInv, TypeOK, Collections
  <2>4. CASE e \in collections[b]
    BY <2>4 DEF EntryInv, TypeOK, Collections, Entries
  <2>5. CASE e \notin collections[b]
    <3>1. b = base[d] /\ e = [doc |-> d, chunk |-> next[d], vector |-> found[d][next[d]]]
      BY <2>2, <2>5 DEF TypeOK, Collections
    <3>2. pc'[d] \in {"insert", "index"}
      BY DEF TypeOK
    <3>3. QED
      BY <2>1, <3>1, <3>2
  <2>6. QED
    BY <2>4, <2>5
<1>6. InsertedInv'
  BY DEF TypeOK, InsertedInv, DocInv, EntryInv, BaseInv, CallInv, Collections, HasVectors, EntryOf
<1>7. SearchInv'
  BY SMTT(60), SearchFrame DEF TypeOK, SearchInv, DocInv
<1>8. QED
  BY <1>1, <1>2, <1>3, <1>4, <1>5, <1>6, <1>7

\* Indexing the document keeps Inv.
LEMMA IndexDocumentKeepsInv == ASSUME Inv, NEW d \in Docs, IndexDocument(d) PROVE Inv'
<1> USE KnowledgeAssumption DEF Inv, Calls, IndexDocument, Goto, database, call, history
<1>1. TypeOK'
  BY DEF TypeOK, Entries, Places, Collections
<1>2. (BaseInv /\ CallInv)'
  BY DEF TypeOK, BaseInv, CallInv, DocInv
<1>3. DocInv'
  BY DEF TypeOK, DocInv, BaseInv, CallInv
<1>4. (IndexInv /\ SettledInv)'
  BY DEF TypeOK, IndexInv, DocInv, BaseInv, SettledInv, EntryInv, Collections, PastInserts
<1>5. EntryInv'
  BY DEF TypeOK, EntryInv, DocInv, CallInv, BaseInv, Collections
<1>6. InsertedInv'
  BY DEF TypeOK, InsertedInv, DocInv, EntryInv, BaseInv, CallInv, Collections, HasVectors, EntryOf
<1>7. SearchInv'
  BY SMTT(60), SearchFrame DEF TypeOK, SearchInv, DocInv
<1>8. QED
  BY <1>1, <1>2, <1>3, <1>4, <1>5, <1>6, <1>7

\* Indexing its chunks keeps Inv.
LEMMA IndexContentKeepsInv == ASSUME Inv, NEW d \in Docs, IndexContent(d) PROVE Inv'
<1> USE KnowledgeAssumption DEF Inv, Calls, IndexContent, Goto, database, call, history
<1>1. TypeOK'
  BY DEF TypeOK, Entries, Places, Collections
<1>2. (BaseInv /\ CallInv)'
  BY DEF TypeOK, BaseInv, CallInv, DocInv
<1>3. DocInv'
  BY DEF TypeOK, DocInv, BaseInv, CallInv
<1>4. (IndexInv /\ SettledInv)'
  BY DEF TypeOK, IndexInv, DocInv, BaseInv, SettledInv, EntryInv, Collections, PastInserts
<1>5. EntryInv'
  BY DEF TypeOK, EntryInv, DocInv, CallInv, BaseInv, Collections
<1>6. InsertedInv'
  BY DEF TypeOK, InsertedInv, DocInv, EntryInv, BaseInv, CallInv, Collections, HasVectors, EntryOf
<1>7. SearchInv'
  BY SMTT(60), SearchFrame DEF TypeOK, SearchInv, DocInv
<1>8. QED
  BY <1>1, <1>2, <1>3, <1>4, <1>5, <1>6, <1>7

\* The look-up in the cache keeps Inv.
LEMMA LookupKeepsInv == ASSUME Inv, NEW c \in Calls, Lookup(c) PROVE Inv'
<1> USE KnowledgeAssumption DEF Inv, Calls, Lookup, Goto, database, call, history, WithVectors
<1>1. TypeOK'
  BY DEF TypeOK, Entries, Places, Collections
<1>2. (BaseInv /\ CallInv)'
  <2> DEFINE cached == [i \in 1..Len(texts[c]) |-> cache[texts[c][i]]]
  <2>1. /\ texts[c] \in Seq(Texts) /\ texts[c] # <<>> /\ found'[c] = cached
        /\ pc'[c] = IF \E i \in DOMAIN cached : cached[i] = NoVector
                    THEN "embed" ELSE WithVectors(c)
    BY DEF TypeOK, CallInv
  <2>2. \A i \in 1..Len(texts[c]) : texts[c][i] \in Texts
    BY <2>1
  <2>3. CASE \E i \in DOMAIN cached : cached[i] = NoVector
    <3>1. cached # texts[c]
      BY <2>1, <2>2, <2>3
    <3>2. QED
      BY <2>1, <2>3, <3>1 DEF TypeOK, BaseInv, CallInv
  <2>4. CASE ~\E i \in DOMAIN cached : cached[i] = NoVector
    <3>1. \A i \in 1..Len(texts[c]) : cached[i] = texts[c][i]
      <4> SUFFICES ASSUME NEW i \in 1..Len(texts[c]) PROVE cached[i] = texts[c][i]
        OBVIOUS
      <4>1. cached[i] = cache[texts[c][i]] /\ cached[i] # NoVector
        BY <2>4
      <4>2. QED
        BY <2>2, <4>1 DEF CallInv
    <3>2. cached = texts[c]
      <4>1. texts[c] = [i \in 1..Len(texts[c]) |-> texts[c][i]]
        BY <2>1
      <4>2. cached = [i \in 1..Len(texts[c]) |-> texts[c][i]]
        BY <3>1
      <4>3. QED
        BY <4>1, <4>2
    <3>3. QED
      BY <2>1, <2>4, <3>2 DEF TypeOK, BaseInv, CallInv
  <2>5. QED
    BY <2>3, <2>4
<1>3. DocInv'
  BY DEF TypeOK, DocInv, BaseInv, CallInv
<1>4. (IndexInv /\ SettledInv)'
  BY DEF TypeOK, IndexInv, DocInv, BaseInv, SettledInv, EntryInv, Collections, PastInserts
<1>5. EntryInv'
  BY DEF TypeOK, EntryInv, DocInv, CallInv, BaseInv, Collections
<1>6. InsertedInv'
  BY DEF TypeOK, InsertedInv, DocInv, EntryInv, BaseInv, CallInv, Collections, HasVectors, EntryOf
<1>7. SearchInv'
  BY SMTT(60), SearchFrame DEF TypeOK, SearchInv, DocInv
<1>8. QED
  BY <1>1, <1>2, <1>3, <1>4, <1>5, <1>6, <1>7

\* A full answer keeps Inv.
LEMMA AnsweredKeepsInv == ASSUME Inv, NEW c \in Calls, Answered(c) PROVE Inv'
<1> USE KnowledgeAssumption DEF Inv, Calls, Answered, Goto, database, call, history, WithVectors, Remember, Missing
<1>1. TypeOK'
  <2>1. cache' \in [Texts -> Texts \cup {NoVector}]
    BY DEF TypeOK
  <2>2. found' \in [Calls -> Seq(Texts \cup {NoVector})]
    <3>1. texts[c] \in Seq(Texts \cup {NoVector})
      BY DEF TypeOK
    <3>2. QED
      BY <3>1 DEF TypeOK
  <2>3. QED
    BY <2>1, <2>2 DEF TypeOK, Entries, Places, Collections
<1>2. (BaseInv /\ CallInv)'
  BY DEF TypeOK, BaseInv, CallInv, DocInv
<1>3. DocInv'
  BY DEF TypeOK, DocInv, BaseInv, CallInv
<1>4. (IndexInv /\ SettledInv)'
  BY DEF TypeOK, IndexInv, DocInv, BaseInv, SettledInv, EntryInv, Collections, PastInserts
<1>5. EntryInv'
  BY DEF TypeOK, EntryInv, DocInv, CallInv, BaseInv, Collections
<1>6. InsertedInv'
  BY DEF TypeOK, InsertedInv, DocInv, EntryInv, BaseInv, CallInv, Collections, HasVectors, EntryOf
<1>7. SearchInv'
  BY SMTT(60), SearchFrame DEF TypeOK, SearchInv, DocInv
<1>8. QED
  BY <1>1, <1>2, <1>3, <1>4, <1>5, <1>6, <1>7

\* An error of the provider keeps Inv.
LEMMA AnswerFailsKeepsInv == ASSUME Inv, NEW c \in Calls, AnswerFails(c) PROVE Inv'
<1> USE KnowledgeAssumption DEF Inv, Calls, AnswerFails, Goto, database, call, history, WithoutVectors
<1>1. TypeOK'
  BY DEF TypeOK, Entries, Places, Collections
<1>2. (BaseInv /\ CallInv)'
  BY DEF TypeOK, BaseInv, CallInv, DocInv
<1>3. DocInv'
  BY DEF TypeOK, DocInv, BaseInv, CallInv
<1>4. (IndexInv /\ SettledInv)'
  BY DEF TypeOK, IndexInv, DocInv, BaseInv, SettledInv, EntryInv, Collections, PastInserts
<1>5. EntryInv'
  BY DEF TypeOK, EntryInv, DocInv, CallInv, BaseInv, Collections
<1>6. InsertedInv'
  BY DEF TypeOK, InsertedInv, DocInv, EntryInv, BaseInv, CallInv, Collections, HasVectors, EntryOf
<1>7. SearchInv'
  BY SMTT(60), SearchFrame DEF TypeOK, SearchInv, DocInv
<1>8. QED
  BY <1>1, <1>2, <1>3, <1>4, <1>5, <1>6, <1>7

\* An answer that is too short keeps Inv.
LEMMA AnswerShortKeepsInv == ASSUME Inv, NEW c \in Calls, AnswerShort(c) PROVE Inv'
<1> USE KnowledgeAssumption DEF Inv, Calls, AnswerShort, Goto, database, call, history,
        RememberShifted, IndexOutOfRange
<1>1. TypeOK'
  BY SMTT(60) DEF TypeOK, Entries, Places, Collections
<1>2. (BaseInv /\ CallInv)'
  BY DEF TypeOK, BaseInv, CallInv, DocInv
<1>3. DocInv'
  BY DEF TypeOK, DocInv, BaseInv, CallInv
<1>4. (IndexInv /\ SettledInv)'
  BY DEF TypeOK, IndexInv, DocInv, BaseInv, SettledInv, EntryInv, Collections, PastInserts
<1>5. EntryInv'
  BY DEF TypeOK, EntryInv, DocInv, CallInv, BaseInv, Collections
<1>6. InsertedInv'
  BY DEF TypeOK, InsertedInv, DocInv, EntryInv, BaseInv, CallInv, Collections, HasVectors, EntryOf
<1>7. SearchInv'
  BY SMTT(60), SearchFrame DEF TypeOK, SearchInv, DocInv
<1>8. QED
  BY <1>1, <1>2, <1>3, <1>4, <1>5, <1>6, <1>7

\* Beginning a search keeps Inv.
LEMMA StartSearchKeepsInv ==
  ASSUME Inv, NEW s \in Searches, NEW b \in created \cup {AllBases}, NEW t \in Texts,
         StartSearch(s, b, t)
  PROVE  Inv'
<1> USE KnowledgeAssumption DEF Inv, Calls, StartSearch, Goto, database, call, history, Searchable
<1>1. TypeOK'
  BY DEF TypeOK, Entries, Places, Collections
<1>2. (BaseInv /\ CallInv)'
  BY DEF TypeOK, BaseInv, CallInv, DocInv
<1>3. DocInv'
  BY DEF TypeOK, DocInv, BaseInv, CallInv
<1>4. (IndexInv /\ SettledInv)'
  BY DEF TypeOK, IndexInv, DocInv, BaseInv, SettledInv, EntryInv, Collections, PastInserts
<1>5. EntryInv'
  BY DEF TypeOK, EntryInv, DocInv, CallInv, BaseInv, Collections
<1>6. InsertedInv'
  BY DEF TypeOK, InsertedInv, DocInv, EntryInv, BaseInv, CallInv, Collections, HasVectors, EntryOf
<1>7. SearchInv'
  <2> SUFFICES ASSUME NEW x \in Searches
               PROVE  /\ pc'[x] \in {"none", "lookup", "embed", "search", "done", "failed", "panicked", "lost"}
                      /\ pc'[x] \in {"lookup", "embed", "search", "done"} =>
                           Len(texts'[x]) = 1 /\ \A d \in expected'[x] : pc'[d] = "done" /\ HasVectors(d)'
                      /\ pc'[x] \in {"lookup", "embed", "search"} => base'[x] \in Collections
                      /\ pc'[x] = "done" => ShowsExpected(x)' \/ Full(x)'
    BY DEF SearchInv
  <2>1. \A d \in Docs : /\ pc'[d] = pc[d] /\ base'[d] = base[d] /\ texts'[d] = texts[d]
                         /\ found'[d] = found[d] /\ documents'[d] = documents[d]
    BY DEF TypeOK
  <2>2. CASE x = s
    <3>1. /\ pc'[s] = "lookup" /\ texts'[s] = <<t>> /\ expected'[s] = Searchable
          /\ base'[s] \in Collections
      BY DEF TypeOK, Collections
    <3>2. QED
      BY <2>1, <2>2, <3>1 DEF HasVectors
  <2>3. CASE x # s
    <3>1. /\ pc'[x] = pc[x] /\ base'[x] = base[x] /\ texts'[x] = texts[x]
          /\ expected'[x] = expected[x] /\ hits'[x] = hits[x] /\ expected[x] \subseteq Docs
      BY <2>3 DEF TypeOK
    <3>2. (ShowsExpected(x) => ShowsExpected(x)') /\ (Full(x) => Full(x)')
      BY <2>1, <3>1 DEF ShowsExpected, HoldsQuery, Full
    <3>3. QED
      BY <2>1, <3>1, <3>2 DEF SearchInv, HasVectors
  <2>4. QED
    BY <2>2, <2>3
<1>8. QED
  BY <1>1, <1>2, <1>3, <1>4, <1>5, <1>6, <1>7

\* The search in the collection keeps Inv.
LEMMA SearchKeepsInv == ASSUME Inv, NEW s \in Searches, Search(s) PROVE Inv'
<1> USE KnowledgeAssumption DEF Inv, Calls, Search, Goto, database, call, history, Searched
<1>1. TypeOK'
  <2>1. base[s] \in Collections
    BY DEF SearchInv
  <2>2. Similar(s) \subseteq Entries
    BY <2>1 DEF TypeOK, Similar
  <2>3. hits' \in [Searches -> SUBSET Entries]
    BY <2>2 DEF TypeOK
  <2>4. QED
    BY <2>3 DEF TypeOK, Places
<1>2. (BaseInv /\ CallInv)'
  BY DEF TypeOK, BaseInv, CallInv, DocInv
<1>3. DocInv'
  BY DEF TypeOK, DocInv, BaseInv, CallInv
<1>4. (IndexInv /\ SettledInv)'
  BY DEF TypeOK, IndexInv, DocInv, BaseInv, SettledInv, EntryInv, Collections, PastInserts
<1>5. EntryInv'
  BY DEF TypeOK, EntryInv, DocInv, CallInv, BaseInv, Collections
<1>6. InsertedInv'
  BY DEF TypeOK, InsertedInv, DocInv, EntryInv, BaseInv, CallInv, Collections, HasVectors, EntryOf
<1>7. SearchInv'
  <2>1. \A d \in Docs : pc'[d] = pc[d]
    BY DEF TypeOK, DocInv
  <2>2. found[s] = texts[s] /\ Len(texts[s]) = 1
    BY DEF CallInv, SearchInv
  <2>3. ASSUME hits'[s] = Similar(s) PROVE ShowsExpected(s)'
    <3>1. SUFFICES ASSUME NEW d \in expected[s], documents[d] # NoBase, base[d] = base[s],
                          HoldsQuery(d, s)
                   PROVE  \E e \in hits'[s] : e.doc = d
      BY DEF ShowsExpected, HoldsQuery
    <3>2. d \in Docs /\ pc[d] = "done" /\ HasVectors(d)
      BY DEF TypeOK, SearchInv
    <3>3. base[d] \in rows
      BY <3>1, <3>2 DEF DocInv
    <3>4. PICK i \in 1..Len(texts[d]) : texts[d][i] = texts[s][1]
      BY <3>1 DEF HoldsQuery
    <3>5. EntryOf(d, i) \in collections[base[s]]
      BY <3>1, <3>2, <3>3, <3>4 DEF InsertedInv
    <3>6. EntryOf(d, i).doc = d /\ EntryOf(d, i).vector = found[s][1]
      BY <2>2, <3>4 DEF EntryOf
    <3>7. EntryOf(d, i) \in hits'[s]
      BY <2>3, <3>5, <3>6 DEF Similar
    <3>8. QED
      BY <3>6, <3>7
  <2>4. hits'[s] = Similar(s) \/ Full(s)'
    <3>1. PICK shown \in SUBSET Similar(s) :
            /\ shown = Similar(s) \/ Cardinality(shown) = MaxHits
            /\ hits' = [hits EXCEPT ![s] = shown]
      OBVIOUS
    <3>2. hits'[s] = shown
      BY <3>1 DEF TypeOK
    <3>3. QED
      BY <3>1, <3>2 DEF Full
  <2>5. ASSUME NEW x \in Searches, x # s
        PROVE  /\ pc'[x] = pc[x] /\ (ShowsExpected(x) => ShowsExpected(x)')
               /\ Full(x) => Full(x)'
    <3>1. pc'[x] = pc[x] /\ hits'[x] = hits[x]
      BY <2>5 DEF TypeOK
    <3>2. QED
      BY <3>1 DEF ShowsExpected, HoldsQuery, Full
  <2>6. QED
    BY <2>1, <2>2, <2>3, <2>4, <2>5 DEF SearchInv, HasVectors, TypeOK
<1>8. QED
  BY <1>1, <1>2, <1>3, <1>4, <1>5, <1>6, <1>7

\* The end of the process keeps Inv.
LEMMA RestartKeepsInv == ASSUME Inv, Restart PROVE Inv'
<1> USE KnowledgeAssumption DEF Inv, Calls, Restart, Goto, database, call, history, Kept
<1>1. TypeOK'
  <2>1. <<>> \in Seq(Texts) /\ <<>> \in Seq(Texts \cup {NoVector})
    OBVIOUS
  <2>2. texts' \in [Calls -> Seq(Texts)] /\ found' \in [Calls -> Seq(Texts \cup {NoVector})]
    BY <2>1
  <2>3. pc' \in [Calls -> Places]
    BY DEF Places
  <2>4. collections' \in [Collections -> SUBSET Entries] /\ documents' \in [Docs -> Bases \cup {NoBase}]
    BY DEF TypeOK
  <2>5. restarts' \in 0..MaxRestarts /\ next' \in [Docs -> Nat \ {0}]
    BY DEF TypeOK
  <2>6. expected' \in [Searches -> SUBSET Docs] /\ hits' \in [Searches -> SUBSET Entries]
    OBVIOUS
  <2>7. QED
    BY <2>2, <2>3, <2>4, <2>5, <2>6 DEF TypeOK, Places
<1>2. (BaseInv /\ CallInv)'
  BY DEF TypeOK, BaseInv, CallInv, DocInv
<1>3. DocInv'
  BY DEF TypeOK, DocInv, BaseInv, CallInv
<1>4. IndexInv'
  BY DEF TypeOK, IndexInv, DocInv, BaseInv
<1>5. SettledInv'
  <2>1. \A b \in Bases : \A d \in settled[b] :
          d \in Docs /\ base[d] = b /\ pc'[d] = "lost" /\ b \notin rows
    BY DEF SettledInv, PastInserts, TypeOK
  <2>2. \A b \in Bases : collections'[b] = {}
    BY DEF Collections
  <2>3. QED
    BY <2>1, <2>2 DEF SettledInv, PastInserts
<1>6. EntryInv'
  BY DEF TypeOK, EntryInv, DocInv, CallInv, BaseInv, Collections
<1>7. InsertedInv'
  BY DEF TypeOK, InsertedInv, DocInv, EntryInv, BaseInv, CallInv, Collections, HasVectors, EntryOf
<1>8. SearchInv'
  BY SMTT(60), SearchFrame DEF TypeOK, SearchInv, DocInv
<1>9. QED
  BY <1>1, <1>2, <1>3, <1>4, <1>5, <1>6, <1>7, <1>8

\* So does every step.
LEMMA NextKeepsInv == ASSUME Inv, [Next]_vars PROVE Inv'
<1>1. CASE Next
  <2>1. ASSUME NEW b \in Bases, CreateKB(b) \/ DeleteRow(b) \/ ClearVectors(b) PROVE Inv'
    BY <2>1, CreateKBKeepsInv, DeleteRowKeepsInv, ClearVectorsKeepsInv
  <2>2. ASSUME NEW d \in Docs, Ingest(d) PROVE Inv'
    BY <2>2, AcceptKeepsInv, RejectKeepsInv DEF Ingest
  <2>3. ASSUME NEW s \in Searches, NEW b \in created \cup {AllBases}, NEW t \in Texts,
               StartSearch(s, b, t)
        PROVE  Inv'
    BY <2>3, StartSearchKeepsInv
  <2>4. ASSUME NEW c \in Calls, Step(c) PROVE Inv'
    BY <2>4, LookupKeepsInv, AnsweredKeepsInv, AnswerFailsKeepsInv, AnswerShortKeepsInv,
       StoreKeepsInv, InsertKeepsInv, IndexDocumentKeepsInv, IndexContentKeepsInv,
       SearchKeepsInv DEF Step
  <2>5. QED
    BY <1>1, <2>1, <2>2, <2>3, <2>4, RestartKeepsInv DEF Next
<1>2. CASE UNCHANGED vars
  <2> USE <1>2 DEF vars, database, call, history
  <2>1. TypeOK' /\ BaseInv' /\ CallInv'
    BY DEF Inv, TypeOK, BaseInv, CallInv
  <2>2. DocInv' /\ IndexInv' /\ EntryInv' /\ InsertedInv'
    BY DEF Inv, DocInv, IndexInv, EntryInv, InsertedInv, HasVectors, EntryOf
  <2>3. SettledInv' /\ SearchInv'
    BY DEF Inv, SettledInv, PastInserts, SearchInv, ShowsExpected, HoldsQuery, HasVectors, Full
  <2>4. QED
    BY <2>1, <2>2, <2>3 DEF Inv
<1>3. QED
  BY <1>1, <1>2

\* The invariant the theorems below are read off, in every reachable state.
THEOREM InvAlways == Spec => []Inv
BY InitInv, NextKeepsInv, PTL DEF Spec

\* The state keeps its type; no nil vector is ever stored as an entry, although
\* the cache hands out nil for what it does not hold.
THEOREM TypeCorrect == Spec => []TypeOK
<1>1. Inv => TypeOK
  BY DEF Inv
<1>2. QED
  BY <1>1, InvAlways, PTL

\* Vectors and index rows without a document are left of deleted bases only,
\* for any number of concurrent calls and ends of the process.
THEOREM OrphansOnlyOfDeletedAlways == Spec => []OrphansOnlyOfDeleted
<1>1. Inv => OrphansOnlyOfDeleted
  <2> SUFFICES ASSUME Inv PROVE OrphansOnlyOfDeleted
    OBVIOUS
  <2>1. ASSUME NEW b \in rows, NEW e \in collections[b] PROVE documents[e.doc] = b
    <3>1. b \in Bases /\ e.doc \in Docs
      BY DEF Inv, TypeOK, Entries, Collections
    <3>2. base[e.doc] = b /\ pc[e.doc] \in {"insert", "index", "content", "done"}
      BY <3>1 DEF Inv, EntryInv
    <3>3. QED
      BY <3>1, <3>2 DEF Inv, DocInv
  <2>2. QED
    BY <2>1 DEF Inv, IndexInv, OrphansOnlyOfDeleted
<1>2. QED
  BY <1>1, InvAlways, PTL

\* Nothing of the documents whose inserts were over at a deletion is left, or
\* comes back, once DeleteKB has returned.
THEOREM DeletionIsFinalAlways == Spec => []DeletionIsFinal
<1>1. Inv => DeletionIsFinal
  <2> SUFFICES ASSUME Inv, NEW b \in Bases \ deleting, NEW d \in settled[b]
               PROVE  documents[d] # b /\ \A e \in collections[b] : e.doc # d
    BY DEF DeletionIsFinal
  <2>1. base[d] = b /\ b \notin rows /\ \A e \in collections[b] : e.doc # d
    BY DEF Inv, SettledInv
  <2>2. d \in Docs /\ b # NoBase
    BY KnowledgeAssumption DEF Inv, TypeOK
  <2>3. QED
    BY <2>1, <2>2 DEF Inv, DocInv
<1>2. QED
  BY <1>1, InvAlways, PTL

\* Every vector that is stored is that of its own text, and so is every vector in
\* the cache until an answer that was too short has jammed its lock.
THEOREM VectorsMatchTextsAlways == Spec => []VectorsMatchTexts
<1>1. Inv => VectorsMatchTexts
  <2> SUFFICES ASSUME Inv PROVE VectorsMatchTexts
    OBVIOUS
  <2>1. jammed \/ \A t \in Texts : cache[t] \in {t, NoVector}
    BY DEF Inv, CallInv
  <2>2. ASSUME NEW k \in Collections, NEW e \in collections[k]
        PROVE  e.chunk \in DOMAIN texts[e.doc] /\ e.vector = texts[e.doc][e.chunk]
    <3>1. k \in Bases
      BY DEF Inv, EntryInv, Collections
    <3>2. e.chunk \in 1..Len(texts[e.doc]) /\ e.vector = texts[e.doc][e.chunk]
      BY <3>1 DEF Inv, EntryInv
    <3>3. e.doc \in Calls
      BY DEF Inv, TypeOK, Entries, Calls
    <3>4. DOMAIN texts[e.doc] = 1..Len(texts[e.doc])
      BY <3>3 DEF Inv, TypeOK
    <3>5. QED
      BY <3>2, <3>4
  <2>3. QED
    BY <2>1, <2>2 DEF VectorsMatchTexts
<1>2. QED
  BY <1>1, InvAlways, PTL

\* A search in a base shows every document of it that had been ingested with its
\* vectors when it began, is still there, and has a chunk that is the query, or
\* else as many entries as it may.
THEOREM SearchFindsIngestedAlways == Spec => []SearchFindsIngested
<1>1. Inv => SearchFindsIngested
  <2> SUFFICES ASSUME Inv, NEW s \in Searches, pc[s] = "done",
                      Cardinality(hits[s]) # MaxHits,
                      NEW d \in Wanted(s), base[d] = base[s]
               PROVE  d \in Shown(s)
    BY DEF SearchFindsIngested
  <2>1. /\ d \in expected[s] /\ documents[d] # NoBase
        /\ \E i \in DOMAIN texts[d] : texts[d][i] = texts[s][1]
    BY DEF Wanted
  <2>2. d \in Calls
    BY <2>1 DEF Inv, TypeOK, Calls
  <2>3. DOMAIN texts[d] = 1..Len(texts[d])
    BY <2>2 DEF Inv, TypeOK
  <2>4. HoldsQuery(d, s)
    BY <2>1, <2>3 DEF HoldsQuery
  <2>5. ShowsExpected(s)
    BY DEF Inv, SearchInv, Full
  <2>6. QED
    BY <2>1, <2>4, <2>5 DEF ShowsExpected, Shown
<1>2. QED
  BY <1>1, InvAlways, PTL

-----------------------------------------------------------------------------
(***************************************************************************)
(* What is remembered of the user.                                         *)
(***************************************************************************)
Memory == [fact : Facts, confidence : 0..10, source : {"explicit", "auto_extracted"}]

\* Memories are only ever added behind those there are.
Extends(s, u) ==
  /\ u \in Seq(Memory) /\ Len(s) <= Len(u)
  /\ \A i \in 1..Len(s) : u[i] = s[i]

LEMMA AddedFact ==
  ASSUME NEW s \in Seq(Memory), NEW fact \in Facts, NEW confidence \in 0..10,
         NEW source \in {"explicit", "auto_extracted"}
  PROVE  Extends(s, addUserMemory(s, fact, confidence, source))
<1>1. CASE \E i \in DOMAIN s : SameFact(s[i].fact, fact)
  <2>1. Len(s) <= Len(s)
    OBVIOUS
  <2>2. QED
    BY <1>1, <2>1 DEF Extends, addUserMemory
<1>2. CASE ~\E i \in DOMAIN s : SameFact(s[i].fact, fact)
  <2>1. PICK m \in Memory : m = [fact |-> fact, confidence |-> confidence, source |-> source]
    BY DEF Memory
  <2>2. addUserMemory(s, fact, confidence, source) = Append(s, m)
    BY <1>2, <2>1 DEF addUserMemory
  <2>3. Append(s, m) \in Seq(Memory) /\ Len(Append(s, m)) = Len(s) + 1 /\ Len(s) \in Nat
        /\ \A i \in 1..Len(s) : Append(s, m)[i] = s[i]
    OBVIOUS
  <2>4. QED
    BY <2>2, <2>3 DEF Extends
<1>3. QED
  BY <1>1, <1>2

LEMMA ExtendsAgain ==
  ASSUME NEW s \in Seq(Memory), NEW u, Extends(s, u), NEW v, Extends(u, v)
  PROVE  Extends(s, v)
<1>1. Len(s) \in Nat /\ Len(u) \in Nat /\ Len(v) \in Nat
  BY DEF Extends
<1>2. QED
  BY <1>1 DEF Extends

\* A set of numbers has a least one.
LEMMA LeastElement ==
  ASSUME NEW T, T \subseteq Nat, T # {}
  PROVE  \E x \in T : \A y \in T : x <= y
<1>1. PICK x \in T : \A y \in T : ~(<<y, x>> \in OpToRel(<, Nat))
  BY NatLessThanWellFounded, WFMin
<1>2. \A y \in T : ~(y < x)
  BY <1>1 DEF OpToRel
<1>3. QED
  BY <1>2

\* A set of numbers that goes on holds them all.
LEMMA Induct ==
  ASSUME NEW T, T \subseteq Nat, 0 \in T, \A n \in T : n + 1 \in T
  PROVE  T = Nat
<1> SUFFICES ASSUME Nat \ T # {} PROVE FALSE
  OBVIOUS
<1>1. PICK x \in Nat \ T : \A y \in Nat \ T : x <= y
  BY LeastElement
<1>2. x # 0 /\ x - 1 \in Nat
  BY <1>1
<1>3. x - 1 \in T
  BY <1>1, <1>2
<1>4. QED
  BY <1>1, <1>2, <1>3

\* What the loop over the facts of a message knows after each of n.
Knows(n, s, facts, known) ==
  known = [i \in 0..n |->
             IF i = 0 THEN s ELSE addUserMemory(known[i - 1], facts[i], 7, "auto_extracted")]

LEMMA KnowsExists ==
  ASSUME NEW s, NEW facts
  PROVE  \A n \in Nat : \E known : Knows(n, s, facts, known)
<1> DEFINE T == {n \in Nat : \E known : Knows(n, s, facts, known)}
<1>1. 0 \in T
  <2> DEFINE g == [k \in 0..0 |-> s]
  <2>1. Knows(0, s, facts, g)
    BY DEF Knows
  <2>2. QED
    BY <2>1
<1>2. ASSUME NEW n \in T PROVE n + 1 \in T
  <2>1. PICK g : Knows(n, s, facts, g)
    OBVIOUS
  <2> DEFINE last == addUserMemory(g[n], facts[n + 1], 7, "auto_extracted")
             h == [k \in 0..n + 1 |-> IF k = n + 1 THEN last ELSE g[k]]
             body(k) == IF k = 0 THEN s ELSE addUserMemory(h[k - 1], facts[k], 7, "auto_extracted")
  <2>2. /\ n \in Nat /\ h[n + 1] = last
        /\ \A k \in 0..n : h[k] = g[k]
    OBVIOUS
  <2>3. \A k \in 0..n :
          g[k] = IF k = 0 THEN s ELSE addUserMemory(g[k - 1], facts[k], 7, "auto_extracted")
    BY <2>1 DEF Knows
  <2>4. ASSUME NEW k \in 0..n + 1 PROVE h[k] = body(k)
    <3>1. CASE k = n + 1
      <4>1. h[k - 1] = g[n] /\ k # 0
        BY <2>2, <3>1
      <4> HIDE DEF h
      <4>2. QED
        BY <2>2, <3>1, <4>1
    <3>2. CASE k = 0
      BY <2>2, <2>3, <3>2
    <3>3. CASE k \in 1..n
      <4>1. h[k] = g[k] /\ h[k - 1] = g[k - 1]
        BY <2>2, <3>3
      <4> HIDE DEF h
      <4>2. QED
        BY <2>3, <3>3, <4>1
    <3>4. QED
      BY <2>2, <3>1, <3>2, <3>3
  <2>5. h = [k \in 0..n + 1 |-> body(k)]
    <3>1. h = [k \in 0..n + 1 |-> h[k]]
      OBVIOUS
    <3> HIDE DEF h
    <3>2. QED
      BY <2>4, <3>1
  <2>6. Knows(n + 1, s, facts, h)
    <3> HIDE DEF h
    <3>1. QED
      BY <2>5 DEF Knows
  <2>7. QED
    BY <2>2, <2>6
<1>3. T \subseteq Nat
  OBVIOUS
<1>4. T = Nat
  <2> HIDE DEF T
  <2>1. QED
    BY <1>1, <1>2, <1>3, Induct
<1>5. QED
  BY <1>4

LEMMA RememberedFact ==
  ASSUME NEW s \in Seq(Memory), NEW facts \in Seq(Facts)
  PROVE  Extends(s, RememberAll(s, facts))
<1> DEFINE known == CHOOSE f : Knows(Len(facts), s, facts, f)
           T == {n \in Nat : n <= Len(facts) => Extends(s, known[n])}
<1>1. Len(facts) \in Nat /\ \A k \in 1..Len(facts) : facts[k] \in Facts
  OBVIOUS
<1>2. Knows(Len(facts), s, facts, known)
  <2>1. \E f : Knows(Len(facts), s, facts, f)
    BY <1>1, KnowsExists
  <2>2. QED
    BY <2>1
<1>3. RememberAll(s, facts) = known[Len(facts)]
  BY DEF RememberAll, Knows
<1>4. \A k \in 0..Len(facts) :
        known[k] = IF k = 0 THEN s ELSE addUserMemory(known[k - 1], facts[k], 7, "auto_extracted")
  <2> HIDE DEF known
  <2> QED
    BY <1>2 DEF Knows
<1> HIDE DEF known
<1>5. Extends(s, known[0])
  <2>1. known[0] = s /\ Len(s) <= Len(s)
    BY <1>1, <1>4
  <2>2. QED
    BY <2>1 DEF Extends
<1>6. ASSUME NEW n \in Nat, n + 1 <= Len(facts), Extends(s, known[n])
      PROVE  Extends(s, known[n + 1])
  <2>1. PICK u \in Seq(Memory) : u = known[n]
    BY <1>6 DEF Extends
  <2>2. n + 1 \in 1..Len(facts) /\ (n + 1) - 1 = n /\ n + 1 # 0 /\ n + 1 \in 0..Len(facts)
    BY <1>1, <1>6
  <2>3. known[n + 1] = addUserMemory(u, facts[n + 1], 7, "auto_extracted")
    BY <1>4, <2>1, <2>2
  <2>4. Extends(u, known[n + 1])
    <3>1. 7 \in 0..10 /\ facts[n + 1] \in Facts
      BY <1>1, <2>2
    <3>2. QED
      BY <2>3, <3>1, AddedFact
  <2>5. QED
    BY <1>6, <2>1, <2>4, ExtendsAgain
<1>7. T = Nat
  <2>1. 0 \in T
    BY <1>5
  <2>2. ASSUME NEW n \in T PROVE n + 1 \in T
    <3>1. n \in Nat /\ (n + 1 <= Len(facts) => n <= Len(facts))
      BY <1>1
    <3>2. QED
      BY <1>6, <3>1
  <2>3. T \subseteq Nat
    OBVIOUS
  <2> HIDE DEF T
  <2>4. QED
    BY <2>1, <2>2, <2>3, Induct
<1>8. QED
  <2>1. Len(facts) \in T /\ Len(facts) <= Len(facts)
    BY <1>1, <1>7
  <2>2. QED
    BY <1>3, <2>1

-----------------------------------------------------------------------------
(***************************************************************************)
(* What a query must have found.                                           *)
(***************************************************************************)
Matches(mem, q) == {i \in DOMAIN mem : Folded[mem[i].fact] \in Hits[q]}

Told(mem, q, said) == {i \in Matches(mem, q) : mem[i].fact \in said}

\* The matches among the first n are told, or as many as a hop recalls.
Covers(mem, q, n, said) ==
  \/ (1..n) \cap Matches(mem, q) \subseteq Told(mem, q, said)
  \/ Cardinality(Told(mem, q, said)) >= TopK

LEMMA ToldFinite ==
  ASSUME NEW mem \in Seq(Memory), NEW q, NEW said
  PROVE  /\ IsFiniteSet(Matches(mem, q)) /\ Cardinality(Matches(mem, q)) \in Nat
         /\ IsFiniteSet(Told(mem, q, said)) /\ Cardinality(Told(mem, q, said)) \in Nat
<1>1. PICK n \in Nat : n = Len(mem)
  OBVIOUS
<1>2. DOMAIN mem = 1..n /\ IsFiniteSet(1..n)
  BY <1>1, FS_Interval
<1>3. Matches(mem, q) \subseteq DOMAIN mem /\ Told(mem, q, said) \subseteq DOMAIN mem
  BY DEF Matches, Told
<1>4. QED
  BY <1>2, <1>3, FS_Subset, FS_CardinalityType

\* What was said stays enough when more is remembered or said.
LEMMA CoversGrows ==
  ASSUME NEW s \in Seq(Memory), NEW u, Extends(s, u), NEW q,
         NEW n \in Nat, n <= Len(s), NEW said, NEW more, said \subseteq more,
         Covers(s, q, n, said)
  PROVE  Covers(u, q, n, more)
<1>1. /\ u \in Seq(Memory) /\ Len(s) \in Nat /\ Len(u) \in Nat /\ Len(s) <= Len(u)
      /\ DOMAIN s = 1..Len(s) /\ DOMAIN u = 1..Len(u)
      /\ \A i \in 1..Len(s) : u[i] = s[i]
  BY DEF Extends
<1>2. \A i \in 1..Len(s) : i \in 1..Len(u) /\ u[i] = s[i]
  BY <1>1
<1>3. Told(s, q, said) \subseteq Told(u, q, more)
  BY <1>1, <1>2 DEF Told, Matches
<1>4. \A i \in 1..n : i \in 1..Len(s)
  BY <1>1
<1>5. (1..n) \cap Matches(u, q) \subseteq Matches(s, q)
  BY <1>1, <1>2, <1>4 DEF Matches
<1>6. CASE (1..n) \cap Matches(s, q) \subseteq Told(s, q, said)
  BY <1>3, <1>5, <1>6 DEF Covers
<1>7. CASE Cardinality(Told(s, q, said)) >= TopK
  <2>1. /\ IsFiniteSet(Told(u, q, more)) /\ Cardinality(Told(u, q, more)) \in Nat
        /\ Cardinality(Told(s, q, said)) \in Nat
    BY <1>1, ToldFinite
  <2>2. Cardinality(Told(s, q, said)) <= Cardinality(Told(u, q, more))
    BY <1>3, <2>1, FS_Subset
  <2>3. TopK \in Nat
    BY UserMemoryAssumption
  <2>4. Cardinality(Told(u, q, more)) >= TopK
    BY <1>7, <2>1, <2>2, <2>3
  <2>5. QED
    BY <2>4 DEF Covers
<1>8. QED
  BY <1>6, <1>7 DEF Covers

\* A hop that recalls is enough.
LEMMA RecallCovers ==
  ASSUME memories \in Seq(Memory), NEW q, NEW recalled \in RecallUserMemory(q), NEW n, NEW said,
         {memories[i].fact : i \in recalled} \subseteq said
  PROVE  Covers(memories, q, n, said)
<1>1. PICK M : M = Matches(memories, q)
  OBVIOUS
<1>2. M = Matching(q)
  BY <1>1 DEF Matches, Matching
<1>3. recalled \subseteq M /\ Cardinality(recalled) = Least(TopK, Cardinality(M))
  BY <1>2 DEF RecallUserMemory
<1>4. IsFiniteSet(M) /\ Cardinality(M) \in Nat
  BY <1>1, ToldFinite
<1>5. /\ IsFiniteSet(Told(memories, q, said))
      /\ Cardinality(Told(memories, q, said)) \in Nat
  BY ToldFinite
<1>6. recalled \subseteq Told(memories, q, said)
  BY <1>1, <1>3 DEF Told, Matches
<1>7. TopK \in Nat /\ IsFiniteSet(recalled) /\ Cardinality(recalled) \in Nat
  BY <1>3, <1>4, FS_Subset, FS_CardinalityType, UserMemoryAssumption
<1>8. CASE TopK <= Cardinality(M)
  <2>1. Cardinality(recalled) = TopK
    BY <1>3, <1>8 DEF Least
  <2>2. Cardinality(recalled) <= Cardinality(Told(memories, q, said))
    BY <1>5, <1>6, FS_Subset
  <2>3. Cardinality(Told(memories, q, said)) >= TopK
    BY <1>5, <1>7, <2>1, <2>2
  <2>4. QED
    BY <2>3 DEF Covers
<1>9. CASE ~(TopK <= Cardinality(M))
  <2>1. Cardinality(recalled) = Cardinality(M)
    BY <1>3, <1>9 DEF Least
  <2>2. recalled = M
    BY <1>3, <1>4, <2>1, FS_Subset
  <2>3. QED
    BY <1>1, <1>6, <2>2 DEF Covers
<1>10. QED
  BY <1>8, <1>9

-----------------------------------------------------------------------------
(***************************************************************************)
(* The counts of the entities.                                             *)
(***************************************************************************)
\* One of the matches of an entity in a message is kept, if there is one.
LEMMA MentionFact ==
  ASSUME NEW m \in Messages, NEW e
  PROVE  /\ MentionsOf(m, e) \subseteq DOMAIN Mentions[m]
         /\ (\E i \in DOMAIN Mentions[m] : Mentions[m][i].entity = e)
              => Cardinality(MentionsOf(m, e)) = 1 /\ MentionsOf(m, e) # {}
         /\ ~(\E i \in DOMAIN Mentions[m] : Mentions[m][i].entity = e)
              => Cardinality(MentionsOf(m, e)) = 0
<1> DEFINE all == {i \in DOMAIN Mentions[m] : Mentions[m][i].entity = e}
<1>1. MentionsOf(m, e) = {i \in all : \A j \in all : i <= j}
  BY DEF MentionsOf
<1>2. Mentions[m] \in Seq([entity : Entities, confidence : 0..10])
  BY UserMemoryAssumption
<1>3. DOMAIN Mentions[m] \subseteq Nat
  BY <1>2
<1>4. MentionsOf(m, e) \subseteq DOMAIN Mentions[m]
  BY <1>1
<1>5. ASSUME \E i \in DOMAIN Mentions[m] : Mentions[m][i].entity = e
      PROVE  Cardinality(MentionsOf(m, e)) = 1 /\ MentionsOf(m, e) # {}
  <2>1. all # {} /\ all \subseteq Nat
    BY <1>3, <1>5
  <2> HIDE DEF all
  <2>2. PICK x \in all : \A y \in all : x <= y
    BY <2>1, LeastElement
  <2>3. \A i \in all : i \in Nat
    BY <2>1
  <2>4. {i \in all : \A j \in all : i <= j} = {x}
    BY <2>2, <2>3
  <2>5. QED
    BY <1>1, <2>4, FS_Singleton
<1>6. ASSUME ~(\E i \in DOMAIN Mentions[m] : Mentions[m][i].entity = e)
      PROVE  Cardinality(MentionsOf(m, e)) = 0
  <2>1. all = {}
    BY <1>6
  <2>2. MentionsOf(m, e) = {}
    BY <1>1, <2>1
  <2>3. QED
    BY <2>2, FS_EmptySet
<1>7. QED
  BY <1>4, <1>5, <1>6

Entity == [count : Nat, confidence : 0..10]

\* An entity a batch of a message mentions has been seen that many times more.
LEMMA SeenFact ==
  ASSUME entities \in [Entities -> Entity], NEW e \in Entities, NEW m \in Messages,
         NEW batch \in Nat \ {0}
  PROVE  /\ Seen(e, m, batch) \in Entity
         /\ Seen(e, m, batch).count = entities[e].count +
              IF \E i \in DOMAIN Mentions[m] : Mentions[m][i].entity = e THEN batch ELSE 0
<1>1. PICK old \in Entity : old = entities[e]
  OBVIOUS
<1>2. old.count \in Nat /\ old.confidence \in 0..10
  BY <1>1 DEF Entity
<1>3. PICK n : n = Cardinality(MentionsOf(m, e))
  OBVIOUS
<1>4. CASE \E i \in DOMAIN Mentions[m] : Mentions[m][i].entity = e
  <2>1. n = 1 /\ MentionsOf(m, e) # {} /\ MentionsOf(m, e) \subseteq DOMAIN Mentions[m]
    BY <1>3, <1>4, MentionFact
  <2>2. PICK k : k = CHOOSE i \in MentionsOf(m, e) : TRUE
    OBVIOUS
  <2>3. k \in DOMAIN Mentions[m]
    BY <2>1, <2>2
  <2>4. PICK S : S = [entity : Entities, confidence : 0..10]
    OBVIOUS
  <2>5. Mentions[m][k] \in S
    <3>1. PICK s \in Seq(S) : s = Mentions[m]
      BY <2>4, UserMemoryAssumption
    <3>2. s[k] \in S
      BY <2>3, <3>1
    <3>3. QED
      BY <3>1, <3>2
  <2>6. PICK first \in 0..10 : first = Mentions[m][k].confidence
    BY <2>4, <2>5
  <2>7. batch * n = batch /\ batch # 0
    BY <2>1
  <2>8. Seen(e, m, batch) =
          [count |-> old.count + batch,
           confidence |-> IF old.count = 0 THEN Least(10, first + batch - 1)
                          ELSE Least(10, old.confidence + batch)]
    BY <1>1, <1>3, <2>2, <2>6, <2>7 DEF Seen
  <2>9. \A x \in Nat : Least(10, x) \in 0..10
    BY DEF Least
  <2>10. first + batch - 1 \in Nat /\ old.confidence + batch \in Nat /\ old.count + batch \in Nat
    BY <1>2
  <2>11. PICK c \in 0..10 : c = IF old.count = 0 THEN Least(10, first + batch - 1)
                                ELSE Least(10, old.confidence + batch)
    BY <2>9, <2>10
  <2>12. Seen(e, m, batch) = [count |-> old.count + batch, confidence |-> c]
    BY <2>8, <2>11
  <2>13. [count |-> old.count + batch, confidence |-> c] \in Entity
    BY <2>10 DEF Entity
  <2>14. QED
    BY <1>1, <1>4, <2>12, <2>13
<1>5. CASE ~(\E i \in DOMAIN Mentions[m] : Mentions[m][i].entity = e)
  <2>1. n = 0
    BY <1>3, <1>5, MentionFact
  <2>2. batch * n = 0
    BY <2>1
  <2>3. Seen(e, m, batch) = old
    BY <1>1, <1>3, <2>2 DEF Seen
  <2>4. old.count = old.count + 0
    BY <1>2
  <2>5. QED
    BY <1>1, <1>5, <2>3, <2>4
<1>6. QED
  BY <1>4, <1>5

-----------------------------------------------------------------------------
(***************************************************************************)
(* The calls.                                                              *)
(***************************************************************************)
Steps == {"idle", "wait", "hops", "all", "answered", "panicked"}

Call == [pc : Steps, op : Ops \cup {NoOp}, before : Nat,
         found : SUBSET (Facts \cup {"document"}), left : 0..5]

\* What a call asks for.
LEMMA OpFact ==
  ASSUME NEW op \in Ops \cup {NoOp}
  PROVE  /\ op.name = "add" => op.session \in Sessions /\ op.message \in Messages /\ op.batch \in Batches
         /\ op.name = "summarize" => op.session \in Sessions
         /\ op.name = "store" => op.fact \in Facts /\ op.confidence \in {5, 9}
         /\ op.name = "query" => op \in Ops /\ op.query \in Queries /\ op.hops \in Hops
         /\ op.name = "auto" => op.on \in BOOLEAN
BY DEF Ops, NoOp

\* A query has read from what was known when it was made, and its hops that
\* recall have found enough of it.
QueryOf(mem, r) ==
  r.op.name = "query" =>
    /\ r.before <= Len(mem)
    /\ r.pc = "hops" =>
         /\ r.left <= r.op.hops
         /\ r.op.hops - r.left >= 3 => Covers(mem, r.op.query, r.before, r.found)
    /\ r.pc \in {"all", "answered"} /\ r.op.hops >= 3 =>
         Covers(mem, r.op.query, r.before, r.found)
    /\ r.pc = "answered" /\ r.found = {} => r.before = 0

LEMMA QueryGrows ==
  ASSUME NEW s \in Seq(Memory), NEW u, Extends(s, u), NEW r \in Call, QueryOf(s, r)
  PROVE  QueryOf(u, r)
<1>1. r.before \in Nat /\ Len(s) \in Nat /\ Len(u) \in Nat /\ Len(s) <= Len(u)
  BY DEF Call, Extends
<1>2. ASSUME r.before <= Len(s), Covers(s, r.op.query, r.before, r.found)
      PROVE  Covers(u, r.op.query, r.before, r.found)
  BY <1>1, <1>2, CoversGrows
<1>3. r.before <= Len(s) => r.before <= Len(u)
  BY <1>1
<1>4. QED
  BY <1>2, <1>3 DEF QueryOf

CallsInv == \A c \in Clients : QueryOf(memories, client[c])

MemInv == MemTypeOK /\ CountsAreOfMessages /\ CallsInv

TalkRecord == [len : Nat, idle : BOOLEAN, summary : Nat]

\* What is known of the state, one variable at a time.
LEMMA MemTypesFact ==
  MemTypeOK <=>
    /\ mu \in {"free", "consolidator"}
    /\ talks \in [Sessions -> {NoTalk} \cup TalkRecord]
    /\ memories \in Seq(Memory)
    /\ entities \in [Entities -> Entity]
    /\ auto \in BOOLEAN
    /\ client \in [Clients -> Call]
    /\ consolidator \in [pc : {"select", "range", "summarize"}, todo : SUBSET Sessions]
    /\ requests \in 0..MaxRequests
    /\ stuck \in BOOLEAN
    /\ mentioned \in [Entities -> Nat]
BY DEF MemTypeOK, TalkRecord, Memory, Entity, Call, Steps

LEMMA MemInitInv == MemInit => MemInv
<1> SUFFICES ASSUME MemInit PROVE MemInv
  OBVIOUS
<1> USE DEF MemInit
<1>1. MemTypeOK
  <2>1. Idle \in [pc : Steps, op : Ops \cup {NoOp}, before : Nat,
                  found : SUBSET (Facts \cup {"document"}), left : 0..5]
    BY DEF Idle, Steps
  <2>2. MaxRequests \in Nat /\ memories \in Seq(Memory)
    BY UserMemoryAssumption
  <2>3. client \in [Clients -> Call]
    BY <2>1 DEF Call
  <2>4. talks \in [Sessions -> {NoTalk} \cup TalkRecord] /\ mentioned \in [Entities -> Nat]
    OBVIOUS
  <2>5. entities \in [Entities -> Entity] /\ requests \in 0..MaxRequests
    BY <2>2 DEF Entity
  <2>6. consolidator \in [pc : {"select", "range", "summarize"}, todo : SUBSET Sessions]
    OBVIOUS
  <2>7. mu \in {"free", "consolidator"} /\ auto \in BOOLEAN /\ stuck \in BOOLEAN
    OBVIOUS
  <2>8. QED
    BY <2>2, <2>3, <2>4, <2>5, <2>6, <2>7, MemTypesFact
<1>2. CountsAreOfMessages
  BY DEF CountsAreOfMessages
<1>3. CallsInv
  BY DEF CallsInv, QueryOf, Idle, NoOp
<1>4. QED
  BY <1>1, <1>2, <1>3 DEF MemInv

-----------------------------------------------------------------------------
(***************************************************************************)
(* The steps.                                                              *)
(***************************************************************************)
LEMMA MemTypesNext ==
  ASSUME mu' \in {"free", "consolidator"},
         talks' \in [Sessions -> {NoTalk} \cup TalkRecord],
         memories' \in Seq(Memory), entities' \in [Entities -> Entity], auto' \in BOOLEAN,
         client' \in [Clients -> Call],
         consolidator' \in [pc : {"select", "range", "summarize"}, todo : SUBSET Sessions],
         requests' \in 0..MaxRequests, stuck' \in BOOLEAN, mentioned' \in [Entities -> Nat]
  PROVE  MemTypeOK'
BY DEF MemTypeOK, TalkRecord, Memory, Entity, Call, Steps

\* A call that goes on, while nothing that is remembered is lost.
LEMMA CallMoves ==
  ASSUME MemInv, Extends(memories, memories'), NEW c \in Clients, NEW r \in Call,
         client' = [client EXCEPT ![c] = r], QueryOf(memories', r)
  PROVE  CallsInv' /\ client' \in [Clients -> Call]
<1>1. client \in [Clients -> Call] /\ memories \in Seq(Memory)
      /\ \A d \in Clients : QueryOf(memories, client[d])
  BY MemTypesFact DEF MemInv, CallsInv
<1>2. client' \in [Clients -> Call] /\ client'[c] = r
      /\ \A d \in Clients \ {c} : client'[d] = client[d]
  BY <1>1
<1>3. PICK s \in Seq(Memory), u \in {memories'} : s = memories /\ u = memories'
  BY <1>1
<1>4. ASSUME NEW d \in Clients PROVE QueryOf(u, client'[d])
  <2>1. CASE d = c
    BY <1>2, <1>3, <2>1
  <2>2. CASE d # c
    <3>1. PICK x \in Call : x = client[d]
      BY <1>1
    <3>2. QueryOf(s, x) /\ Extends(s, u) /\ client'[d] = x
      BY <1>1, <1>2, <1>3, <2>2, <3>1
    <3>3. QED
      BY <3>2, QueryGrows
  <2>3. QED
    BY <2>1, <2>2
<1>5. QED
  BY <1>2, <1>3, <1>4 DEF CallsInv

\* Steps that leave what is known as it was.
LEMMA Same ==
  ASSUME MemInv, UNCHANGED memories
  PROVE  /\ Extends(memories, memories')
         /\ UNCHANGED client => CallsInv'
         /\ UNCHANGED <<entities, mentioned>> => CountsAreOfMessages'
<1>1. memories \in Seq(Memory)
  BY MemTypesFact DEF MemInv
<1>2. Len(memories) <= Len(memories)
  BY <1>1
<1>3. QED
  BY <1>1, <1>2 DEF MemInv, Extends, CallsInv, CountsAreOfMessages

\* A call that is not a query and has been answered.
LEMMA CallAnswered ==
  ASSUME MemInv, NEW c \in Clients, NEW name, name # "query", Waits(c, name), Return(c),
         Extends(memories, memories')
  PROVE  /\ CallsInv' /\ client' \in [Clients -> Call]
         /\ client[c].op \in Ops \cup {NoOp} /\ client[c].op.name = name
<1>1. client \in [Clients -> Call]
  BY MemTypesFact DEF MemInv
<1>2. PICK x \in Call : x = client[c]
  BY <1>1
<1>3. PICK r : r = [x EXCEPT !.pc = "answered"]
  OBVIOUS
<1>4. r \in Call /\ r.op = x.op /\ x.op \in Ops \cup {NoOp}
  BY <1>3 DEF Call, Steps
<1>5. client' = [client EXCEPT ![c] = r]
  BY <1>1, <1>2, <1>3 DEF Return
<1>6. x.op.name = name
  BY <1>2 DEF Waits
<1>7. QueryOf(memories', r)
  BY <1>4, <1>6 DEF QueryOf
<1>8. CallsInv' /\ client' \in [Clients -> Call]
  BY <1>4, <1>5, <1>7, CallMoves
<1>9. QED
  BY <1>2, <1>4, <1>6, <1>8

LEMMA AddKeeps ==
  ASSUME MemInv, NEW c \in Clients, AddMessages(c)
  PROVE  MemInv'
<1>1. PICK op : op = client[c].op
  OBVIOUS
<1>2. /\ Waits(c, "add") /\ Return(c) /\ UNCHANGED <<mu, auto, consolidator, requests, stuck>>
      /\ talks' = [talks EXCEPT ![op.session] =
                     [Talk(op.session) EXCEPT !.len = @ + op.batch, !.idle = FALSE]]
      /\ entities' = [e \in Entities |-> Seen(e, op.message, op.batch)]
      /\ memories' = IF auto THEN RememberAll(memories, FactsIn[op.message]) ELSE memories
      /\ mentioned' = [e \in Entities |-> mentioned[e] +
           IF \E i \in DOMAIN Mentions[op.message] : Mentions[op.message][i].entity = e
           THEN op.batch ELSE 0]
  BY <1>1 DEF AddMessages
<1>3. /\ talks \in [Sessions -> {NoTalk} \cup TalkRecord] /\ memories \in Seq(Memory)
      /\ entities \in [Entities -> Entity] /\ mentioned \in [Entities -> Nat]
      /\ client \in [Clients -> Call]
      /\ \A e \in Entities : entities[e].count = mentioned[e]
  BY MemTypesFact DEF MemInv, CountsAreOfMessages
<1>4. op.session \in Sessions /\ op.message \in Messages /\ op.batch \in Nat \ {0}
  <2>1. op \in Ops \cup {NoOp}
    BY <1>1, <1>3 DEF Call
  <2>2. op.name = "add"
    BY <1>1, <1>2 DEF Waits
  <2>3. QED
    BY <2>1, <2>2, OpFact, UserMemoryAssumption
<1>5. PICK s \in Sessions, m \in Messages, batch \in Nat \ {0} :
        s = op.session /\ m = op.message /\ batch = op.batch
  BY <1>4
<1>6. Extends(memories, memories')
  <2>1. FactsIn[m] \in Seq(Facts)
    BY UserMemoryAssumption
  <2>2. PICK u \in Seq(Memory) : u = memories
    BY <1>3
  <2>3. PICK f \in Seq(Facts) : f = FactsIn[m]
    BY <2>1
  <2>4. Extends(u, RememberAll(u, f))
    BY RememberedFact
  <2>5. Extends(u, u)
    <3>1. Len(u) <= Len(u)
      OBVIOUS
    <3>2. QED
      BY <3>1 DEF Extends
  <2>6. QED
    BY <1>2, <1>5, <2>2, <2>3, <2>4, <2>5
<1>7. CallsInv' /\ client' \in [Clients -> Call]
  <2>1. "add" # "query"
    OBVIOUS
  <2>2. Waits(c, "add") /\ Return(c)
    BY <1>2
  <2>3. QED
    BY <1>6, <2>1, <2>2, CallAnswered
<1>8. entities' \in [Entities -> Entity]
  BY <1>2, <1>3, <1>5, SeenFact
<1>9. mentioned' \in [Entities -> Nat]
  BY <1>2, <1>3, <1>5
<1>10. CountsAreOfMessages'
  <2>1. ASSUME NEW e \in Entities PROVE entities'[e].count = mentioned'[e]
    <3>1. Seen(e, m, batch).count = entities[e].count +
            IF \E i \in DOMAIN Mentions[m] : Mentions[m][i].entity = e THEN batch ELSE 0
      BY <1>3, SeenFact
    <3>2. entities'[e] = Seen(e, m, batch)
      BY <1>2, <1>5
    <3>3. mentioned'[e] = mentioned[e] +
            IF \E i \in DOMAIN Mentions[m] : Mentions[m][i].entity = e THEN batch ELSE 0
      BY <1>2, <1>5
    <3>4. entities[e].count = mentioned[e]
      BY <1>3
    <3>5. QED
      BY <3>1, <3>2, <3>3, <3>4
  <2>2. QED
    BY <2>1 DEF CountsAreOfMessages
<1>11. talks' \in [Sessions -> {NoTalk} \cup TalkRecord]
  <2>1. Talk(s) \in TalkRecord
    BY <1>3 DEF Talk, TalkRecord
  <2>2. PICK x \in TalkRecord : x = Talk(s)
    BY <2>1
  <2>3. PICK y : y = [x EXCEPT !.len = x.len + batch, !.idle = FALSE]
    OBVIOUS
  <2>4. y \in TalkRecord
    <3>1. x.len \in Nat
      BY DEF TalkRecord
    <3>2. PICK n \in Nat : n = x.len + batch
      BY <3>1
    <3>3. y = [x EXCEPT !.len = n, !.idle = FALSE]
      BY <2>3, <3>2
    <3>4. QED
      BY <3>3 DEF TalkRecord
  <2>5. talks' = [talks EXCEPT ![s] = y]
    BY <1>2, <1>5, <2>2, <2>3 DEF TalkRecord
  <2>6. QED
    BY <1>3, <2>4, <2>5
<1>12. MemTypeOK'
  <2>1. /\ mu \in {"free", "consolidator"} /\ auto \in BOOLEAN /\ requests \in 0..MaxRequests
        /\ stuck \in BOOLEAN
        /\ consolidator \in [pc : {"select", "range", "summarize"}, todo : SUBSET Sessions]
    BY MemTypesFact DEF MemInv
  <2>2. memories' \in Seq(Memory)
    BY <1>6 DEF Extends
  <2>3. QED
    BY <1>2, <1>7, <1>8, <1>9, <1>11, <2>1, <2>2, MemTypesNext
<1>13. QED
  BY <1>7, <1>10, <1>12 DEF MemInv

LEMMA SummarizeKeeps ==
  ASSUME MemInv, NEW c \in Clients, SummarizeConversation(c)
  PROVE  MemInv'
<1>1. PICK s : s = client[c].op.session
  OBVIOUS
<1>2. /\ Waits(c, "summarize") /\ Return(c)
      /\ UNCHANGED <<mu, memories, entities, auto, consolidator, requests, mentioned, stuck>>
      /\ talks' = IF talks[s] = NoTalk THEN talks
                  ELSE [talks EXCEPT ![s].summary = talks[s].len]
  BY <1>1 DEF SummarizeConversation
<1>3. Extends(memories, memories') /\ CountsAreOfMessages'
  BY <1>2, Same
<1>4. "summarize" # "query"
  OBVIOUS
<1>5. CallsInv' /\ client' \in [Clients -> Call] /\ client[c].op \in Ops \cup {NoOp}
      /\ client[c].op.name = "summarize"
  BY <1>2, <1>3, <1>4, CallAnswered
<1>6. s \in Sessions
  BY <1>1, <1>5, OpFact
<1>7. talks \in [Sessions -> {NoTalk} \cup TalkRecord]
  BY MemTypesFact DEF MemInv
<1>8. talks' \in [Sessions -> {NoTalk} \cup TalkRecord]
  <2>1. CASE talks[s] = NoTalk
    BY <1>2, <1>7, <2>1
  <2>2. CASE talks[s] # NoTalk
    <3>1. PICK x \in TalkRecord : x = talks[s]
      BY <1>6, <1>7, <2>2
    <3>2. PICK y : y = [x EXCEPT !.summary = x.len]
      OBVIOUS
    <3>3. y \in TalkRecord
      BY <3>2 DEF TalkRecord
    <3>4. talks' = [talks EXCEPT ![s] = y]
      BY <1>2, <1>6, <1>7, <2>2, <3>1, <3>2
    <3>5. QED
      BY <1>6, <1>7, <3>3, <3>4
  <2>3. QED
    BY <2>1, <2>2
<1>9. MemTypeOK'
  BY <1>2, <1>5, <1>8, MemTypesFact, MemTypesNext DEF MemInv
<1>10. QED
  BY <1>3, <1>5, <1>9 DEF MemInv

LEMMA StoreKeeps ==
  ASSUME MemInv, NEW c \in Clients, StoreUserMemory(c)
  PROVE  MemInv'
<1>1. PICK op : op = client[c].op
  OBVIOUS
<1>2. /\ Waits(c, "store") /\ Return(c)
      /\ UNCHANGED <<mu, talks, entities, auto, consolidator, requests, mentioned, stuck>>
      /\ memories' = addUserMemory(memories, op.fact, op.confidence, "explicit")
  BY <1>1 DEF StoreUserMemory
<1>3. client \in [Clients -> Call] /\ memories \in Seq(Memory)
  BY MemTypesFact DEF MemInv
<1>4. op.fact \in Facts /\ op.confidence \in 0..10
  <2>1. op \in Ops \cup {NoOp}
    BY <1>1, <1>3 DEF Call
  <2>2. op.name = "store"
    BY <1>1, <1>2 DEF Waits
  <2>3. QED
    BY <2>1, <2>2, OpFact
<1>5. Extends(memories, memories')
  <2>1. PICK u \in Seq(Memory) : u = memories
    BY <1>3
  <2>2. PICK f \in Facts, n \in 0..10 : f = op.fact /\ n = op.confidence
    BY <1>4
  <2>3. Extends(u, addUserMemory(u, f, n, "explicit"))
    BY AddedFact
  <2>4. QED
    BY <1>2, <2>1, <2>2, <2>3
<1>6. "store" # "query"
  OBVIOUS
<1>7. CallsInv' /\ client' \in [Clients -> Call]
  BY <1>2, <1>5, <1>6, CallAnswered
<1>8. CountsAreOfMessages'
  BY <1>2 DEF MemInv, CountsAreOfMessages
<1>9. MemTypeOK'
  <2>1. memories' \in Seq(Memory)
    BY <1>5 DEF Extends
  <2>2. QED
    BY <1>2, <1>7, <2>1, MemTypesFact, MemTypesNext DEF MemInv
<1>10. QED
  BY <1>7, <1>8, <1>9 DEF MemInv

LEMMA AutoKeeps ==
  ASSUME MemInv, NEW c \in Clients, SetAutoExtract(c)
  PROVE  MemInv'
<1>1. /\ Waits(c, "auto") /\ Return(c) /\ auto' = client[c].op.on
      /\ UNCHANGED <<mu, talks, memories, entities, consolidator, requests, mentioned, stuck>>
  BY DEF SetAutoExtract
<1>2. Extends(memories, memories') /\ CountsAreOfMessages'
  BY <1>1, Same
<1>3. "auto" # "query"
  OBVIOUS
<1>4. CallsInv' /\ client' \in [Clients -> Call] /\ client[c].op \in Ops \cup {NoOp}
      /\ client[c].op.name = "auto"
  BY <1>1, <1>2, <1>3, CallAnswered
<1>5. auto' \in BOOLEAN
  BY <1>1, <1>4, OpFact
<1>6. MemTypeOK'
  BY <1>1, <1>4, <1>5, MemTypesFact, MemTypesNext DEF MemInv
<1>7. QED
  BY <1>2, <1>4, <1>6 DEF MemInv

\* Steps of one call that change nothing else, or only the number of calls.
LEMMA CallOnly ==
  ASSUME MemInv, UNCHANGED <<mu, talks, memories, entities, auto, consolidator, mentioned>>,
         requests' \in 0..MaxRequests, stuck' \in BOOLEAN,
         NEW c \in Clients, NEW r \in Call, client' = [client EXCEPT ![c] = r],
         QueryOf(memories, r)
  PROVE  MemInv'
<1>1. Extends(memories, memories') /\ CountsAreOfMessages'
  BY Same
<1>2. QueryOf(memories', r)
  <2>1. memories' = memories
    OBVIOUS
  <2>2. QED
    BY <2>1
<1>3. CallsInv' /\ client' \in [Clients -> Call]
  BY <1>1, <1>2, CallMoves
<1>4. MemTypeOK'
  BY <1>3, MemTypesFact, MemTypesNext DEF MemInv
<1>5. QED
  BY <1>1, <1>3, <1>4 DEF MemInv

LEMMA RequestKeeps ==
  ASSUME MemInv, NEW c \in Clients, NEW op \in Ops, Request(c, op)
  PROVE  MemInv'
<1>1. /\ memories \in Seq(Memory) /\ requests \in 0..MaxRequests /\ MaxRequests \in Nat
      /\ stuck \in BOOLEAN
  BY MemTypesFact, UserMemoryAssumption DEF MemInv
<1>2. PICK r : r = [pc |-> IF op.name = "query" THEN "hops" ELSE "wait", op |-> op,
                    before |-> Len(memories), found |-> {},
                    left |-> IF op.name = "query" THEN op.hops ELSE 0]
  OBVIOUS
<1>3. client' = [client EXCEPT ![c] = r] /\ requests' \in 0..MaxRequests /\ stuck' \in BOOLEAN
      /\ UNCHANGED <<mu, talks, memories, entities, auto, consolidator, mentioned>>
  BY <1>1, <1>2 DEF Request
<1>4. op.name = "query" => op.hops \in 1..5
  BY OpFact, UserMemoryAssumption
<1>5. PICK hops \in 0..5 : hops = IF op.name = "query" THEN op.hops ELSE 0
  BY <1>4
<1>6. PICK n \in Nat : n = Len(memories)
  BY <1>1
<1>7. /\ r.op = op /\ r.before = n /\ r.left = hops /\ r.found = {}
      /\ r.pc = IF op.name = "query" THEN "hops" ELSE "wait"
      /\ r \in Call
  BY <1>2, <1>5, <1>6 DEF Call, Steps
<1>8. QueryOf(memories, r)
  <2> SUFFICES ASSUME op.name = "query" PROVE QueryOf(memories, r)
    BY <1>7 DEF QueryOf
  <2>1. r.pc = "hops" /\ hops = op.hops /\ n <= n /\ hops <= hops /\ ~(hops - hops >= 3)
    BY <1>5, <1>7
  <2>2. QED
    BY <1>6, <1>7, <2>1 DEF QueryOf
<1>9. QED
  BY <1>3, <1>7, <1>8, CallOnly

\* What is known of a query that goes on.
LEMMA AskedFact ==
  ASSUME MemInv, NEW c \in Clients, client[c].op.name = "query"
  PROVE  /\ client[c] \in Call /\ client[c].op.hops \in 1..5 /\ client[c].left \in 0..5
         /\ client[c].before \in Nat
         /\ QueryOf(memories, client[c]) /\ requests \in 0..MaxRequests /\ memories \in Seq(Memory)
         /\ stuck \in BOOLEAN
<1>1. /\ client \in [Clients -> Call] /\ requests \in 0..MaxRequests
      /\ memories \in Seq(Memory) /\ stuck \in BOOLEAN
  BY MemTypesFact DEF MemInv
<1>2. client[c] \in Call
  BY <1>1
<1>3. client[c].op \in Ops \cup {NoOp} /\ client[c].left \in 0..5 /\ client[c].before \in Nat
  BY <1>2 DEF Call
<1>4. client[c].op.hops \in 1..5
  BY <1>3, OpFact, UserMemoryAssumption
<1>5. QED
  BY <1>1, <1>2, <1>3, <1>4 DEF MemInv, CallsInv

\* A hop: one less is left, and what it found is kept.
LEMMA HopKeeps ==
  ASSUME MemInv, NEW c \in Clients, Asks(c, "hops"), client[c].left > 0,
         UNCHANGED <<mu, talks, memories, entities, auto, consolidator, requests, mentioned, stuck>>,
         NEW more \in SUBSET (Facts \cup {"document"}),
         client' = [client EXCEPT ![c].left = @ - 1, ![c].found = @ \cup more],
         \/ client[c].op.hops - client[c].left < 2
         \/ Covers(memories, client[c].op.query, client[c].before, client[c].found \cup more)
  PROVE  MemInv'
<1>1. PICK x \in Call : x = client[c] /\ x.op.hops \in 1..5 /\ x.left \in 0..5 /\ x.before \in Nat
      /\ x.op.name = "query" /\ x.pc = "hops" /\ QueryOf(memories, x)
      /\ requests \in 0..MaxRequests /\ x.left > 0 /\ memories \in Seq(Memory)
      /\ stuck \in BOOLEAN
  BY AskedFact DEF Asks
<1>2. PICK r : r = [x EXCEPT !.left = x.left - 1, !.found = x.found \cup more]
  OBVIOUS
<1>3. x.left - 1 \in 0..5 /\ x.found \cup more \in SUBSET (Facts \cup {"document"})
  BY <1>1 DEF Call
<1>4. PICK left \in 0..5, said \in SUBSET (Facts \cup {"document"}) :
        left = x.left - 1 /\ said = x.found \cup more
  BY <1>3
<1>5. /\ r \in Call /\ r.left = left /\ r.found = said /\ r.op = x.op /\ r.pc = x.pc
      /\ r.before = x.before
  BY <1>2, <1>4 DEF Call
<1>6. client' = [client EXCEPT ![c] = r]
  <2>1. client \in [Clients -> Call]
    BY MemTypesFact DEF MemInv
  <2>2. QED
    BY <1>1, <1>2, <2>1
<1>7. QueryOf(memories, r)
  <2>1. x.before <= Len(memories) /\ x.left <= x.op.hops
    BY <1>1 DEF QueryOf
  <2>2. left <= x.op.hops
    BY <1>1, <1>4, <2>1
  <2>3. ASSUME x.op.hops - left >= 3
        PROVE  Covers(memories, x.op.query, x.before, said)
    <3>1. ~(x.op.hops - x.left < 2)
      BY <1>1, <1>4, <2>3
    <3>2. QED
      BY <1>1, <1>4, <3>1
  <2>4. r.pc = "hops"
    BY <1>1, <1>5
  <2>5. QED
    BY <1>5, <2>1, <2>2, <2>3, <2>4 DEF QueryOf
<1>8. QED
  BY <1>1, <1>5, <1>6, <1>7, CallOnly

LEMMA VectorHopKeeps ==
  ASSUME MemInv, NEW c \in Clients, VectorHop(c)
  PROVE  MemInv'
<1>1. PICK source \in {{}, {"document"}} :
        client' = [client EXCEPT ![c].left = @ - 1, ![c].found = @ \cup source]
  BY DEF VectorHop
<1>2. /\ Asks(c, "hops") /\ client[c].left > 0 /\ client[c].op.hops - client[c].left < 2
      /\ UNCHANGED <<mu, talks, memories, entities, auto, consolidator, requests, mentioned, stuck>>
  BY DEF VectorHop
<1>3. source \in SUBSET (Facts \cup {"document"})
  OBVIOUS
<1>4. QED
  BY <1>1, <1>2, <1>3, HopKeeps

LEMMA HopPanicsKeeps ==
  ASSUME MemInv, NEW c \in Clients, HopPanics(c)
  PROVE  MemInv'
<1>1. Asks(c, "hops") /\ stuck' = TRUE /\ client' = [client EXCEPT ![c].pc = "panicked"]
      /\ UNCHANGED <<mu, talks, memories, entities, auto, consolidator, requests, mentioned>>
  BY DEF HopPanics, Embeds
<1>2. PICK x \in Call : x = client[c] /\ QueryOf(memories, x) /\ requests \in 0..MaxRequests
      /\ x.op.name = "query" /\ x.pc = "hops"
  BY <1>1, AskedFact DEF Asks
<1>3. PICK r : r = [x EXCEPT !.pc = "panicked"]
  OBVIOUS
<1>4. /\ r \in Call /\ r.pc = "panicked" /\ r.op = x.op /\ r.before = x.before
  BY <1>3 DEF Call, Steps
<1>5. client' = [client EXCEPT ![c] = r]
  <2>1. client \in [Clients -> Call]
    BY MemTypesFact DEF MemInv
  <2>2. QED
    BY <1>1, <1>2, <1>3, <2>1
<1>6. QueryOf(memories, r)
  <2>1. x.before <= Len(memories)
    BY <1>2 DEF QueryOf
  <2>2. r.pc # "hops" /\ r.pc # "all" /\ r.pc # "answered"
    BY <1>4
  <2>3. QED
    BY <1>4, <2>1, <2>2 DEF QueryOf
<1>7. stuck' \in BOOLEAN /\ requests' \in 0..MaxRequests
  BY <1>1, <1>2
<1>8. QED
  BY <1>1, <1>4, <1>5, <1>6, <1>7, CallOnly

LEMMA RecallHopKeeps ==
  ASSUME MemInv, NEW c \in Clients, RecallHop(c)
  PROVE  MemInv'
<1>1. PICK q : q = client[c].op.query
  OBVIOUS
<1>2. PICK recalled \in RecallUserMemory(q) :
        client' = [client EXCEPT ![c].left = @ - 1,
                                 ![c].found = @ \cup {memories[i].fact : i \in recalled}]
  BY <1>1 DEF RecallHop
<1>3. PICK more : more = {memories[i].fact : i \in recalled}
  OBVIOUS
<1>4. /\ Asks(c, "hops") /\ client[c].left > 0
      /\ UNCHANGED <<mu, talks, memories, entities, auto, consolidator, requests, mentioned, stuck>>
      /\ client' = [client EXCEPT ![c].left = @ - 1, ![c].found = @ \cup more]
  BY <1>2, <1>3 DEF RecallHop
<1>5. memories \in Seq(Memory)
  BY MemTypesFact DEF MemInv
<1>6. more \in SUBSET (Facts \cup {"document"})
  <2>1. recalled \subseteq DOMAIN memories
    BY DEF RecallUserMemory, Matching
  <2>2. \A i \in DOMAIN memories : memories[i] \in Memory
    BY <1>5
  <2>3. \A i \in DOMAIN memories : memories[i].fact \in Facts
    BY <2>2 DEF Memory
  <2>4. QED
    BY <1>3, <2>1, <2>3
<1>7. PICK n, said : n = client[c].before /\ said = client[c].found \cup more
  OBVIOUS
<1>8. Covers(memories, q, n, said)
  BY <1>3, <1>5, <1>7, RecallCovers
<1>9. Covers(memories, client[c].op.query, client[c].before, client[c].found \cup more)
  BY <1>1, <1>7, <1>8
<1>10. QED
  BY <1>4, <1>6, <1>9, HopKeeps

LEMMA HopsDoneKeeps ==
  ASSUME MemInv, NEW c \in Clients, HopsDone(c)
  PROVE  MemInv'
<1>1. /\ Asks(c, "hops") /\ client[c].left = 0
      /\ client' = [client EXCEPT ![c].pc = IF client[c].found = {} THEN "all" ELSE "answered"]
      /\ UNCHANGED <<mu, talks, memories, entities, auto, consolidator, requests, mentioned, stuck>>
  BY DEF HopsDone
<1>2. PICK x \in Call : x = client[c] /\ x.op.hops \in 1..5 /\ x.left = 0 /\ x.before \in Nat
      /\ x.op.name = "query" /\ x.pc = "hops" /\ QueryOf(memories, x)
      /\ requests \in 0..MaxRequests /\ stuck \in BOOLEAN
  BY <1>1, AskedFact DEF Asks
<1>3. PICK goes \in {"all", "answered"} : goes = IF x.found = {} THEN "all" ELSE "answered"
  OBVIOUS
<1>4. PICK r : r = [x EXCEPT !.pc = goes]
  OBVIOUS
<1>5. /\ r \in Call /\ r.pc = goes /\ r.left = x.left /\ r.found = x.found /\ r.op = x.op
      /\ r.before = x.before
  BY <1>4 DEF Call, Steps
<1>6. client' = [client EXCEPT ![c] = r]
  <2>1. client \in [Clients -> Call]
    BY MemTypesFact DEF MemInv
  <2>2. QED
    BY <1>1, <1>2, <1>3, <1>4, <2>1
<1>7. QueryOf(memories, r)
  <2>1. x.before <= Len(memories)
        /\ (x.op.hops - x.left >= 3 => Covers(memories, x.op.query, x.before, x.found))
    BY <1>2 DEF QueryOf
  <2>2. x.op.hops >= 3 => x.op.hops - x.left >= 3
    BY <1>2
  <2>3. goes = "answered" => x.found # {}
    BY <1>3
  <2>4. r.pc # "hops"
    BY <1>5
  <2>5. QED
    BY <1>5, <2>1, <2>2, <2>3, <2>4 DEF QueryOf
<1>8. QED
  BY <1>1, <1>2, <1>5, <1>6, <1>7, CallOnly

LEMMA AllKeeps ==
  ASSUME MemInv, NEW c \in Clients, GetAllUserMemories(c)
  PROVE  MemInv'
<1>1. PICK said : said = {memories[i].fact : i \in DOMAIN memories}
  OBVIOUS
<1>2. /\ Asks(c, "all")
      /\ client' = [client EXCEPT ![c].pc = "answered", ![c].found = said]
      /\ UNCHANGED <<mu, talks, memories, entities, auto, consolidator, requests, mentioned, stuck>>
  BY <1>1 DEF GetAllUserMemories
<1>3. PICK x \in Call : x = client[c] /\ x.op.hops \in 1..5 /\ x.before \in Nat
      /\ x.op.name = "query" /\ x.pc = "all" /\ QueryOf(memories, x)
      /\ requests \in 0..MaxRequests /\ memories \in Seq(Memory) /\ stuck \in BOOLEAN
  BY <1>2, AskedFact DEF Asks
<1>4. said \in SUBSET (Facts \cup {"document"})
  <2>1. \A i \in DOMAIN memories : memories[i] \in Memory
    BY <1>3
  <2>2. \A i \in DOMAIN memories : memories[i].fact \in Facts
    BY <2>1 DEF Memory
  <2>3. QED
    BY <1>1, <2>2
<1>5. PICK r : r = [x EXCEPT !.pc = "answered", !.found = said]
  OBVIOUS
<1>6. /\ r \in Call /\ r.pc = "answered" /\ r.found = said /\ r.op = x.op
      /\ r.before = x.before
  BY <1>4, <1>5 DEF Call, Steps
<1>7. client' = [client EXCEPT ![c] = r]
  <2>1. client \in [Clients -> Call]
    BY MemTypesFact DEF MemInv
  <2>2. QED
    BY <1>2, <1>3, <1>5, <2>1
<1>8. QueryOf(memories, r)
  <2>1. x.before <= Len(memories)
    BY <1>3 DEF QueryOf
  <2>2. Covers(memories, x.op.query, x.before, said)
    BY <1>1 DEF Covers, Told, Matches
  <2>3. ASSUME said = {} PROVE x.before = 0
    <3>1. DOMAIN memories = {}
      BY <1>1, <2>3
    <3>2. Len(memories) = 0
      BY <1>3, <3>1
    <3>3. QED
      BY <1>3, <2>1, <3>2
  <2>4. r.pc # "hops"
    BY <1>6
  <2>5. QED
    BY <1>6, <2>1, <2>2, <2>3, <2>4 DEF QueryOf
<1>9. QED
  BY <1>2, <1>3, <1>6, <1>7, <1>8, CallOnly

\* The consolidator, and time.
LEMMA ConsolidatorKeeps ==
  ASSUME MemInv, Consolidate \/ \E s \in Sessions : AnHourPasses(s)
  PROVE  MemInv'
<1>1. UNCHANGED <<memories, entities, auto, client, requests, mentioned, stuck>>
  BY DEF Consolidate, Tick, Unlock, Visit, AnHourPasses
<1>2. /\ talks \in [Sessions -> {NoTalk} \cup TalkRecord]
      /\ consolidator \in [pc : {"select", "range", "summarize"}, todo : SUBSET Sessions]
      /\ mu \in {"free", "consolidator"}
  BY MemTypesFact DEF MemInv
<1>3. mu' \in {"free", "consolidator"}
  BY <1>2 DEF Consolidate, Tick, Unlock, Visit, AnHourPasses
<1>4. talks' \in [Sessions -> {NoTalk} \cup TalkRecord]
  <2>1. ASSUME NEW s \in Sessions, AnHourPasses(s)
        PROVE  talks' \in [Sessions -> {NoTalk} \cup TalkRecord]
    <3>1. PICK x \in TalkRecord : x = talks[s]
      BY <1>2, <2>1 DEF AnHourPasses
    <3>2. PICK y : y = [x EXCEPT !.idle = TRUE]
      OBVIOUS
    <3>3. y \in TalkRecord
      BY <3>2 DEF TalkRecord
    <3>4. talks' = [talks EXCEPT ![s] = y]
      BY <1>2, <2>1, <3>1, <3>2 DEF AnHourPasses
    <3>5. QED
      BY <1>2, <3>3, <3>4
  <2>2. CASE Consolidate
    BY <1>2, <2>2 DEF Consolidate, Tick, Unlock, Visit
  <2>3. QED
    BY <2>1, <2>2
<1>5. consolidator' \in [pc : {"select", "range", "summarize"}, todo : SUBSET Sessions]
  BY <1>2 DEF Consolidate, Tick, Unlock, Visit, AnHourPasses
<1>6. CallsInv' /\ CountsAreOfMessages'
  BY <1>1, Same
<1>7. MemTypeOK'
  BY <1>1, <1>3, <1>4, <1>5, MemTypesFact, MemTypesNext DEF MemInv
<1>8. QED
  BY <1>6, <1>7 DEF MemInv

LEMMA MemStepInv == MemInv /\ [MemNext]_memVars => MemInv'
<1> SUFFICES ASSUME MemInv, [MemNext]_memVars PROVE MemInv'
  OBVIOUS
<1>1. ASSUME NEW c \in Clients, Serve(c) PROVE MemInv'
  BY <1>1, AddKeeps, SummarizeKeeps, StoreKeeps, AutoKeeps, VectorHopKeeps, HopPanicsKeeps,
     RecallHopKeeps, HopsDoneKeeps, AllKeeps DEF Serve
<1>2. ASSUME NEW c \in Clients, NEW op \in Ops, Request(c, op) PROVE MemInv'
  BY <1>2, RequestKeeps
<1>3. CASE Consolidate \/ \E s \in Sessions : AnHourPasses(s)
  BY <1>3, ConsolidatorKeeps
<1>4. CASE EmbedderJams
  <2>1. /\ UNCHANGED <<memories, client, entities, mentioned>> /\ stuck' \in BOOLEAN
        /\ UNCHANGED <<mu, talks, auto, consolidator, requests>>
    BY <1>4 DEF EmbedderJams
  <2>2. CallsInv' /\ CountsAreOfMessages'
    BY <2>1, Same
  <2>3. MemTypeOK'
    BY <2>1, MemTypesFact, MemTypesNext DEF MemInv
  <2>4. QED
    BY <2>2, <2>3 DEF MemInv
<1>5. CASE UNCHANGED memVars
  <2>1. /\ UNCHANGED <<memories, client, entities, mentioned>>
        /\ UNCHANGED <<mu, talks, auto, consolidator, requests, stuck>>
    BY <1>5 DEF memVars
  <2>2. CallsInv' /\ CountsAreOfMessages'
    BY <2>1, Same
  <2>3. MemTypeOK'
    BY <2>1, MemTypesFact, MemTypesNext DEF MemInv
  <2>4. QED
    BY <2>2, <2>3 DEF MemInv
<1>6. QED
  BY <1>1, <1>2, <1>3, <1>4, <1>5 DEF MemNext

LEMMA MemInvAlways == MemSpec => []MemInv
<1>1. MemInv /\ [MemNext]_memVars => MemInv'
  BY MemStepInv
<1>2. QED
  BY MemInitInv, <1>1, PTL DEF MemSpec

\* The conversations, the memories, the entities and the calls keep their types.
THEOREM MemTypes == MemSpec => []MemTypeOK
<1>1. MemInv => MemTypeOK
  BY DEF MemInv
<1>2. QED
  BY MemInvAlways, <1>1, PTL

\* However many patterns match, an entity is counted once for each message
\* that mentions it.
THEOREM CountsAreOfMessagesAlways == MemSpec => []CountsAreOfMessages
<1>1. MemInv => CountsAreOfMessages
  BY DEF MemInv
<1>2. QED
  BY MemInvAlways, <1>1, PTL

\* A query misses nothing of what was known when it began, whatever is
\* remembered while its hops run.
THEOREM QueryMissesNothingAlways == MemSpec => []QueryMissesNothing
<1>1. ASSUME MemInv PROVE QueryMissesNothing
  <2>1. ASSUME NEW c \in Clients, Asks(c, "answered") PROVE AnsweredFrom(c)
    <3>1. PICK x \in Call : x = client[c] /\ x.op.hops \in 1..5 /\ x.before \in Nat
          /\ x.op.name = "query" /\ x.pc = "answered" /\ QueryOf(memories, x)
          /\ memories \in Seq(Memory)
      BY <1>1, <2>1, AskedFact DEF Asks
    <3>2. Matching(x.op.query) = Matches(memories, x.op.query)
      BY DEF Matches, Matching
    <3>3. x.op.hops >= 3 => Covers(memories, x.op.query, x.before, x.found)
      BY <3>1 DEF QueryOf
    <3>4. x.found = {} => 1..x.before = {}
      <4>1. x.found = {} => x.before = 0
        BY <3>1 DEF QueryOf
      <4>2. 1..0 = {}
        OBVIOUS
      <4>3. QED
        BY <4>1, <4>2
    <3>5. QED
      BY <3>1, <3>2, <3>3, <3>4 DEF AnsweredFrom, Covers, Told
  <2>2. QED
    BY <2>1 DEF QueryMissesNothing
<1>2. QED
  BY MemInvAlways, <1>1, PTL
================================================================================
