------------------------------ MODULE VectorDB ------------------------------
(***************************************************************************)
(* interface/vector_db.go: a database keeps each document three times, in  *)
(* a storage engine, in a vector index whose nodes are numbered, and in    *)
(* two maps between node numbers and ids.  Writers hold its write lock;    *)
(* searches share the read lock.  The first search trains a vectorizer on  *)
(* the stored texts and rebuilds index and maps while it still holds only  *)
(* the read lock, and a mutex that keeps other trainings out.              *)
(*                                                                         *)
(* Node numbers start at 1 here, so that node n has idMap[n].  A vector is *)
(* the document it represents, or Empty.  One read or write of db.index,   *)
(* db.idMap or db.batchEmbeddingFunc is atomic, although the code leaves   *)
(* them unsynchronised during a training: slices torn by that data race    *)
(* are not modelled.                                                       *)
(***************************************************************************)
EXTENDS Naturals, Sequences, FiniteSets, Functions

CONSTANTS
    Ids,          \* ids of documents
    VecDocs,      \* documents that come with a vector
    TextDocs,     \* documents with a text to embed in their payload
    BareDocs,     \* documents with neither
    Searchers,    \* goroutines that call Search
    Kinds,        \* index adapters: "hnsw" and "flat"
    Engines,      \* storage engines: "memory", and "persistent" for the others
    MaxBatch,     \* bound on the documents of one Insert
    MaxSlots,     \* bound on the node numbers given out, and on the entries of the index
    NoId,         \* the empty string, and the decimal name of a node out of range
    NoDoc, Empty, NoOne

Docs == VecDocs \cup TextDocs \cup BareDocs

ASSUME DocsAssumption ==
    /\ Empty \notin Docs
    /\ VecDocs \cap TextDocs = {} /\ BareDocs \cap (VecDocs \cup TextDocs) = {}
ASSUME NamesAssumption == IsFiniteSet(Ids) /\ NoId \notin Ids /\ NoOne \notin Searchers
ASSUME ConfigAssumption == Kinds \subseteq {"hnsw", "flat"} /\ Engines \subseteq {"memory", "persistent"}
ASSUME BoundsAssumption == MaxBatch \in Nat /\ MaxSlots \in Nat

VARIABLES
    kind, engine,  \* the configuration
    stored,        \* the storage engine: a document and its vector, or nothing
    saved,         \* vectors.json of the memory engine: no or one snapshot
    index,         \* the entries of the index
    idMap,         \* idMap[n]: the id of node n, or NoId
    slot,          \* idReverseMap: the node of an id, or 0
    embedFn,       \* some embedding function is set
    trained,       \* vectorizer is not nil
    closed,
    todo,          \* what a writer, or the constructor, has still to index
    mutex,         \* who holds vectorizerMutex across a rebuild, or NoOne
    pending,       \* the ids the rebuild has still to visit
    pc, hits, results,  \* each search: its step, its unnamed and its named hits
    stale,         \* history: ids stored or removed behind the back of the index
    overlapped,    \* history: searches that met a rebuild under way
    rebuilds       \* history: rebuilds since the database was opened

config == <<kind, engine>>
maps == <<idMap, slot>>
searches == <<pc, hits, results, overlapped>>
training == <<trained, mutex, pending, rebuilds>>
vars == <<config, stored, saved, index, maps, embedFn, training, closed, todo, searches, stale>>

Stored == [doc : Docs, vec : Docs \cup {Empty}]
Entry == [node : Nat \ {0}, copy : Nat \ {0}, owner : Ids, vec : Docs \cup {Empty}]
ASSUME NoDocAssumption == NoDoc \notin Stored
Nothing == [id \in Ids |-> NoDoc]
Present == {id \in Ids : stored[id] # NoDoc}

(* The vector a document comes with, and the one embedding leaves it with. *)
OwnVector(d) == IF d \in VecDocs THEN d ELSE Empty
Embedded(d) == IF embedFn THEN d ELSE OwnVector(d)

(* Index.Insert of the two adapters: HNSW updates a node it knows, Flat    *)
(* appends another entry for it ...                                        *)
Copies(n) == {e \in index : e.node = n}
Indexed(n, id, v) ==
    LET entry(c) == [node |-> n, copy |-> c, owner |-> id, vec |-> v]
    IN  IF kind = "hnsw" THEN (index \ Copies(n)) \cup {entry(1)}
                         ELSE index \cup {entry(Cardinality(Copies(n)) + 1)}

(* ... and Index.Delete: HNSW marks the node, Flat drops its first entry.  *)
Unindexed(nodes) ==
    {e \in index : e.node \in nodes => kind = "flat" /\ e.copy # 1}

Orders(S) == Bijection(1 .. Cardinality(S), S)

Init ==
    /\ kind \in Kinds /\ engine \in Engines
    /\ stored = Nothing /\ saved = {}
    /\ index = {} /\ idMap = <<>> /\ slot = [id \in Ids |-> 0]
    /\ embedFn = FALSE /\ trained = FALSE /\ closed = FALSE
    /\ todo = <<>> /\ mutex = NoOne /\ pending = <<>>
    /\ pc = [s \in Searchers |-> "idle"]
    /\ hits = [s \in Searchers |-> {}] /\ results = [s \in Searchers |-> {}]
    /\ stale = {} /\ overlapped = {} /\ rebuilds = 0

-----------------------------------------------------------------------------
(* Writers, under the write lock.                                          *)

WriteLocked == ~closed /\ todo = <<>> /\ \A s \in Searchers : pc[s] = "idle"

Batch == UNION {[1 .. n -> [id : Ids, doc : Docs]] : n \in 1 .. MaxBatch}
IdsOf(b) == {b[i].id : i \in DOMAIN b}

(* An embedding function that finds no text makes Insert fail at once.     *)
Accepted(b) == embedFn => \A i \in DOMAIN b : b[i].doc \notin BareDocs

(* What BatchPut leaves in the storage if it gets as far as the ids given: *)
(* of two documents with one id the last stays.                            *)
Put(b, ids) ==
    [id \in Ids |->
        IF id \in ids
        THEN LET i == CHOOSE j \in DOMAIN b :
                        b[j].id = id /\ \A k \in DOMAIN b : b[k].id = id => k <= j
             IN  [doc |-> b[i].doc, vec |-> Embedded(b[i].doc)]
        ELSE stored[id]]

(* Insert stores the documents with their embeddings, but then indexes the *)
(* vectors that the caller passed.                                         *)
Insert(b) ==
    /\ WriteLocked /\ Accepted(b)
    /\ Len(idMap) + Len(b) <= MaxSlots /\ Cardinality(index) + Len(b) <= MaxSlots
    /\ stored' = Put(b, IdsOf(b))
    /\ todo' = [i \in DOMAIN b |-> [id |-> b[i].id, vec |-> OwnVector(b[i].doc)]]
    /\ stale' = stale \ IdsOf(b)
    /\ UNCHANGED <<config, saved, index, maps, embedFn, training, closed, searches>>

(* BatchPut reports an error, perhaps after it stored some of the batch,   *)
(* and Insert returns before it touches the index.                         *)
InsertFails(b) ==
    /\ WriteLocked /\ Accepted(b) /\ engine = "persistent"
    /\ \E ids \in SUBSET IdsOf(b) :
           /\ stored' = Put(b, ids)
           /\ stale' = stale \cup ids
    /\ UNCHANGED <<config, saved, index, maps, embedFn, training, closed, todo, searches>>

(* Mutant: the node number is taken before the one it follows.             *)
IndexOneOffByOne ==
    /\ todo # <<>>
    /\ LET id == Head(todo).id
           n == IF slot[id] # 0 THEN slot[id] ELSE Len(idMap) + 1
       IN  /\ index' = Indexed(IF slot[id] # 0 THEN n ELSE Len(idMap), id, Head(todo).vec)
           /\ idMap' = IF slot[id] # 0 THEN idMap ELSE Append(idMap, id)
           /\ slot' = [slot EXCEPT ![id] = n]
    /\ todo' = Tail(todo)
    /\ UNCHANGED <<config, stored, saved, embedFn, training, closed, searches, stale>>

(* Mutant: a new document takes the number of a deleted one.               *)
IndexOneReuses ==
    /\ todo # <<>>
    /\ LET id == Head(todo).id
           free == {n \in DOMAIN idMap : idMap[n] = NoId}
           n == IF slot[id] # 0 THEN slot[id]
                ELSE IF free # {} THEN CHOOSE m \in free : TRUE ELSE Len(idMap) + 1
       IN  /\ index' = Indexed(n, id, Head(todo).vec)
           /\ idMap' = IF n <= Len(idMap) THEN [idMap EXCEPT ![n] = id] ELSE Append(idMap, id)
           /\ slot' = [slot EXCEPT ![id] = n]
    /\ todo' = Tail(todo)
    /\ UNCHANGED <<config, stored, saved, embedFn, training, closed, searches, stale>>

(* The loop that Insert and loadExistingVectors share, one turn at a time. *)
IndexOne ==
    /\ todo # <<>>
    /\ LET id == Head(todo).id
           n == IF slot[id] # 0 THEN slot[id] ELSE Len(idMap) + 1
       IN  /\ index' = Indexed(n, id, Head(todo).vec)
           /\ idMap' = IF slot[id] # 0 THEN [idMap EXCEPT ![n] = id] ELSE Append(idMap, id)
           /\ slot' = [slot EXCEPT ![id] = n]
    /\ todo' = Tail(todo)
    /\ UNCHANGED <<config, stored, saved, embedFn, training, closed, searches, stale>>

(* Mutant: the reverse map keeps the deleted ids.                          *)
DeletesKeepSlot(ids) ==
    /\ WriteLocked
    /\ LET nodes == {slot[id] : id \in ids}
       IN  /\ index' = Unindexed(nodes)
           /\ idMap' = [n \in DOMAIN idMap |-> IF n \in nodes THEN NoId ELSE idMap[n]]
    /\ stored' = [id \in Ids |-> IF id \in ids THEN NoDoc ELSE stored[id]]
    /\ stale' = stale \ ids
    /\ UNCHANGED <<config, saved, slot, embedFn, training, closed, todo, searches>>

(* Mutant: the storage and the maps forget the ids, the index does not.    *)
DeletesKeepNodes(ids) ==
    /\ WriteLocked
    /\ LET nodes == {slot[id] : id \in ids}
       IN  idMap' = [n \in DOMAIN idMap |-> IF n \in nodes THEN NoId ELSE idMap[n]]
    /\ slot' = [id \in Ids |-> IF id \in ids THEN 0 ELSE slot[id]]
    /\ stored' = [id \in Ids |-> IF id \in ids THEN NoDoc ELSE stored[id]]
    /\ stale' = stale \ ids
    /\ UNCHANGED <<config, saved, index, embedFn, training, closed, todo, searches>>

(* Deletes, and Delete of a single id: from the storage, the maps, and the *)
(* index.  The node of a deleted id is left unused.                        *)
Deletes(ids) ==
    /\ WriteLocked
    /\ LET nodes == {slot[id] : id \in ids}
       IN  /\ index' = Unindexed(nodes)
           /\ idMap' = [n \in DOMAIN idMap |-> IF n \in nodes THEN NoId ELSE idMap[n]]
    /\ slot' = [id \in Ids |-> IF id \in ids THEN 0 ELSE slot[id]]
    /\ stored' = [id \in Ids |-> IF id \in ids THEN NoDoc ELSE stored[id]]
    /\ stale' = stale \ ids
    /\ UNCHANGED <<config, saved, embedFn, training, closed, todo, searches>>

DeletesFails(ids) ==
    /\ WriteLocked /\ engine = "persistent"
    /\ \E gone \in SUBSET ids :
           /\ stored' = [id \in Ids |-> IF id \in gone THEN NoDoc ELSE stored[id]]
           /\ stale' = stale \cup gone
    /\ UNCHANGED <<config, saved, index, maps, embedFn, training, closed, todo, searches>>

(* Save and Load of the memory engine; Load leaves index and maps alone.   *)
(* The other engines write a backup that Load does not read.               *)
Save ==
    /\ WriteLocked /\ engine = "memory"
    /\ saved' = {stored}
    /\ UNCHANGED <<config, stored, index, maps, embedFn, training, closed, todo, searches, stale>>

Load ==
    /\ WriteLocked /\ engine = "memory"
    /\ stored' \in saved
    /\ stale' = stale \cup {id \in Ids : stored'[id] # stored[id]}
    /\ UNCHANGED <<config, saved, index, maps, embedFn, training, closed, todo, searches>>

SetBatchEmbeddingFunc ==
    /\ todo = <<>> /\ \A s \in Searchers : pc[s] = "idle"
    /\ embedFn' = TRUE
    /\ UNCHANGED <<config, stored, saved, index, maps, training, closed, todo, searches, stale>>

Close ==
    /\ WriteLocked
    /\ closed' = TRUE
    /\ UNCHANGED <<config, stored, saved, index, maps, embedFn, training, todo, searches, stale>>

(* NewPureGoVectorDB, after a Close or the death of the process: only the  *)
(* files survive, and loadExistingVectors indexes what the storage yields. *)
Restart ==
    /\ stored' = IF engine = "memory" THEN Nothing ELSE stored
    /\ \E order \in Orders({id \in Ids : stored'[id] # NoDoc}) :
           todo' = [i \in DOMAIN order |-> [id |-> order[i], vec |-> stored'[order[i]].vec]]
    /\ index' = {} /\ idMap' = <<>> /\ slot' = [id \in Ids |-> 0]
    /\ embedFn' = FALSE /\ trained' = FALSE /\ closed' = FALSE
    /\ mutex' = NoOne /\ pending' = <<>>
    /\ pc' = [s \in Searchers |-> "idle"]
    /\ hits' = [s \in Searchers |-> {}] /\ results' = [s \in Searchers |-> {}]
    /\ stale' = {} /\ overlapped' = {} /\ rebuilds' = 0
    /\ UNCHANGED <<config, saved>>
-----------------------------------------------------------------------------
(* Search, under the read lock.                                            *)

Search(s) ==
    /\ pc[s] = "idle" /\ ~closed /\ todo = <<>>
    /\ pc' = [pc EXCEPT ![s] = IF embedFn THEN "query" ELSE "train"]
    /\ overlapped' = overlapped \ {s}
    /\ UNCHANGED <<config, stored, saved, index, maps, embedFn, training, closed, todo,
                   hits, results, stale>>

(* initializeDefaultEmbedding: nothing to do if another search has trained *)
(* the vectorizer, or if no stored document has a text.                    *)
NothingToTrain == trained \/ \A id \in Present : stored[id].doc \notin TextDocs

SkipTraining(s) ==
    /\ pc[s] = "train" /\ mutex = NoOne /\ NothingToTrain
    /\ pc' = [pc EXCEPT ![s] = "query"]
    /\ UNCHANGED <<config, stored, saved, index, maps, embedFn, training, closed, todo,
                   hits, results, stale, overlapped>>

(* The vocabulary happens to be as large as the configured dimension.      *)
TrainOnly(s) ==
    /\ pc[s] = "train" /\ mutex = NoOne /\ ~NothingToTrain
    /\ trained' = TRUE /\ embedFn' = TRUE
    /\ pc' = [pc EXCEPT ![s] = "query"]
    /\ UNCHANGED <<config, stored, saved, index, maps, mutex, pending, closed, todo,
                   hits, results, stale, overlapped, rebuilds>>

(* Mutant: no second look at the vectorizer once the mutex is held.        *)
TrainAgain(s) ==
    /\ pc[s] = "train" /\ mutex = NoOne
    /\ \E id \in Present : stored[id].doc \in TextDocs
    /\ trained' = TRUE /\ embedFn' = TRUE
    /\ mutex' = s
    /\ pending' \in Orders(Present)
    /\ rebuilds' = rebuilds + 1
    /\ pc' = [pc EXCEPT ![s] = "swap"]
    /\ overlapped' = overlapped \cup {t \in Searchers : pc[t] \in {"query", "name"}}
    /\ UNCHANGED <<config, stored, saved, index, maps, closed, todo, hits, results, stale>>

(* Otherwise the embedding function is set first, and then, still under    *)
(* the mutex, everything is rebuilt for the new dimension.                 *)
Train(s) ==
    /\ pc[s] = "train" /\ mutex = NoOne /\ ~NothingToTrain
    /\ trained' = TRUE /\ embedFn' = TRUE
    /\ mutex' = s
    /\ pending' \in Orders(Present)
    /\ rebuilds' = rebuilds + 1
    /\ pc' = [pc EXCEPT ![s] = "swap"]
    /\ overlapped' = overlapped \cup {t \in Searchers : pc[t] \in {"query", "name"}}
    /\ UNCHANGED <<config, stored, saved, index, maps, closed, todo, hits, results, stale>>

SwapIndex(s) ==
    /\ pc[s] = "swap"
    /\ index' = {}
    /\ pc' = [pc EXCEPT ![s] = "clear"]
    /\ UNCHANGED <<config, stored, saved, maps, embedFn, training, closed, todo,
                   hits, results, stale, overlapped>>

ClearMaps(s) ==
    /\ pc[s] = "clear"
    /\ idMap' = <<>>
    /\ slot' = [id \in Ids |-> 0]
    /\ pc' = [pc EXCEPT ![s] = "rebuild"]
    /\ UNCHANGED <<config, stored, saved, index, embedFn, training, closed, todo,
                   hits, results, stale, overlapped>>

(* Mutant: the rebuild numbers the new nodes from 0.                       *)
RebuildInsertFromZero(s) ==
    /\ pc[s] = "rebuild" /\ pending # <<>>
    /\ index' = Indexed(Len(idMap), Head(pending), stored[Head(pending)].doc)
    /\ pc' = [pc EXCEPT ![s] = "map"]
    /\ UNCHANGED <<config, stored, saved, maps, embedFn, training, closed, todo,
                   hits, results, stale, overlapped>>

(* A document with a vector, or with a text to make one of, goes into the  *)
(* new index; the memory engine hands out its own documents, which thereby *)
(* get their vectors.                                                      *)
RebuildInsert(s) ==
    /\ pc[s] = "rebuild" /\ pending # <<>>
    /\ LET id == Head(pending)
           d == stored[id].doc
       IN  IF d \in BareDocs
           THEN /\ pending' = Tail(pending)
                /\ UNCHANGED <<stored, index, pc>>
           ELSE /\ index' = Indexed(Len(idMap) + 1, id, d)
                /\ stored' = IF engine = "memory" THEN [stored EXCEPT ![id].vec = d] ELSE stored
                /\ pc' = [pc EXCEPT ![s] = "map"]
                /\ UNCHANGED pending
    /\ UNCHANGED <<config, saved, maps, embedFn, trained, mutex, closed, todo,
                   hits, results, stale, overlapped, rebuilds>>

RebuildMap(s) ==
    /\ pc[s] = "map"
    /\ idMap' = Append(idMap, Head(pending))
    /\ slot' = [slot EXCEPT ![Head(pending)] = Len(idMap) + 1]
    /\ pending' = Tail(pending)
    /\ pc' = [pc EXCEPT ![s] = "rebuild"]
    /\ UNCHANGED <<config, stored, saved, index, embedFn, trained, mutex, closed, todo,
                   hits, results, stale, overlapped, rebuilds>>

RebuildDone(s) ==
    /\ pc[s] = "rebuild" /\ pending = <<>>
    /\ mutex' = NoOne
    /\ stale' = {}
    /\ pc' = [pc EXCEPT ![s] = "query"]
    /\ UNCHANGED <<config, stored, saved, index, maps, embedFn, trained, pending, closed, todo,
                   hits, results, overlapped, rebuilds>>

(* index.Search.  How near the entries are is left out: all of them may be *)
(* among the first TopK.                                                   *)
Query(s) ==
    /\ pc[s] = "query"
    /\ hits' = [hits EXCEPT ![s] = index]
    /\ overlapped' = IF mutex = NoOne THEN overlapped ELSE overlapped \cup {s}
    /\ pc' = [pc EXCEPT ![s] = "name"]
    /\ UNCHANGED <<config, stored, saved, index, maps, embedFn, training, closed, todo,
                   results, stale>>

NameHit(s) ==
    /\ pc[s] = "name"
    /\ \E e \in hits[s] :
           /\ hits' = [hits EXCEPT ![s] = @ \ {e}]
           /\ results' = [results EXCEPT ![s] = @ \cup
                  {[owner |-> e.owner, id |-> IF e.node <= Len(idMap) THEN idMap[e.node] ELSE NoId]}]
    /\ UNCHANGED <<config, stored, saved, index, maps, embedFn, training, closed, todo,
                   pc, overlapped, stale>>

Return(s) ==
    /\ pc[s] = "name" /\ hits[s] = {}
    /\ results' = [results EXCEPT ![s] = {}]
    /\ pc' = [pc EXCEPT ![s] = "idle"]
    /\ UNCHANGED <<config, stored, saved, index, maps, embedFn, training, closed, todo,
                   hits, overlapped, stale>>

Next ==
    \/ \E b \in Batch : Insert(b) \/ InsertFails(b)
    \/ IndexOne
    \/ \E ids \in SUBSET Ids \ {{}} : Deletes(ids) \/ DeletesFails(ids)
    \/ Save \/ Load \/ SetBatchEmbeddingFunc \/ Close \/ Restart
    \/ \E s \in Searchers :
           \/ Search(s) \/ SkipTraining(s) \/ TrainOnly(s) \/ Train(s)
           \/ SwapIndex(s) \/ ClearMaps(s)
           \/ RebuildInsert(s) \/ RebuildMap(s) \/ RebuildDone(s)
           \/ Query(s) \/ NameHit(s) \/ Return(s)

Spec == Init /\ [][Next]_vars

-----------------------------------------------------------------------------
TypeOK ==
    /\ kind \in Kinds /\ engine \in Engines
    /\ stored \in [Ids -> Stored \cup {NoDoc}]
    /\ saved \in SUBSET [Ids -> Stored \cup {NoDoc}]
    /\ index \in SUBSET Entry /\ IsFiniteSet(index)
    /\ idMap \in Seq(Ids \cup {NoId})
    /\ slot \in [Ids -> Nat]
    /\ embedFn \in BOOLEAN /\ trained \in BOOLEAN /\ closed \in BOOLEAN
    /\ todo \in Seq([id : Ids, vec : Docs \cup {Empty}])
    /\ mutex \in Searchers \cup {NoOne}
    /\ pending \in Seq(Ids)
    /\ pc \in [Searchers ->
              {"idle", "train", "swap", "clear", "rebuild", "map", "query", "name"}]
    /\ hits \in [Searchers -> SUBSET Entry]
    /\ results \in [Searchers -> SUBSET [owner : Ids, id : Ids \cup {NoId}]]
    /\ stale \in SUBSET Ids /\ overlapped \in SUBSET Searchers
    /\ rebuilds \in Nat

(* idMap and idReverseMap are inverse to each other at every moment, in    *)
(* the middle of an insert and of a rebuild included.                      *)
MapsAgree ==
    /\ \A id \in Ids : slot[id] # 0 => slot[id] \in DOMAIN idMap /\ idMap[slot[id]] = id
    /\ \A n \in DOMAIN idMap : idMap[n] # NoId => slot[idMap[n]] = n

(* Whenever no write and no rebuild is under way, an HNSW index holds one  *)
(* entry of each stored document, under the number the maps give its id,   *)
(* with its vector or, for a text, perhaps still without one; and it holds *)
(* nothing else.  Only a document without vector and text may be missing,  *)
(* and only ids that a failed storage call or Load has changed may differ, *)
(* until they are written again or a rebuild or restart comes.             *)
Settled == todo = <<>> /\ mutex = NoOne
IndexMatchesStore ==
    Settled /\ kind = "hnsw" =>
        /\ \A e \in index : /\ e.node \in DOMAIN idMap /\ idMap[e.node] = e.owner
                            /\ e.owner \notin stale =>
                                  /\ e.owner \in Present
                                  /\ \/ e.vec = stored[e.owner].doc
                                     \/ e.vec = Empty /\ stored[e.owner].doc \notin VecDocs
        /\ \A id \in Present \ stale :
               \/ stored[id].doc \in BareDocs
               \/ \E e \in index : e.owner = id

(* A search names each hit of an HNSW index with the id of the document    *)
(* that it hit, and that document is stored, unless another search rebuilt *)
(* the index meanwhile.                                                    *)
LoneSearchNamesRight ==
    kind = "hnsw" =>
        \A s \in Searchers \ overlapped : \A r \in results[s] :
            r.id = r.owner /\ (r.id \in Present \/ r.id \in stale)

(* However many first searches race, one of them rebuilds the index.       *)
RebuiltOnce == rebuilds <= 1

(* A node number is never given to a second document: HNSW could no longer *)
(* reach the node.  Only a rebuild or a restart begins to count anew.      *)
NoNodeReused ==
    [][\/ Restart
       \/ \A n \in DOMAIN idMap \cap DOMAIN idMap' : idMap'[n] \in {idMap[n], NoId}]_vars
=============================================================================
