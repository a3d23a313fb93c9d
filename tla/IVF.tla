-------------------------------- MODULE IVF --------------------------------
(***************************************************************************)
(* The inverted file index of indexes/ivf/ivf_index.go behind its adapter  *)
(* (interface/index.go) and the id map of interface/vector_db.go.          *)
(*                                                                         *)
(* The index numbers its vectors as the database tells it, until it is     *)
(* trained: training numbers them anew, by their positions, which is right *)
(* only if these are the positions of the id map.  The first search trains *)
(* an index that is not trained, so does the vector that makes it large    *)
(* enough, and a search that rebuilds the index adds vectors while other   *)
(* searches train it.                                                      *)
(*                                                                         *)
(* A vector is the document it was made from.  Which cluster a vector is   *)
(* in is left out, and a search is taken to probe all of them.             *)
(***************************************************************************)
EXTENDS Integers, Sequences, FiniteSets, Functions

CONSTANTS
    Docs, Searches,
    NoName, NoOne,      \* the name of a deleted document; no search
    NumClusters,
    Threshold,          \* trainThreshold: 10 * NumClusters in the code
    MaxVectors, MaxRebuilds \* bounds

ASSUME IVFAssumption ==
    /\ NoName \notin Docs /\ NoOne \notin Searches
    /\ NumClusters \in Nat \ {0} /\ Threshold \in Nat /\ Threshold >= NumClusters
    /\ MaxVectors \in Nat /\ MaxRebuilds \in Nat

VARIABLES
    index,      \* vectors, their ids, and how many of them the clusters hold
    trained,    \* the flag of the adapter
    idMap,      \* number + 1 -> document
    pc, got,    \* per search: where it is, and the vectors it will train with
    rebuilder,  \* the search that rebuilds, or NoOne
    pending,    \* the documents it has still to visit
    adding,     \* the one whose vector is in the index and whose id is not in the map
    rewritten,  \* history: a document was written again before the training
    late,       \* history: documents whose vector came after the training
    lost,       \* history: documents whose vector a training dropped
    trainings,  \* history: how often the index was trained
    rebuilds

database == <<index, trained, idMap>>
searches == <<pc, got, rebuilder, pending, adding>>
history == <<rewritten, late, lost, trainings>>
vars == <<database, searches, history, rebuilds>>

NewIVFIndex == [vectors |-> <<>>, ids |-> <<>>, clustered |-> 0]

Init ==
    /\ index = NewIVFIndex /\ trained = FALSE /\ idMap = <<>>
    /\ pc = [s \in Searches |-> "idle"] /\ got = [s \in Searches |-> <<>>]
    /\ rebuilder = NoOne /\ pending = {} /\ adding = NoName
    /\ rewritten = FALSE /\ late = {} /\ lost = {} /\ trainings = 0
    /\ rebuilds = 0

-----------------------------------------------------------------------------
(* The index.                                                              *)

Count(x) == Len(x.vectors)

Add(x, id, doc) ==
    [x EXCEPT !.vectors = Append(@, doc), !.ids = Append(@, id)]

Trainable(vectors) == Len(vectors) >= NumClusters

(* Mutant: the ids are counted from 1.                                     *)
TrainFromOne(vectors) ==
    [vectors |-> vectors, ids |-> [p \in DOMAIN vectors |-> p],
     clustered |-> Len(vectors)]

(* Mutant: the last vector is in no cluster.                               *)
TrainLeavesLast(vectors) ==
    [vectors |-> vectors, ids |-> [p \in DOMAIN vectors |-> p - 1],
     clustered |-> Len(vectors) - 1]

(* K-means puts every vector it is given into one cluster.                 *)
Train(vectors) ==
    [vectors |-> vectors, ids |-> [p \in DOMAIN vectors |-> p - 1],
     clustered |-> Len(vectors)]

-----------------------------------------------------------------------------
(* Writers hold db.mu, so that no search is under way.                     *)

Quiet == \A s \in Searches : pc[s] = "idle"
NameOf(id) == IF id < Len(idMap) THEN idMap[id + 1] ELSE NoName
Named == Range(idMap) \ {NoName}
Number(doc) == IF doc \in Named
               THEN CHOOSE id \in 0 .. Len(idMap) - 1 : NameOf(id) = doc
               ELSE Len(idMap)

(* An untrained adapter trains itself when the vector makes the index      *)
(* large enough, and then no vector is late.                               *)
Insert(doc) ==
    /\ Quiet /\ Count(index) < MaxVectors
    /\ LET added == Add(index, Number(doc), doc)
           trains == ~trained /\ Count(added) >= Threshold
       IN /\ index' = IF trains THEN Train(added.vectors) ELSE added
          /\ trained' = (trained \/ trains)
          /\ trainings' = trainings + (IF trains THEN 1 ELSE 0)
          /\ late' = IF trains THEN {}
                     ELSE IF index.clustered > 0 THEN late \cup ({doc} \ Named)
                     ELSE late
    /\ idMap' = IF doc \in Named THEN idMap ELSE Append(idMap, doc)
    /\ rewritten' = (rewritten \/ (doc \in Named /\ index.clustered = 0))
    /\ UNCHANGED <<searches, lost, rebuilds>>

(* The name goes; Delete of the adapter does nothing.                      *)
Delete(doc) ==
    /\ Quiet /\ doc \in Named
    /\ idMap' = [idMap EXCEPT ![Number(doc) + 1] = NoName]
    /\ UNCHANGED <<index, trained, searches, history, rebuilds>>

-----------------------------------------------------------------------------
(* Searches share db.mu.  Each reads the flag, copies the vectors, trains  *)
(* and sets the flag, and all but the training itself goes unlocked.       *)

SearchBegin(s) ==
    /\ pc[s] = "idle"
    /\ pc' = [pc EXCEPT ![s] = "check"]
    /\ UNCHANGED <<database, got, rebuilder, pending, adding, history, rebuilds>>

(* Where a search goes on when it has trained, or has no need to.          *)
Resume(s) == IF s = rebuilder THEN "map" ELSE "idle"

Check(s) ==
    /\ pc[s] = "check"
    /\ pc' = [pc EXCEPT ![s] = IF trained THEN "idle" ELSE "collect"]
    /\ UNCHANGED <<database, got, rebuilder, pending, adding, history, rebuilds>>

GetAllVectors(s) ==
    /\ pc[s] = "collect"
    /\ got' = [got EXCEPT ![s] = index.vectors]
    /\ pc' = [pc EXCEPT ![s] = IF index.vectors = <<>> THEN Resume(s) ELSE "train"]
    /\ UNCHANGED <<database, rebuilder, pending, adding, history, rebuilds>>

TrainFails(s) ==
    /\ pc[s] = "train" /\ ~Trainable(got[s])
    /\ got' = [got EXCEPT ![s] = <<>>] /\ pc' = [pc EXCEPT ![s] = Resume(s)]
    /\ UNCHANGED <<database, rebuilder, pending, adding, history, rebuilds>>

TrainWith(s) ==
    /\ pc[s] = "train" /\ Trainable(got[s])
    /\ index' = Train(got[s])
    /\ lost' = lost \cup (Range(index.vectors) \ Range(got[s]))
    /\ late' = late \ Range(got[s])
    /\ trainings' = trainings + 1
    /\ got' = [got EXCEPT ![s] = <<>>] /\ pc' = [pc EXCEPT ![s] = "mark"]
    /\ UNCHANGED <<trained, idMap, rebuilder, pending, adding, rewritten, rebuilds>>

MarkTrained(s) ==
    /\ pc[s] = "mark"
    /\ trained' = TRUE /\ pc' = [pc EXCEPT ![s] = Resume(s)]
    /\ UNCHANGED <<index, idMap, got, rebuilder, pending, adding, history, rebuilds>>

-----------------------------------------------------------------------------
(* The rebuild of initializeDefaultEmbedding; VectorDB has its swap in     *)
(* smaller steps.  Searches that hold the old index go on with it, but no  *)
(* later one sees what they do.                                            *)

RebuildBegin(s) ==
    /\ pc[s] = "check" /\ rebuilder = NoOne /\ rebuilds < MaxRebuilds /\ Named # {}
    /\ index' = NewIVFIndex /\ trained' = FALSE /\ idMap' = <<>>
    /\ pc' = [t \in Searches |-> IF t = s THEN "rebuild" ELSE "idle"]
    /\ got' = [t \in Searches |-> <<>>]
    /\ rebuilder' = s /\ pending' = Named /\ rebuilds' = rebuilds + 1
    /\ rewritten' = FALSE /\ late' = {} /\ lost' = {} /\ trainings' = 0
    /\ UNCHANGED adding

RebuildAdd(s) ==
    /\ pc[s] = "rebuild"
    /\ \E doc \in pending :
          /\ index' = Add(index, Len(idMap), doc)
          /\ late' = IF index.clustered > 0 THEN late \cup {doc} ELSE late
          /\ adding' = doc /\ pending' = pending \ {doc}
    /\ pc' = [pc EXCEPT ![s] = "added"]
    /\ UNCHANGED <<trained, idMap, got, rebuilder, rewritten, lost, trainings, rebuilds>>

(* Insert of the adapter goes on as a search does if it is time to train.  *)
RebuildCheck(s) ==
    /\ pc[s] = "added"
    /\ pc' = [pc EXCEPT ![s] = IF ~trained /\ Count(index) >= Threshold
                                 THEN "collect" ELSE "map"]
    /\ UNCHANGED <<database, got, rebuilder, pending, adding, history, rebuilds>>

RebuildMap(s) ==
    /\ pc[s] = "map"
    /\ idMap' = Append(idMap, adding) /\ adding' = NoName
    /\ pc' = [pc EXCEPT ![s] = "rebuild"]
    /\ UNCHANGED <<index, trained, got, rebuilder, pending, history, rebuilds>>

RebuildDone(s) ==
    /\ pc[s] = "rebuild" /\ pending = {}
    /\ rebuilder' = NoOne /\ pc' = [pc EXCEPT ![s] = "check"]
    /\ UNCHANGED <<database, got, pending, adding, history, rebuilds>>

Next ==
    \/ \E doc \in Docs : Insert(doc) \/ Delete(doc)
    \/ \E s \in Searches :
          \/ SearchBegin(s) \/ Check(s) \/ GetAllVectors(s)
          \/ TrainFails(s) \/ TrainWith(s) \/ MarkTrained(s)
          \/ RebuildBegin(s) \/ RebuildAdd(s) \/ RebuildCheck(s)
          \/ RebuildMap(s) \/ RebuildDone(s)

Spec == Init /\ [][Next]_vars

-----------------------------------------------------------------------------
(* A search never names a hit after another document, as long as no        *)
(* document was written again before the index was trained, and either no  *)
(* training dropped a vector that a rebuild added meanwhile or it was the  *)
(* only training.  (Renumbering of Train against idMap of the database.)   *)
NamesRight ==
    ~rewritten /\ (lost = {} \/ trainings <= 1) =>
        \A p \in DOMAIN index.vectors :
            /\ NameOf(index.ids[p]) \in {index.vectors[p], NoName}
            /\ index.ids[p] < Len(idMap) \/ index.vectors[p] = adding

(* Under the same condition a trained index finds every document but those *)
(* that came after the training or were dropped by it: one of its clusters *)
(* has a vector of the document under the document's number.               *)
SearchedAreFound ==
    index.clustered > 0 /\ ~rewritten /\ (lost = {} \/ trainings <= 1) =>
        \A doc \in Named \ (late \cup lost) :
            \E p \in 1 .. index.clustered :
                index.vectors[p] = doc /\ NameOf(index.ids[p]) = doc
=============================================================================
