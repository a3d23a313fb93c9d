---------------------------- MODULE LayeredIndex ----------------------------
(***************************************************************************)
(* The layered index of indexes/hnsw: every vector goes to the coarse      *)
(* layer (pages, on disk when they are not loaded), and those that are     *)
(* found often are copied to the fine layer (hot vectors in memory).       *)
(* LayeredIndex (layered_index.go) keeps JSON files; LayeredIndexV2        *)
(* (layered_index_protobuf.go, delta = TRUE) keeps protobuf files and can  *)
(* save only the dirty pages, but never counts an access.                  *)
(*                                                                         *)
(* Every method holds li.mu from its first line to its last, so it is one  *)
(* step.  A method that touches a page that is nil panics, and so ends the *)
(* process; a process may also be stopped between any two methods or in a  *)
(* save, and the next one loads what the directory holds.                  *)
(***************************************************************************)
EXTENDS CoarseIndex, FineIndex

CONSTANTS
    SearchCoarseK,          \* LayeredConfig.SearchCoarseK
    Ks,                     \* the values of k searches are asked for
    MaxInserts, MaxOpens    \* bounds on the calls of Insert and on processes

ASSUME LayeredAssumption ==
    /\ Ks \subseteq Nat \ {0} /\ SearchCoarseK \in Nat
    /\ MaxInserts \in Nat /\ MaxOpens \in Nat \ {0}

VARIABLES
    delta,      \* the index is a LayeredIndexV2 with enableDelta
    up,         \* a process has the index open
    coarse,     \* coarseIndex, a record of CoarseIndex
    fine,       \* fineIndex, a record of FineIndex
    disk,       \* the directory of the coarse layer
    fineFile,   \* fine_index.json, and whether there is one
    inserts, opens,
    saved       \* history: the vectors a completed save wrote that were not
                \* inserted again or evicted since, each with its page

store == <<disk, fineFile>>
vars == <<delta, up, coarse, fine, store, inserts, opens, saved>>

NoFineFile == [exists |-> FALSE, fine |-> NewFineIndex]

Init ==
    /\ delta \in BOOLEAN
    /\ up = TRUE
    /\ coarse = NewCoarseIndex /\ fine = NewFineIndex
    /\ disk = EmptyDirectory /\ fineFile = NoFineFile
    /\ inserts = 0 /\ opens = 1
    /\ saved = Nothing

Seen == Visible(coarse, disk)

(* The history keeps what the index still shows.                           *)
StillShown(promised, shown) ==
    LET kept == {id \in DOMAIN promised \cap DOMAIN shown :
                     shown[id] = promised[id].vector}
    IN  [id \in kept |-> promised[id]]

(* A page beyond the count that the metadata keep is not loaded again.     *)
Written(c, d) ==
    LET Counted(id) == \E i \in PagesWith(c, d, id) : i < d.totalPages
        ids == {id \in DOMAIN Visible(c, d) : Counted(id)}
    IN  [id \in ids |-> [vector |-> Visible(c, d)[id],
                         page   |-> CHOOSE i \in PagesWith(c, d, id) : i < d.totalPages]]

Becomes(c, f, d) ==
    /\ coarse' = c /\ fine' = f /\ disk' = d
    /\ UNCHANGED <<delta, up, opens>>
Reads(c, f) ==
    /\ Becomes(c, f, disk)
    /\ saved' = StillShown(saved, Visible(c, disk))
    /\ UNCHANGED <<fineFile, inserts>>
Ends ==
    /\ up' = FALSE /\ coarse' = NewCoarseIndex /\ fine' = NewFineIndex
    /\ UNCHANGED <<delta, opens, inserts>>
Panics == Ends /\ UNCHANGED <<store, saved>>

-----------------------------------------------------------------------------
(* Writing and reading vectors.                                            *)

InsertVector(id, vector) ==
    /\ up /\ inserts < MaxInserts
    /\ ~InsertPanics(coarse, id)
    /\ inserts' = inserts + 1
    /\ LET c == Insert(coarse, id, vector, delta)
       IN  \E d \in IF Evicts(coarse, id) THEN {disk, Evicted(coarse, disk)} ELSE {disk} :
               /\ Becomes(c, fine, d)
               /\ saved' = StillShown(Only(saved, Ids \ {id}), Visible(c, d))
    /\ UNCHANGED fineFile

InsertVectorPanics(id) == up /\ InsertPanics(coarse, id) /\ Panics

(* `near' lists the ids by their distance to the query; `cold' are ids     *)
(* whose last access, before this search, is longer ago than the threshold.*)
FirstK(s, k) == IF Len(s) > k THEN SubSeq(s, 1, k) ELSE s

PromoteIfHot(f, c, id) ==
    IF IsHotEnough(f, id) /\ id \notin DOMAIN f.hot /\ CanGet(c, disk, id)
    THEN FineInsert(f, id, GetVector(c, disk, id)) ELSE f
promoteHotData(f, c, merged) ==
    LET after[n \in 0 .. Len(merged)] ==
            IF n = 0 THEN f ELSE PromoteIfHot(after[n - 1], c, merged[n])
    IN  after[Len(merged)]

(* Enough hot vectors answer alone: no access is counted, nothing leaves.  *)
SearchHot(k) == up /\ Cardinality(DOMAIN fine.hot) >= k /\ UNCHANGED vars

Search(k) ==
    /\ up /\ Cardinality(DOMAIN fine.hot) < k /\ ~HasNil(coarse)
    /\ \E near \in SetToSeqs(DOMAIN fine.hot \cup DOMAIN Seen) :
       LET c       == LoadAll(coarse, disk, delta)
           found   == FirstK(Among(near, DOMAIN Seen), IF SearchCoarseK < k THEN k ELSE SearchCoarseK)
           merged  == Among(near, DOMAIN fine.hot \cup ToSet(found))
           counted == IF delta THEN fine ELSE RecordAccesses(fine, FirstK(merged, k))
           hotter  == promoteHotData(counted, c, merged)
           now     == ToSet(FirstK(merged, k)) \cup (DOMAIN hotter.hot \ DOMAIN fine.hot)
       IN  IF delta THEN Reads(c, hotter)
           ELSE \E cold \in SUBSET (DOMAIN hotter.count \ now) : Reads(c, EvictCold(hotter, cold))

SearchPanics(k) ==
    up /\ Cardinality(DOMAIN fine.hot) < k /\ HasNil(coarse) /\ Panics

(* LayeredIndex only.  GetVector does not panic here: metadata are only    *)
(* written when no page is nil, so pageMap names pages that Load makes.    *)
PromoteToHot(id) ==
    /\ up /\ ~delta /\ id \notin DOMAIN fine.hot
    /\ LET c    == GetLoads(coarse, disk, id, delta)
           room == IF FineIsFull(fine) THEN EvictOne(fine) ELSE fine
       IN  Reads(c, IF CanGet(coarse, disk, id)
                    THEN FineInsert(room, id, GetVector(coarse, disk, id)) ELSE fine)

EvictFromHot(id) ==
    up /\ ~delta /\ id \in DOMAIN fine.hot /\ Reads(coarse, FineDelete(fine, id))

(* LayeredIndexV2 only.                                                    *)
Get(id) ==
    /\ up /\ delta /\ id \notin DOMAIN fine.hot /\ ~GetPanics(coarse, id)
    /\ Reads(GetLoads(coarse, disk, id, delta), fine)

GetVectorPanics(id) ==
    up /\ delta /\ id \notin DOMAIN fine.hot /\ GetPanics(coarse, id) /\ Panics

-----------------------------------------------------------------------------
(* Saving, and the end and the start of a process.                         *)

SaveBoth ==
    /\ up /\ ~SavePanics(coarse, delta)
    /\ Becomes(Clean(coarse), fine, Save(coarse, disk))
    /\ fineFile' = [exists |-> TRUE, fine |-> FineSaved(fine)]
    /\ saved' = Written(coarse', disk')
    /\ UNCHANGED inserts

SaveDirty ==
    /\ up /\ delta
    /\ Becomes(Clean(coarse), fine, SaveDelta(coarse, disk))
    /\ fineFile' = [exists |-> TRUE, fine |-> FineSaved(fine)]
    /\ saved' = Written(coarse', disk')
    /\ UNCHANGED inserts

(* A save that stops, by an error, leaves the files it has written: some   *)
(* of the pages, all of them without metadata, or everything but the fine  *)
(* layer.                                                                  *)
SaveStops ==
    /\ up /\ ~SavePanics(coarse, delta)
    /\ \/ \E S \in FirstOf(LoadedPages(coarse)) \cup {LoadedPages(coarse)} :
              Becomes(coarse, fine, SavePages(coarse, disk, S))
       \/ Becomes(Clean(coarse), fine, Save(coarse, disk))
    /\ saved' = StillShown(saved, Visible(coarse', disk'))
    /\ UNCHANGED <<fineFile, inserts>>

SaveDeltaStops ==
    /\ up /\ delta
    /\ \/ \E S \in SUBSET DirtyPages(coarse) :
              Becomes(coarse, fine, SavePages(coarse, disk, S))
       \/ Becomes(Clean(coarse), fine, SaveDelta(coarse, disk))
    /\ saved' = StillShown(saved, Visible(coarse', disk'))
    /\ UNCHANGED <<fineFile, inserts>>

(* Save meets a nil page after it has written those before it.             *)
SaveBothPanics ==
    /\ up /\ SavePanics(coarse, delta)
    /\ Ends
    /\ disk' = SavePages(coarse, disk,
                         {i \in LoadedPages(coarse) : 0 .. i \subseteq DOMAIN coarse.pages})
    /\ UNCHANGED <<fineFile, saved>>

(* Close is a Save (LayeredIndex then saves the coarse layer once more,    *)
(* which changes nothing) followed by the end of the process.              *)
Stop == up /\ Panics

Open ==
    /\ ~up /\ opens < MaxOpens
    /\ up' = TRUE /\ opens' = opens + 1
    /\ coarse' = IF disk.hasMetadata THEN Load(disk) ELSE NewCoarseIndex
    /\ IF disk.hasMetadata /\ fineFile.exists
       THEN \E order \in SetToSeqs(DOMAIN fineFile.fine.hot) : fine' = FineLoad(fineFile.fine, order)
       ELSE fine' = NewFineIndex
    /\ saved' = StillShown(saved, Visible(coarse', disk))
    /\ UNCHANGED <<delta, store, inserts>>

Next ==
    \/ \E id \in Ids :
          \/ \E vector \in Vectors : InsertVector(id, vector)
          \/ InsertVectorPanics(id) \/ PromoteToHot(id)
          \/ EvictFromHot(id) \/ Get(id) \/ GetVectorPanics(id)
    \/ \E k \in Ks : SearchHot(k) \/ Search(k) \/ SearchPanics(k)
    \/ SaveBoth \/ SaveDirty \/ SaveStops \/ SaveDeltaStops \/ SaveBothPanics
    \/ Stop \/ Open

Spec == Init /\ [][Next]_vars

-----------------------------------------------------------------------------
(* Properties.                                                             *)

(* The types of the two layers, of the directory and of the file; the hot  *)
(* vectors never exceed their bound, across promotions, restarts and       *)
(* accesses counted for vectors that are not hot.                          *)
TypeOK ==
    /\ delta \in BOOLEAN /\ up \in BOOLEAN
    /\ CoarseOK(coarse) /\ DirectoryOK(disk)
    /\ FineOK(fine, Ids, Vectors) /\ FineOK(fineFile.fine, Ids, Vectors)
    /\ inserts \in 0 .. MaxInserts /\ opens \in 1 .. MaxOpens
    /\ DOMAIN saved \subseteq Ids

(* Loading a page, promoting, evicting and saving, complete or not, change *)
(* nothing that a search can see: only Insert does.                        *)
ReadsAreTransparent ==
    [][(up /\ up' /\ inserts' = inserts) => Visible(coarse', disk') = Visible(coarse, disk)]_vars

(* What a completed save (or delta save) has written is on its page in the *)
(* directory, under the metadata, at every later moment at which a process *)
(* may end, as long as the index itself still shows it.                    *)
SavedSurvives ==
    \A id \in DOMAIN saved :
        LET i == saved[id].page
        IN  /\ disk.hasMetadata /\ i < disk.totalPages
            /\ i \in DOMAIN disk.file /\ id \in DOMAIN disk.file[i].vectors
            /\ disk.file[i].vectors[id] = saved[id].vector

(* A loaded page that is not marked dirty equals its file, so that a delta *)
(* save that skips it loses nothing.                                       *)
CleanPagesAreOnDisk ==
    (up /\ delta) =>
        \A i \in LoadedPages(coarse) \ coarse.dirty :
            i \in DOMAIN disk.file /\ disk.file[i].vectors = coarse.pages[i].vectors

(* No id is found on two pages, where a search would meet two vectors of   *)
(* it, although an evicted page keeps its ids in pageMap.                  *)
OnePagePerId ==
    up => \A id \in Ids : Cardinality(PagesWith(coarse, disk, id)) <= 1

(* The LRU list names a vector that is not hot in its oldest entry at      *)
(* most: the victim of EvictOne, which that operation leaves behind.       *)
OnlyTheOldestIsGone ==
    \A n \in 1 .. Len(fine.lru) : fine.lru[n] \notin DOMAIN fine.hot => n = Len(fine.lru)
=============================================================================
