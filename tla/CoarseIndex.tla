---------------------------- MODULE CoarseIndex ----------------------------
(***************************************************************************)
(* The coarse layer of indexes/hnsw: pages of vectors that are loaded from *)
(* files when they are needed.  CoarseIndex (coarse_index.go) writes JSON, *)
(* CoarseIndexV2 (coarse_index_protobuf.go) writes protobuf and can save   *)
(* only the pages marked dirty; `delta' says which of the two is meant.    *)
(*                                                                         *)
(* The operators work on a record c, the index in memory, and a record d,  *)
(* the storage directory.  Both layers are used under one lock, so each    *)
(* method is one step and LayeredIndex composes these operators.           *)
(*                                                                         *)
(* A page that a slice holds as nil is an index below c.slots that is not  *)
(* in the domain of c.pages; touching it panics.  Product quantisation is  *)
(* left out: the quantizer is never set.  Writing one file is atomic.      *)
(***************************************************************************)
EXTENDS Naturals, FiniteSets

CONSTANTS
    Ids,        \* the ids of vectors, integers that the caller chooses
    Vectors,    \* the vectors
    PageSize,   \* CoarseConfig.PageSize
    MaxPages    \* CoarseConfig.MaxPages

ASSUME CoarseAssumption ==
    /\ Ids \subseteq Nat /\ IsFiniteSet(Ids)
    /\ PageSize \in Nat \ {0} /\ MaxPages \in Nat \ {0}

Nothing == [x \in {} |-> x]   \* the empty map
Put(f, x, v) == [y \in DOMAIN f \cup {x} |-> IF y = x THEN v ELSE f[y]]
Only(f, S) == [x \in S \cap DOMAIN f |-> f[x]]

PageOf(id) == id \div PageSize
PageIndexes == {PageOf(id) : id \in Ids} \cup 0 .. MaxPages

NewPage == [vectors |-> Nothing, loaded |-> TRUE]
UnloadedPage == [vectors |-> Nothing, loaded |-> FALSE]

NewCoarseIndex ==
    [pages |-> Nothing, slots |-> 0, pageMap |-> Nothing, totalPages |-> 0, dirty |-> {}]
EmptyDirectory ==
    [file |-> Nothing, hasMetadata |-> FALSE, totalPages |-> 0, pageMap |-> Nothing]

HasNil(c) == \E i \in 0 .. c.slots - 1 : i \notin DOMAIN c.pages

-----------------------------------------------------------------------------
(* Reading.                                                                *)

(* Mutant: the file is read again although the page is loaded.             *)
loadPageAgain(c, d, i, delta) ==
    IF i \in DOMAIN d.file THEN [d.file[i] EXCEPT !.loaded = TRUE] ELSE c.pages[i]

(* Page i after loadPage.  The JSON page brings its own Loaded field, the  *)
(* protobuf one is always marked loaded; without a file nothing changes.   *)
loadPage(c, d, i, delta) ==
    LET page == c.pages[i]
    IN  IF page.loaded \/ i \notin DOMAIN d.file THEN page
        ELSE IF delta THEN [d.file[i] EXCEPT !.loaded = TRUE] ELSE d.file[i]

Loadable(c, d, i) == c.pages[i].loaded \/ i \in DOMAIN d.file

LoadOne(c, d, i, delta) == [c EXCEPT !.pages[i] = loadPage(c, d, i, delta)]
LoadAll(c, d, delta) ==
    [c EXCEPT !.pages = [i \in DOMAIN c.pages |-> loadPage(c, d, i, delta)]]

(* What a search meets on page i, and in the whole index.                  *)
OnPage(c, d, i) ==
    IF c.pages[i].loaded THEN c.pages[i].vectors
    ELSE IF i \in DOMAIN d.file THEN d.file[i].vectors ELSE Nothing

PagesWith(c, d, id) == {i \in DOMAIN c.pages : id \in DOMAIN OnPage(c, d, i)}
Visible(c, d) ==
    [id \in {x \in Ids : PagesWith(c, d, x) # {}} |->
        OnPage(c, d, CHOOSE i \in PagesWith(c, d, id) : TRUE)[id]]

(* GetVector reads the page that pageMap names.                            *)
GetPanics(c, id) == id \in DOMAIN c.pageMap /\ c.pageMap[id] \notin DOMAIN c.pages
GetLoads(c, d, id, delta) ==
    IF id \in DOMAIN c.pageMap THEN LoadOne(c, d, c.pageMap[id], delta) ELSE c
CanGet(c, d, id) ==
    /\ id \in DOMAIN c.pageMap
    /\ Loadable(c, d, c.pageMap[id])
    /\ id \in DOMAIN OnPage(c, d, c.pageMap[id])
GetVector(c, d, id) == OnPage(c, d, c.pageMap[id])[id]

-----------------------------------------------------------------------------
(* Insert, with findOrCreatePage and evictPage.                            *)

(* Every LastAccess is 0 (getCurrentTimestamp returns 0), so the first     *)
(* page is the least recently used one.                                    *)
evictPage == 0

Evicts(c, id) == PageOf(id) \notin DOMAIN c.pages /\ PageOf(id) >= MaxPages
InsertPanics(c, id) == Evicts(c, id) /\ (c.slots = 0 \/ HasNil(c))

(* Mutant: a page is added beyond the limit instead of evicting one.       *)
findOrCreatePageGrows(c, id) == IF Evicts(c, id) THEN c.slots ELSE PageOf(id)

findOrCreatePage(c, id) == IF Evicts(c, id) THEN evictPage ELSE PageOf(id)

(* Mutant: only a new page is marked dirty.                                *)
InsertMarksNew(c, id, vector, delta) ==
    LET i    == findOrCreatePage(c, id)
        new  == PageOf(id) \notin DOMAIN c.pages
        page == IF new THEN NewPage ELSE c.pages[i]
    IN  [c EXCEPT !.pages = Put(@, i, [page EXCEPT !.vectors = Put(@, id, vector)]),
                  !.slots = IF i < @ THEN @ ELSE i + 1,
                  !.pageMap = Put(@, id, i),
                  !.totalPages = @ + (IF new THEN 1 ELSE 0),
                  !.dirty = IF delta /\ new THEN @ \cup {i} ELSE @]

(* A known page is used whether it is loaded or not.                       *)
Insert(c, id, vector, delta) ==
    LET i    == findOrCreatePage(c, id)
        new  == PageOf(id) \notin DOMAIN c.pages
        page == IF new THEN NewPage ELSE c.pages[i]
    IN  [pages      |-> Put(c.pages, i, [page EXCEPT !.vectors = Put(@, id, vector)]),
         slots      |-> IF i < c.slots THEN c.slots ELSE i + 1,
         pageMap    |-> Put(c.pageMap, id, i),
         totalPages |-> c.totalPages + (IF new THEN 1 ELSE 0),
         dirty      |-> IF delta THEN c.dirty \cup {i} ELSE c.dirty]

(* The victim is written as it is in memory, loaded or not; when that      *)
(* fails its place is given to the new page all the same.                  *)
Evicted(c, d) == [d EXCEPT !.file = Put(@, evictPage, c.pages[evictPage])]

-----------------------------------------------------------------------------
(* Save, SaveDelta and Load.                                               *)

LoadedPages(c) == {i \in DOMAIN c.pages : c.pages[i].loaded}

(* Mutant: the pages that are not written lose their files.                *)
SavePagesAnew(c, d, S) == [d EXCEPT !.file = [i \in S |-> c.pages[i]]]

SavePages(c, d, S) ==
    [d EXCEPT !.file = [i \in S \cup DOMAIN @ |-> IF i \in S THEN c.pages[i] ELSE @[i]]]

(* A save that stopped has written the first of the pages, in their order. *)
FirstOf(S) == {{i \in S : i < n} : n \in S}

SavePanics(c, delta) == ~delta /\ HasNil(c)
Save(c, d) ==
    [SavePages(c, d, LoadedPages(c)) EXCEPT
        !.hasMetadata = TRUE, !.totalPages = c.totalPages, !.pageMap = c.pageMap]

(* The dirty pages are kept in a map and saved in any order.               *)
DirtyPages(c) == c.dirty \cap LoadedPages(c)
SaveDelta(c, d) == SavePages(c, d, DirtyPages(c))

Clean(c) == [c EXCEPT !.dirty = {}]

(* Load takes the number of pages from the metadata and loads none.        *)
Load(d) ==
    [pages      |-> [i \in 0 .. d.totalPages - 1 |-> UnloadedPage],
     slots      |-> d.totalPages,
     pageMap    |-> d.pageMap,
     totalPages |-> d.totalPages,
     dirty      |-> {}]

-----------------------------------------------------------------------------
(* The types of the two records.                                           *)

IsMap(f, S, T) == DOMAIN f \subseteq S /\ \A x \in DOMAIN f : f[x] \in T
ArePages(pages) ==
    \A i \in DOMAIN pages :
        IsMap(pages[i].vectors, Ids, Vectors) /\ pages[i].loaded \in BOOLEAN
CoarseOK(c) ==
    /\ ArePages(c.pages) /\ DOMAIN c.pages \subseteq 0 .. c.slots - 1
    /\ c.slots \in Nat /\ c.totalPages \in Nat
    /\ IsMap(c.pageMap, Ids, PageIndexes) /\ c.dirty \subseteq PageIndexes
DirectoryOK(d) ==
    /\ ArePages(d.file) /\ DOMAIN d.file \subseteq PageIndexes
    /\ d.hasMetadata \in BOOLEAN /\ d.totalPages \in Nat
    /\ IsMap(d.pageMap, Ids, PageIndexes)
=============================================================================
