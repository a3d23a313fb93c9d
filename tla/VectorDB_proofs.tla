--------------------------- MODULE VectorDB_proofs ---------------------------
(***************************************************************************)
(* Theorems about the database: about VectorDB, for any number of          *)
(* documents, of searches and of nodes, both sorts of index and both sorts *)
(* of engine; and, at the end, about AutoSave, for any number of calls of  *)
(* EnableAutoSave.                                                         *)
(***************************************************************************)
EXTENDS VectorDB, AutoSave, FiniteSetTheorems, WellFoundedInduction, TLAPS

(* The locks: a write excludes every search, and a rebuild every other.    *)
Rebuilding == {"swap", "clear", "rebuild", "map"}
Locked ==
    \A s \in Searchers :
        /\ pc[s] # "idle" => todo = <<>>
        /\ pc[s] \in Rebuilding => mutex = s

(* A rebuild leaves a vectorizer behind.                                   *)
RebuiltIsTrained == RebuiltOnce /\ (rebuilds # 0 => trained)

(* The rebuild visits the stored documents, each once, and has not mapped  *)
(* the ids before it yet.                                                  *)
PendingIsNew ==
    /\ \A i, j \in DOMAIN pending : pending[i] = pending[j] => i = j
    /\ \A s \in Searchers :
           /\ pc[s] = "map" => pending # <<>>
           /\ pc[s] \in Rebuilding => \A i \in DOMAIN pending : pending[i] \in Present
           /\ pc[s] \in {"swap", "clear"} =>
                 \A id \in Present : \E i \in DOMAIN pending : pending[i] = id
           /\ pc[s] \in {"rebuild", "map"} =>
                 \A i \in DOMAIN pending : slot[pending[i]] = 0

(* A vector fits a document if it is the document's, or if the document is *)
(* one that may still be without a vector.                                 *)
Fits(v, d) == v = d \/ (v = Empty /\ d \notin VecDocs)
StoredFits ==
    \A f \in saved \cup {stored} : \A id \in Ids : f[id] # NoDoc => Fits(f[id].vec, f[id].doc)

(* Of what a writer has still to index, the last vector of an id fits.     *)
Awaits(id) == \E i \in DOMAIN todo : todo[i].id = id
TodoFits ==
    \A i \in DOMAIN todo :
        /\ todo[i].id \in Present
        /\ (\A k \in DOMAIN todo : todo[k].id = todo[i].id => k <= i) =>
               Fits(todo[i].vec, stored[todo[i].id].doc)

(* The entries of an HNSW index are those of the maps, but for the one     *)
(* that a rebuild is about to map.                                         *)
IndexAligned ==
    /\ \A e, f \in index : e.node = f.node => e = f
    /\ \A s \in Searchers :
           /\ pc[s] = "clear" => index = {}
           /\ pc[s] = "map" => \E e \in index : e.owner = Head(pending)
    /\ \A e \in index :
           \/ e.node \in DOMAIN idMap /\ idMap[e.node] = e.owner
           \/ \E s \in Searchers : /\ pc[s] = "map"
                                   /\ e.node = Len(idMap) + 1
                                   /\ e.owner = Head(pending)

(* Once the maps are cleared, ids are no longer stale.                     *)
Fresh(id) == id \notin stale \/ \E s \in Searchers : pc[s] \in {"clear", "rebuild", "map"}
IndexSound ==
    \A e \in index : Fresh(e.owner) /\ ~Awaits(e.owner) =>
        e.owner \in Present /\ Fits(e.vec, stored[e.owner].doc)

Unvisited(id) ==
    /\ \E s \in Searchers : pc[s] \in {"clear", "rebuild", "map"}
    /\ \E i \in DOMAIN pending : pending[i] = id
IndexFull ==
    \A id \in Present : Fresh(id) /\ ~Awaits(id) /\ ~Unvisited(id) =>
        stored[id].doc \in BareDocs \/ \E e \in index : e.owner = id

(* What a search that met no rebuild has found and named.                  *)
Known(id) == id \in Present \/ id \in stale
LoneSearches ==
    \A s \in Searchers :
        /\ pc[s] # "name" => results[s] = {}
        /\ s \notin overlapped /\ pc[s] = "name" =>
              /\ mutex = NoOne
              /\ \A e \in hits[s] :
                     e.node \in DOMAIN idMap /\ idMap[e.node] = e.owner /\ Known(e.owner)
              /\ \A r \in results[s] : r.id = r.owner /\ Known(r.id)

IndexInv == kind = "hnsw" => IndexAligned /\ IndexSound /\ IndexFull /\ LoneSearches

Inv ==
    /\ TypeOK
    /\ Locked
    /\ RebuiltIsTrained
    /\ PendingIsNew
    /\ MapsAgree
    /\ StoredFits
    /\ TodoFits
    /\ IndexInv

-----------------------------------------------------------------------------
(* A set of numbers has a last one; of the documents of a batch with one   *)
(* id, too.                                                                *)
LEMMA LastOne ==
    ASSUME NEW n \in Nat, NEW T \in SUBSET (1 .. n), T # {}
    PROVE  \E m \in T : \A k \in T : k <= m
<1> DEFINE Above(k) == k + 1 .. n
           Family == {Above(k) : k \in T}
<1>1. Family \subseteq FiniteSubsetsOf(Nat) /\ Family # {}
    <2>1. \A k \in T : IsFiniteSet(Above(k)) /\ Above(k) \in SUBSET Nat
        BY FS_Interval
    <2> QED
        BY <2>1 DEF FiniteSubsetsOf
<1>2. IsWellFoundedOn(StrictSubsetOrdering(Nat), FiniteSubsetsOf(Nat))
    BY FS_StrictSubsetOrderingWellFounded
<1>3. PICK x \in Family : \A y \in Family : <<y, x>> \notin StrictSubsetOrdering(Nat)
    <2> HIDE DEF Family
    <2> QED
        BY <1>1, <1>2, WFMin
<1>4. PICK m \in T : x = Above(m)
    BY <1>3
<1>5. ASSUME NEW k \in T, ~ (k <= m) PROVE FALSE
    <2>1. Above(k) \in Family /\ Above(k) \subseteq Above(m) /\ Above(k) # Above(m)
        <3>1. k \in Above(m) /\ k \notin Above(k)
            BY <1>5
        <3>2. Above(k) \subseteq Above(m)
            BY <1>5
        <3> QED
            BY <3>1, <3>2
    <2>2. Above(k) \in SUBSET Nat /\ Above(m) \in SUBSET Nat
        OBVIOUS
    <2>3. <<Above(k), Above(m)>> \in StrictSubsetOrdering(Nat)
        BY <2>1, <2>2 DEF StrictSubsetOrdering
    <2> QED
        BY <1>3, <1>4, <2>1, <2>3
<1> QED
    BY <1>5

LEMMA BatchType ==
    ASSUME NEW b \in Batch
    PROVE  \E n \in Nat : DOMAIN b = 1 .. n /\ b \in [1 .. n -> [id : Ids, doc : Docs]]
BY BoundsAssumption DEF Batch

(* What Put stores under the ids it reaches: the last document of each.    *)
LEMMA PutLast ==
    ASSUME NEW b \in Batch, NEW ids \in SUBSET IdsOf(b)
    PROVE  /\ \A id \in Ids \ ids : Put(b, ids)[id] = stored[id]
           /\ \A id \in ids : \E i \in DOMAIN b :
                 /\ b[i].id = id /\ \A k \in DOMAIN b : b[k].id = id => k <= i
                 /\ Put(b, ids)[id] = [doc |-> b[i].doc, vec |-> Embedded(b[i].doc)]
<1>1. PICK n \in Nat : DOMAIN b = 1 .. n /\ b \in [1 .. n -> [id : Ids, doc : Docs]]
    BY BatchType
<1>2. ids \subseteq Ids
    BY <1>1 DEF IdsOf
<1>3. ASSUME NEW id \in ids
      PROVE  \E i \in DOMAIN b : b[i].id = id /\ \A k \in DOMAIN b : b[k].id = id => k <= i
    <2> DEFINE T == {i \in 1 .. n : b[i].id = id}
    <2>1. T \in SUBSET (1 .. n) /\ T # {}
        BY <1>1 DEF IdsOf
    <2>2. \E m \in T : \A k \in T : k <= m
        <3> HIDE DEF T
        <3> QED
            BY <2>1, LastOne
    <2> QED
        BY <1>1, <2>2
<1>4. ASSUME NEW id \in ids
      PROVE  \E i \in DOMAIN b :
                 /\ b[i].id = id /\ \A k \in DOMAIN b : b[k].id = id => k <= i
                 /\ Put(b, ids)[id] = [doc |-> b[i].doc, vec |-> Embedded(b[i].doc)]
    <2> DEFINE i == CHOOSE j \in DOMAIN b :
                        b[j].id = id /\ \A k \in DOMAIN b : b[k].id = id => k <= j
    <2>1. i \in DOMAIN b /\ b[i].id = id /\ \A k \in DOMAIN b : b[k].id = id => k <= i
        BY <1>3
    <2>2. Put(b, ids)[id] = [doc |-> b[i].doc, vec |-> Embedded(b[i].doc)]
        BY <1>2 DEF Put
    <2> QED
        BY <2>1, <2>2
<1>5. \A id \in Ids \ ids : Put(b, ids)[id] = stored[id]
    BY DEF Put
<1> QED
    BY <1>4, <1>5

LEMMA EmbeddedFits ==
    ASSUME NEW d \in Docs
    PROVE  /\ OwnVector(d) \in Docs \cup {Empty} /\ Fits(OwnVector(d), d)
           /\ Embedded(d) \in Docs \cup {Empty} /\ Fits(Embedded(d), d)
BY DEF OwnVector, Embedded, Fits

LEMMA PutType ==
    ASSUME NEW b \in Batch, NEW ids \in SUBSET IdsOf(b), stored \in [Ids -> Stored \cup {NoDoc}]
    PROVE  /\ Put(b, ids) \in [Ids -> Stored \cup {NoDoc}]
           /\ \A id \in ids : /\ Put(b, ids)[id] \in Stored
                              /\ Fits(Put(b, ids)[id].vec, Put(b, ids)[id].doc)
<1>1. PICK n \in Nat : DOMAIN b = 1 .. n /\ b \in [1 .. n -> [id : Ids, doc : Docs]]
    BY BatchType
<1>2. ASSUME NEW id \in ids
      PROVE  Put(b, ids)[id] \in Stored /\ Fits(Put(b, ids)[id].vec, Put(b, ids)[id].doc)
    <2>1. PICK i \in DOMAIN b : Put(b, ids)[id] = [doc |-> b[i].doc, vec |-> Embedded(b[i].doc)]
        BY PutLast
    <2>2. b[i].doc \in Docs
        BY <1>1
    <2> QED
        BY <2>1, <2>2, EmbeddedFits DEF Stored
<1>3. DOMAIN Put(b, ids) = Ids /\ Put(b, ids) = [id \in Ids |-> Put(b, ids)[id]]
    BY DEF Put
<1>4. \A id \in Ids : Put(b, ids)[id] \in Stored \cup {NoDoc}
    BY <1>2, PutLast
<1> QED
    BY <1>2, <1>3, <1>4

(* A storage yields its documents in some order, each once.                *)
LEMMA OrdersType ==
    ASSUME NEW S \in SUBSET Ids, NEW q \in Orders(S)
    PROVE  /\ q \in Seq(Ids)
           /\ \A i \in DOMAIN q : q[i] \in S
           /\ \A i, j \in DOMAIN q : q[i] = q[j] => i = j
           /\ \A id \in S : \E i \in DOMAIN q : q[i] = id
<1>1. Cardinality(S) \in Nat
    BY NamesAssumption, FS_Subset, FS_CardinalityType
<1>2. q \in [1 .. Cardinality(S) -> S]
    BY DEF Orders, Bijection, Injection
<1>3. \A i, j \in DOMAIN q : q[i] = q[j] => i = j
    BY DEF Orders, Bijection, Injection, IsInjective
<1>4. \A id \in S : \E i \in DOMAIN q : q[i] = id
    BY <1>2 DEF Orders, Bijection, Surjection
<1>5. q \in Seq(Ids)
    BY <1>1, <1>2
<1> QED
    BY <1>2, <1>3, <1>4, <1>5

LEMMA IndexedType ==
    ASSUME NEW n \in Nat \ {0}, NEW id \in Ids, NEW v \in Docs \cup {Empty},
           index \in SUBSET Entry, IsFiniteSet(index)
    PROVE  Indexed(n, id, v) \in SUBSET Entry /\ IsFiniteSet(Indexed(n, id, v))
<1>1. Copies(n) \in SUBSET index /\ IsFiniteSet(Copies(n)) /\ Cardinality(Copies(n)) \in Nat
    BY FS_Subset, FS_CardinalityType DEF Copies
<1>2. IsFiniteSet(index \ Copies(n))
    BY FS_Subset
<1> DEFINE entry(c) == [node |-> n, copy |-> c, owner |-> id, vec |-> v]
<1>3. \A c \in Nat \ {0} : /\ entry(c) \in Entry
                          /\ IsFiniteSet(index \cup {entry(c)})
                          /\ IsFiniteSet((index \ Copies(n)) \cup {entry(c)})
    BY <1>2, FS_AddElement DEF Entry
<1>4. Indexed(n, id, v) = IF kind = "hnsw" THEN (index \ Copies(n)) \cup {entry(1)}
                          ELSE index \cup {entry(Cardinality(Copies(n)) + 1)}
    BY DEF Indexed
<1> HIDE DEF entry
<1>5. CASE kind = "hnsw"
    <2>1. 1 \in Nat \ {0}
        OBVIOUS
    <2>2. Indexed(n, id, v) = (index \ Copies(n)) \cup {entry(1)}
        BY <1>4, <1>5
    <2>3. entry(1) \in Entry /\ IsFiniteSet((index \ Copies(n)) \cup {entry(1)})
        BY <1>3, <2>1
    <2> QED
        BY <2>2, <2>3
<1>6. CASE kind # "hnsw"
    <2>1. Cardinality(Copies(n)) + 1 \in Nat \ {0}
        BY <1>1
    <2> QED
        BY <1>3, <1>4, <1>6, <2>1
<1> QED
    BY <1>5, <1>6

(* An HNSW index has one entry for a node it has just inserted.            *)
LEMMA IndexedHNSW ==
    ASSUME kind = "hnsw", NEW n \in Nat \ {0}, NEW id \in Ids, NEW v \in Docs \cup {Empty}
    PROVE  Indexed(n, id, v) = {e \in index : e.node # n}
                               \cup {[node |-> n, copy |-> 1, owner |-> id, vec |-> v]}
BY DEF Indexed, Copies

LEMMA TailFacts ==
    ASSUME NEW T, NEW q \in Seq(T), q # <<>>
    PROVE  /\ Len(q) \in Nat \ {0} /\ DOMAIN q = 1 .. Len(q)
           /\ Head(q) \in T /\ Head(q) = q[1] /\ 1 \in DOMAIN q
           /\ Tail(q) \in Seq(T) /\ DOMAIN Tail(q) = 1 .. Len(q) - 1
           /\ \A i \in DOMAIN Tail(q) : i + 1 \in DOMAIN q /\ Tail(q)[i] = q[i + 1]
OBVIOUS

LEMMA AppendFacts ==
    ASSUME NEW T, NEW q \in Seq(T), NEW x \in T
    PROVE  /\ Len(q) \in Nat /\ DOMAIN q = 1 .. Len(q) /\ Len(q) + 1 \notin DOMAIN q
           /\ Append(q, x) \in Seq(T) /\ Len(Append(q, x)) = Len(q) + 1
           /\ DOMAIN Append(q, x) = DOMAIN q \cup {Len(q) + 1}
           /\ Append(q, x)[Len(q) + 1] = x
           /\ \A i \in DOMAIN q : Append(q, x)[i] = q[i]
OBVIOUS

(* What is stored is a document, and so is what is present.                *)
LEMMA PresentType ==
    ASSUME TypeOK, NEW id \in Present
    PROVE  id \in Ids /\ stored[id] \in Stored /\ stored[id].doc \in Docs
BY DEF TypeOK, Present, Stored

(* A search that rebuilds is the only one, and meets no lone search.       *)
LEMMA Alone ==
    ASSUME Locked, NEW s \in Searchers, pc[s] \in Rebuilding
    PROVE  /\ mutex = s /\ mutex # NoOne /\ todo = <<>>
           /\ \A t \in Searchers : pc[t] \in Rebuilding => t = s
BY NamesAssumption DEF Locked, Rebuilding

LEMMA InsertKeeps == ASSUME NEW b \in Batch, Inv, Insert(b) PROVE Inv'
<1> USE DEF Inv, Insert, WriteLocked, config, maps, searches, training
<1> DEFINE ids == IdsOf(b)
<1>1. PICK n \in Nat : DOMAIN b = 1 .. n /\ b \in [1 .. n -> [id : Ids, doc : Docs]]
    BY BatchType
<1>2. todo = <<>> /\ \A s \in Searchers : pc[s] = "idle"
    OBVIOUS
<1>3. /\ stored' = Put(b, ids) /\ stored' \in [Ids -> Stored \cup {NoDoc}]
      /\ \A id \in ids : stored'[id] \in Stored /\ Fits(stored'[id].vec, stored'[id].doc)
      /\ \A id \in Ids \ ids : stored'[id] = stored[id]
    <2>1. /\ stored' = Put(b, ids) /\ ids \in SUBSET IdsOf(b)
          /\ stored \in [Ids -> Stored \cup {NoDoc}]
        BY DEF TypeOK
    <2> HIDE DEF ids, Inv, Insert
    <2>2. /\ Put(b, ids) \in [Ids -> Stored \cup {NoDoc}]
          /\ \A id \in ids : /\ Put(b, ids)[id] \in Stored
                             /\ Fits(Put(b, ids)[id].vec, Put(b, ids)[id].doc)
        BY <2>1, PutType
    <2>3. \A id \in Ids \ ids : Put(b, ids)[id] = stored[id]
        BY <2>1, PutLast
    <2> QED
        BY <2>1, <2>2, <2>3
<1>4. /\ DOMAIN todo' = 1 .. n
      /\ \A i \in 1 .. n : todo'[i] = [id |-> b[i].id, vec |-> OwnVector(b[i].doc)]
    BY <1>1
<1>5. \A i \in 1 .. n : b[i].id \in Ids /\ b[i].doc \in Docs
    BY <1>1
<1>6. todo' \in Seq([id : Ids, vec : Docs \cup {Empty}])
    <2>1. \A i \in 1 .. n : [id |-> b[i].id, vec |-> OwnVector(b[i].doc)]
                            \in [id : Ids, vec : Docs \cup {Empty}]
        BY <1>5, EmbeddedFits
    <2> QED
        BY <1>1, <2>1
<1>7. TypeOK'
    BY <1>3, <1>6 DEF TypeOK
<1>8. \A id : Awaits(id)' <=> id \in ids
    BY <1>1, <1>4 DEF Awaits, IdsOf
<1>9. /\ \A id : ~Awaits(id)
      /\ \A id \in Ids \ ids : /\ id \in Present' <=> id \in Present
                               /\ id \in stale' <=> id \in stale
    BY <1>2, <1>3 DEF Awaits, Present
<1>10. Locked' /\ RebuiltIsTrained' /\ PendingIsNew' /\ MapsAgree'
    BY <1>2 DEF Locked, RebuiltIsTrained, RebuiltOnce, PendingIsNew, MapsAgree, Rebuilding, TypeOK
<1>11. StoredFits'
    BY <1>3 DEF StoredFits
<1>12. TodoFits'
    <2> SUFFICES ASSUME NEW i \in 1 .. n
                 PROVE  /\ todo'[i].id \in Present'
                        /\ (\A k \in 1 .. n : todo'[k].id = todo'[i].id => k <= i) =>
                               Fits(todo'[i].vec, stored'[todo'[i].id].doc)
        BY <1>4 DEF TodoFits
    <2>1. todo'[i].id = b[i].id /\ todo'[i].vec = OwnVector(b[i].doc)
          /\ \A k \in 1 .. n : todo'[k].id = b[k].id
        BY <1>4
    <2>2. b[i].id \in ids
        BY <1>1 DEF IdsOf
    <2>3. PICK j \in DOMAIN b :
              /\ b[j].id = b[i].id /\ \A k \in DOMAIN b : b[k].id = b[i].id => k <= j
              /\ Put(b, ids)[b[i].id] = [doc |-> b[j].doc, vec |-> Embedded(b[j].doc)]
        <3>1. ids \in SUBSET IdsOf(b)
            OBVIOUS
        <3> HIDE DEF ids, Inv, Insert
        <3>2. \A id \in ids : \E j \in DOMAIN b :
                 /\ b[j].id = id /\ \A k \in DOMAIN b : b[k].id = id => k <= j
                 /\ Put(b, ids)[id] = [doc |-> b[j].doc, vec |-> Embedded(b[j].doc)]
            BY <3>1, PutLast
        <3> QED
            BY <2>2, <3>2
    <2>4. todo'[i].id \in Present'
        BY <1>3, <1>5, <2>1, <2>2, NoDocAssumption DEF Present
    <2>5. ASSUME \A k \in 1 .. n : todo'[k].id = todo'[i].id => k <= i
          PROVE  Fits(todo'[i].vec, stored'[todo'[i].id].doc)
        <3>1. i = j
            BY <1>1, <2>1, <2>3, <2>5
        <3> QED
            BY <1>3, <1>5, <2>1, <2>3, <3>1, EmbeddedFits
    <2> QED
        BY <2>4, <2>5
<1>13. ASSUME kind = "hnsw" PROVE IndexAligned' /\ IndexSound' /\ IndexFull' /\ LoneSearches'
    <2>1. \A e \in index : e.owner \in Ids
        BY DEF TypeOK, Entry
    <2>2. IndexAligned' /\ LoneSearches'
        BY <1>2, <1>13 DEF IndexInv, IndexAligned, LoneSearches
    <2>3. IndexSound'
        BY <1>2, <1>3, <1>8, <1>9, <1>13, <2>1 DEF IndexInv, IndexSound, Fresh
    <2>4. IndexFull'
        <3> SUFFICES ASSUME NEW id \in Present', Fresh(id)', ~Awaits(id)'
                     PROVE  stored'[id].doc \in BareDocs \/ \E e \in index : e.owner = id
            BY DEF IndexFull
        <3>1. id \in Ids \ ids
            BY <1>8 DEF Present
        <3>2. id \in Present /\ Fresh(id) /\ ~Awaits(id) /\ ~Unvisited(id)
            BY <1>2, <1>9, <3>1 DEF Fresh, Unvisited
        <3> QED
            BY <1>3, <1>13, <3>1, <3>2 DEF IndexInv, IndexFull
    <2> QED
        BY <2>2, <2>3, <2>4
<1> QED
    BY <1>7, <1>10, <1>11, <1>12, <1>13 DEF IndexInv

LEMMA InsertFailsKeeps == ASSUME NEW b \in Batch, Inv, InsertFails(b) PROVE Inv'
<1> USE DEF Inv, InsertFails, WriteLocked, config, maps, searches, training
<1>1. PICK ids \in SUBSET IdsOf(b) : stored' = Put(b, ids) /\ stale' = stale \cup ids
    OBVIOUS
<1>2. todo = <<>> /\ \A s \in Searchers : pc[s] = "idle"
    OBVIOUS
<1>3. /\ stored' \in [Ids -> Stored \cup {NoDoc}]
      /\ \A id \in ids : stored'[id] \in Stored /\ Fits(stored'[id].vec, stored'[id].doc)
      /\ \A id \in Ids \ ids : stored'[id] = stored[id]
    <2>1. stored \in [Ids -> Stored \cup {NoDoc}]
        BY DEF TypeOK
    <2> HIDE DEF Inv, InsertFails
    <2>2. /\ Put(b, ids) \in [Ids -> Stored \cup {NoDoc}]
          /\ \A id \in ids : /\ Put(b, ids)[id] \in Stored
                             /\ Fits(Put(b, ids)[id].vec, Put(b, ids)[id].doc)
        BY <2>1, PutType
    <2>3. \A id \in Ids \ ids : Put(b, ids)[id] = stored[id]
        BY <2>1, PutLast
    <2> QED
        BY <1>1, <2>2, <2>3
<1>4. ids \subseteq Ids
    <2>1. PICK n \in Nat : DOMAIN b = 1 .. n /\ b \in [1 .. n -> [id : Ids, doc : Docs]]
        BY BatchType
    <2> QED
        BY <2>1 DEF IdsOf
<1>5. TypeOK'
    BY <1>1, <1>3, <1>4 DEF TypeOK
<1>6. Locked' /\ RebuiltIsTrained' /\ PendingIsNew' /\ MapsAgree' /\ TodoFits'
    BY <1>2 DEF Locked, RebuiltIsTrained, RebuiltOnce, PendingIsNew, MapsAgree, Rebuilding,
                TodoFits, TypeOK
<1>7. StoredFits'
    BY <1>1, <1>3 DEF StoredFits
<1>8. ASSUME kind = "hnsw" PROVE IndexAligned' /\ IndexSound' /\ IndexFull' /\ LoneSearches'
    <2>1. \A e \in index : e.owner \in Ids
        BY DEF TypeOK, Entry
    <2>2. IndexAligned' /\ LoneSearches'
        BY <1>2, <1>8 DEF IndexInv, IndexAligned, LoneSearches
    <2>3. IndexSound'
        BY <1>1, <1>2, <1>3, <1>8, <2>1 DEF IndexInv, IndexSound, Fresh, Awaits, Present
    <2>4. IndexFull'
        <3> SUFFICES ASSUME NEW id \in Present', Fresh(id)'
                     PROVE  stored'[id].doc \in BareDocs \/ \E e \in index : e.owner = id
            BY DEF IndexFull
        <3>1. id \in Ids \ ids
            BY <1>1, <1>2 DEF Present, Fresh
        <3>2. id \in Present /\ Fresh(id) /\ ~Awaits(id) /\ ~Unvisited(id)
            BY <1>1, <1>2, <1>3, <3>1 DEF Fresh, Unvisited, Present, Awaits
        <3> QED
            BY <1>3, <1>8, <3>1, <3>2 DEF IndexInv, IndexFull
    <2> QED
        BY <2>2, <2>3, <2>4
<1> QED
    BY <1>5, <1>6, <1>7, <1>8 DEF IndexInv

LEMMA IndexOneKeeps == ASSUME Inv, IndexOne PROVE Inv'
<1> USE DEF Inv, IndexOne, config, maps, searches, training
<1> DEFINE Item == [id : Ids, vec : Docs \cup {Empty}]
<1>1. \A s \in Searchers : pc[s] = "idle"
    BY DEF Locked
<1>2. /\ todo \in Seq(Item) /\ todo # <<>> /\ todo' = Tail(todo)
      /\ idMap \in Seq(Ids \cup {NoId}) /\ slot \in [Ids -> Nat]
    BY DEF TypeOK
<1>3. /\ Head(todo) \in Item /\ Head(todo) = todo[1] /\ 1 \in DOMAIN todo
      /\ todo' \in Seq(Item)
      /\ DOMAIN todo = 1 .. Len(todo) /\ DOMAIN todo' = 1 .. Len(todo) - 1
      /\ Len(todo) \in Nat \ {0}
      /\ \A i \in DOMAIN todo' : i + 1 \in DOMAIN todo /\ todo'[i] = todo[i + 1]
    <2> HIDE DEF Item, Inv, IndexOne
    <2> QED
        BY <1>2, TailFacts
<1>4. PICK id \in Ids, v \in Docs \cup {Empty} : todo[1].id = id /\ todo[1].vec = v
    BY <1>3
<1>5. /\ Len(idMap) \in Nat /\ DOMAIN idMap = 1 .. Len(idMap)
      /\ slot[id] \in Nat
    BY <1>2
<1>6. PICK n \in Nat \ {0} : n = IF slot[id] # 0 THEN slot[id] ELSE Len(idMap) + 1
    BY <1>5
<1>7. /\ index' = Indexed(n, id, v)
      /\ idMap' = IF slot[id] # 0 THEN [idMap EXCEPT ![n] = id] ELSE Append(idMap, id)
      /\ slot' = [slot EXCEPT ![id] = n]
    BY <1>3, <1>4, <1>6
<1> DEFINE new == [node |-> n, copy |-> 1, owner |-> id, vec |-> v]
<1>8. /\ idMap' \in Seq(Ids \cup {NoId})
      /\ n \in DOMAIN idMap' /\ idMap'[n] = id
      /\ DOMAIN idMap' = DOMAIN idMap \cup {n}
      /\ \A m \in DOMAIN idMap : idMap'[m] = idMap[m]
      /\ \A m \in DOMAIN idMap : idMap[m] = id <=> m = n
    <2>1. CASE slot[id] # 0
        <3>1. n \in DOMAIN idMap /\ idMap[n] = id
            BY <1>6, <2>1 DEF MapsAgree
        <3>2. idMap' = idMap
            BY <1>2, <1>7, <2>1, <3>1
        <3>3. \A m \in DOMAIN idMap : idMap[m] = id => m = n
            BY <1>6, <2>1, NamesAssumption DEF MapsAgree
        <3> HIDE DEF Inv, IndexOne
        <3> QED
            BY <1>2, <3>1, <3>2, <3>3
    <2>2. CASE slot[id] = 0
        <3>1. \A m \in DOMAIN idMap : idMap[m] # id
            BY <1>5, <2>2, NamesAssumption DEF MapsAgree
        <3>2. n = Len(idMap) + 1 /\ idMap' = Append(idMap, id) /\ id \in Ids \cup {NoId}
            BY <1>6, <1>7, <2>2
        <3> HIDE DEF Inv, IndexOne
        <3>3. /\ n \notin DOMAIN idMap /\ idMap' \in Seq(Ids \cup {NoId})
              /\ DOMAIN idMap' = DOMAIN idMap \cup {n} /\ idMap'[n] = id
              /\ \A m \in DOMAIN idMap : idMap'[m] = idMap[m]
            BY <1>2, <3>2, AppendFacts
        <3> QED
            BY <3>1, <3>3
    <2> QED
        BY <2>1, <2>2
<1>9. slot' \in [Ids -> Nat] /\ slot'[id] = n /\ \A x \in Ids \ {id} : slot'[x] = slot[x]
    BY <1>2, <1>7
<1>10. TypeOK'
    <2>1. index' \in SUBSET Entry /\ IsFiniteSet(index')
        BY <1>7, IndexedType DEF TypeOK
    <2> QED
        BY <1>3, <1>8, <1>9, <2>1 DEF TypeOK
<1>11. Locked' /\ RebuiltIsTrained' /\ PendingIsNew'
    BY <1>1 DEF Locked, RebuiltIsTrained, RebuiltOnce, PendingIsNew, Rebuilding, TypeOK
<1>12. MapsAgree'
    <2>1. MapsAgree
        OBVIOUS
    <2> HIDE DEF Inv, IndexOne
    <2>2. ASSUME NEW x \in Ids, slot'[x] # 0 PROVE slot'[x] \in DOMAIN idMap' /\ idMap'[slot'[x]] = x
        <3>1. CASE x = id
            BY <1>8, <1>9, <3>1
        <3>2. CASE x # id
            <4>1. slot'[x] = slot[x] /\ slot[x] \in DOMAIN idMap /\ idMap[slot[x]] = x
                BY <1>9, <2>1, <2>2, <3>2 DEF MapsAgree
            <4> QED
                BY <1>8, <4>1
        <3> QED
            BY <3>1, <3>2
    <2>3. ASSUME NEW m \in DOMAIN idMap', idMap'[m] # NoId PROVE slot'[idMap'[m]] = m
        <3>1. CASE m = n
            BY <1>8, <1>9, <3>1
        <3>2. CASE m # n
            <4>1. /\ m \in DOMAIN idMap /\ idMap'[m] = idMap[m] /\ idMap[m] # id
                  /\ idMap[m] \in Ids
                BY <1>2, <1>5, <1>8, <2>3, <3>2
            <4> QED
                BY <1>9, <2>1, <2>3, <4>1 DEF MapsAgree
        <3> QED
            BY <3>1, <3>2
    <2> QED
        BY <2>2, <2>3 DEF MapsAgree
<1>13. StoredFits'
    BY DEF StoredFits
<1>14. TodoFits'
    <2> SUFFICES ASSUME NEW i \in DOMAIN todo'
                 PROVE  /\ todo'[i].id \in Present
                        /\ (\A k \in DOMAIN todo' : todo'[k].id = todo'[i].id => k <= i) =>
                               Fits(todo'[i].vec, stored[todo'[i].id].doc)
        BY DEF TodoFits, Present
    <2>1. i + 1 \in DOMAIN todo /\ todo'[i] = todo[i + 1] /\ i \in Nat
        BY <1>3
    <2>2. ASSUME \A k \in DOMAIN todo' : todo'[k].id = todo'[i].id => k <= i
          PROVE  \A k \in DOMAIN todo : todo[k].id = todo[i + 1].id => k <= i + 1
        <3> SUFFICES ASSUME NEW k \in DOMAIN todo, k > i + 1, todo[k].id = todo[i + 1].id
                     PROVE  FALSE
            BY <1>3, <2>1
        <3>1. k - 1 \in DOMAIN todo' /\ todo'[k - 1] = todo[k]
            BY <1>3, <2>1
        <3> QED
            BY <1>3, <2>1, <2>2, <3>1
    <2> QED
        BY <2>1, <2>2 DEF TodoFits
<1>15. ASSUME kind = "hnsw" PROVE IndexAligned' /\ IndexSound' /\ IndexFull' /\ LoneSearches'
    <2>1. index' = {e \in index : e.node # n} \cup {new}
        BY <1>7, <1>15, IndexedHNSW
    <2>2. \A e \in index : /\ e.node \in DOMAIN idMap /\ idMap[e.node] = e.owner
                           /\ e.node = n <=> e.owner = id
        BY <1>1, <1>8, <1>15 DEF IndexInv, IndexAligned
    <2>3. new.node = n /\ new.owner = id /\ new.vec = v
        OBVIOUS
    <2> HIDE DEF new
    <2>4. id \in Present /\ (~Awaits(id)' => Fits(v, stored[id].doc))
        <3>1. ASSUME ~Awaits(id)' PROVE \A k \in DOMAIN todo : todo[k].id = id => k <= 1
            <4> SUFFICES ASSUME NEW k \in DOMAIN todo, k > 1, todo[k].id = id PROVE FALSE
                BY <1>3
            <4>1. k - 1 \in DOMAIN todo' /\ todo'[k - 1] = todo[k]
                BY <1>3
            <4> QED
                BY <3>1, <4>1 DEF Awaits
        <3> QED
            BY <1>3, <1>4, <3>1 DEF TodoFits
    <2>5. \A x : x # id => (Awaits(x)' <=> Awaits(x))
        <3> SUFFICES ASSUME NEW x, x # id PROVE Awaits(x)' <=> Awaits(x)
            OBVIOUS
        <3>1. ASSUME Awaits(x) PROVE Awaits(x)'
            <4>1. PICK i \in DOMAIN todo : todo[i].id = x
                BY <3>1 DEF Awaits
            <4>2. i # 1
                BY <1>4, <4>1
            <4>3. i - 1 \in DOMAIN todo' /\ todo'[i - 1] = todo[i]
                BY <1>3, <4>2
            <4> QED
                BY <4>1, <4>3 DEF Awaits
        <3> QED
            BY <1>3, <3>1 DEF Awaits
    <2>6. IndexAligned'
        BY <1>1, <1>8, <1>15, <2>1, <2>2, <2>3 DEF IndexInv, IndexAligned
    <2>7. IndexSound'
        <3> SUFFICES ASSUME NEW e \in index', Fresh(e.owner)', ~Awaits(e.owner)'
                     PROVE  e.owner \in Present /\ Fits(e.vec, stored[e.owner].doc)
            BY DEF IndexSound, Present
        <3>1. CASE e = new
            BY <2>3, <2>4, <3>1 DEF Awaits
        <3>2. CASE e # new
            BY <1>15, <2>1, <2>2, <2>5, <3>2 DEF IndexInv, IndexSound, Fresh
        <3> QED
            BY <3>1, <3>2
    <2>8. IndexFull'
        <3> SUFFICES ASSUME NEW x \in Present, Fresh(x)', ~Awaits(x)', ~Unvisited(x)'
                     PROVE  stored[x].doc \in BareDocs \/ \E e \in index' : e.owner = x
            BY DEF IndexFull, Present
        <3>1. CASE x = id
            BY <2>1, <2>3, <3>1
        <3>2. CASE x # id
            BY <1>15, <2>1, <2>2, <2>5, <3>2 DEF IndexInv, IndexFull, Fresh, Unvisited
        <3> QED
            BY <3>1, <3>2
    <2>9. LoneSearches'
        BY <1>1, <1>15 DEF IndexInv, LoneSearches
    <2> QED
        BY <2>6, <2>7, <2>8, <2>9
<1> QED
    BY <1>10, <1>11, <1>12, <1>13, <1>14, <1>15 DEF IndexInv

LEMMA DeletesKeeps == ASSUME NEW ids \in SUBSET Ids, Inv, Deletes(ids) PROVE Inv'
<1> USE DEF Inv, Deletes, WriteLocked, config, maps, searches, training
<1> DEFINE nodes == {slot[id] : id \in ids}
<1>1. todo = <<>> /\ \A s \in Searchers : pc[s] = "idle"
    OBVIOUS
<1>2. /\ index' = Unindexed(nodes)
      /\ idMap' = [n \in DOMAIN idMap |-> IF n \in nodes THEN NoId ELSE idMap[n]]
      /\ slot' = [id \in Ids |-> IF id \in ids THEN 0 ELSE slot[id]]
      /\ stored' = [id \in Ids |-> IF id \in ids THEN NoDoc ELSE stored[id]]
      /\ stale' = stale \ ids
    OBVIOUS
<1>3. index' \subseteq index
    BY <1>2 DEF Unindexed
<1>4. TypeOK'
    <2>1. index' \in SUBSET Entry /\ IsFiniteSet(index')
        BY <1>3, FS_Subset DEF TypeOK
    <2>2. idMap' \in Seq(Ids \cup {NoId})
        <3>1. idMap \in Seq(Ids \cup {NoId})
            BY DEF TypeOK
        <3> QED
            BY <1>2, <3>1
    <2>3. slot' \in [Ids -> Nat] /\ stored' \in [Ids -> Stored \cup {NoDoc}] /\ stale' \in SUBSET Ids
        BY <1>2 DEF TypeOK
    <2> QED
        BY <2>1, <2>2, <2>3 DEF TypeOK
<1>5. Locked' /\ RebuiltIsTrained' /\ PendingIsNew' /\ TodoFits'
    BY <1>1 DEF Locked, RebuiltIsTrained, RebuiltOnce, PendingIsNew, Rebuilding, TodoFits, TypeOK
<1>6. MapsAgree'
    BY <1>2 DEF TypeOK, MapsAgree
<1>7. StoredFits'
    BY <1>2 DEF TypeOK, StoredFits
<1>8. ASSUME kind = "hnsw" PROVE IndexAligned' /\ IndexSound' /\ IndexFull' /\ LoneSearches'
    <2>1. \A e \in index : e.node \in DOMAIN idMap /\ idMap[e.node] = e.owner /\ e.owner \in Ids
        BY <1>1, <1>8 DEF IndexInv, IndexAligned, TypeOK, Entry
    <2>2. \A e \in index : e.node \in nodes <=> e.owner \in ids
        <3> SUFFICES ASSUME NEW e \in index PROVE e.node \in nodes <=> e.owner \in ids
            OBVIOUS
        <3>1. slot[e.owner] = e.node /\ e.node # 0
            BY <2>1, NamesAssumption DEF MapsAgree, TypeOK, Entry
        <3>2. ASSUME NEW id \in ids, slot[id] = e.node PROVE id = e.owner
            BY <2>1, <3>1, <3>2 DEF MapsAgree
        <3> QED
            BY <3>1, <3>2
    <2>3. index' = {e \in index : e.owner \notin ids}
        BY <1>2, <1>8, <2>2 DEF Unindexed
    <2>4. IndexAligned'
        BY <1>1, <1>2, <1>8, <2>1, <2>2, <2>3 DEF IndexInv, IndexAligned
    <2>5. IndexSound'
        BY <1>1, <1>2, <1>8, <2>1, <2>3 DEF IndexInv, IndexSound, Fresh, Awaits, Present
    <2>6. IndexFull'
        <3> SUFFICES ASSUME NEW x \in Present', Fresh(x)'
                     PROVE  stored'[x].doc \in BareDocs \/ \E e \in index' : e.owner = x
            BY DEF IndexFull
        <3>1. /\ x \in Ids \ ids /\ stored'[x] = stored[x]
              /\ x \in Present /\ Fresh(x) /\ ~Awaits(x) /\ ~Unvisited(x)
            BY <1>1, <1>2 DEF Fresh, Awaits, Unvisited, Present
        <3> QED
            BY <1>8, <2>3, <3>1 DEF IndexInv, IndexFull
    <2>7. LoneSearches'
        BY <1>1, <1>8 DEF IndexInv, LoneSearches
    <2> QED
        BY <2>4, <2>5, <2>6, <2>7
<1> QED
    BY <1>4, <1>5, <1>6, <1>7, <1>8 DEF IndexInv

LEMMA DeletesFailsKeeps == ASSUME NEW ids \in SUBSET Ids, Inv, DeletesFails(ids) PROVE Inv'
<1> USE DEF Inv, DeletesFails, WriteLocked, config, maps, searches, training, Present
<1>1. TypeOK'
    BY DEF TypeOK
<1>2. Locked'
    BY DEF TypeOK, Locked, Rebuilding
<1>3. RebuiltIsTrained'
    BY DEF TypeOK, RebuiltIsTrained, RebuiltOnce
<1>4. PendingIsNew'
    BY DEF TypeOK, Locked, PendingIsNew, Rebuilding
<1>5. MapsAgree'
    BY DEF TypeOK, MapsAgree
<1>6. StoredFits'
    BY DEF TypeOK, StoredFits
<1>7. TodoFits'
    BY DEF TypeOK, TodoFits, Locked
<1>8. ASSUME kind = "hnsw" PROVE IndexAligned' /\ IndexSound' /\ IndexFull' /\ LoneSearches'
    <2>1. IndexAligned'
        BY <1>8 DEF TypeOK, Locked, Rebuilding, IndexAligned, IndexInv
    <2>2. IndexSound'
        BY <1>8 DEF TypeOK, Locked, IndexInv, IndexSound, Fresh, Awaits
    <2>3. IndexFull'
        BY <1>8 DEF TypeOK, Locked, IndexInv, IndexFull, Fresh, Awaits, Unvisited
    <2>4. LoneSearches'
        BY <1>8 DEF TypeOK, Locked, Rebuilding, IndexInv, LoneSearches, Known
    <2> QED
        BY <2>1, <2>2, <2>3, <2>4
<1>9. kind' = kind
    OBVIOUS
<1> QED
    BY <1>1, <1>2, <1>3, <1>4, <1>5, <1>6, <1>7, <1>8, <1>9 DEF IndexInv

LEMMA SaveKeeps == ASSUME Inv, Save PROVE Inv'
<1> USE DEF Inv, Save, WriteLocked, config, maps, searches, training, Present
<1>1. TypeOK'
    BY DEF TypeOK
<1>2. Locked'
    BY DEF TypeOK, Locked, Rebuilding
<1>3. RebuiltIsTrained'
    BY DEF TypeOK, RebuiltIsTrained, RebuiltOnce
<1>4. PendingIsNew'
    BY DEF TypeOK, Locked, PendingIsNew, Rebuilding
<1>5. MapsAgree'
    BY DEF TypeOK, MapsAgree
<1>6. StoredFits'
    BY DEF TypeOK, StoredFits
<1>7. TodoFits'
    BY DEF TypeOK, TodoFits, Locked
<1>8. ASSUME kind = "hnsw" PROVE IndexAligned' /\ IndexSound' /\ IndexFull' /\ LoneSearches'
    <2>1. IndexAligned'
        BY <1>8 DEF TypeOK, Locked, Rebuilding, IndexAligned, IndexInv
    <2>2. IndexSound'
        BY <1>8 DEF TypeOK, Locked, IndexInv, IndexSound, Fresh, Awaits
    <2>3. IndexFull'
        BY <1>8 DEF TypeOK, Locked, IndexInv, IndexFull, Fresh, Awaits, Unvisited
    <2>4. LoneSearches'
        BY <1>8 DEF TypeOK, Locked, Rebuilding, IndexInv, LoneSearches, Known
    <2> QED
        BY <2>1, <2>2, <2>3, <2>4
<1>9. kind' = kind
    OBVIOUS
<1> QED
    BY <1>1, <1>2, <1>3, <1>4, <1>5, <1>6, <1>7, <1>8, <1>9 DEF IndexInv

LEMMA LoadKeeps == ASSUME Inv, Load PROVE Inv'
<1> USE DEF Inv, Load, WriteLocked, config, maps, searches, training, Present
<1>1. TypeOK'
    BY DEF TypeOK
<1>2. Locked'
    BY DEF TypeOK, Locked, Rebuilding
<1>3. RebuiltIsTrained'
    BY DEF TypeOK, RebuiltIsTrained, RebuiltOnce
<1>4. PendingIsNew'
    BY DEF TypeOK, Locked, PendingIsNew, Rebuilding
<1>5. MapsAgree'
    BY DEF TypeOK, MapsAgree
<1>6. StoredFits'
    BY DEF TypeOK, StoredFits
<1>7. TodoFits'
    BY DEF TypeOK, TodoFits, Locked
<1>8. ASSUME kind = "hnsw" PROVE IndexAligned' /\ IndexSound' /\ IndexFull' /\ LoneSearches'
    <2>1. IndexAligned'
        BY <1>8 DEF TypeOK, Locked, Rebuilding, IndexAligned, IndexInv
    <2>2. IndexSound'
        BY <1>8 DEF TypeOK, Locked, IndexInv, IndexSound, Fresh, Awaits
    <2>3. IndexFull'
        BY <1>8 DEF TypeOK, Locked, IndexInv, IndexFull, Fresh, Awaits, Unvisited
    <2>4. LoneSearches'
        BY <1>8 DEF TypeOK, Locked, Rebuilding, IndexInv, LoneSearches, Known
    <2> QED
        BY <2>1, <2>2, <2>3, <2>4
<1>9. kind' = kind
    OBVIOUS
<1> QED
    BY <1>1, <1>2, <1>3, <1>4, <1>5, <1>6, <1>7, <1>8, <1>9 DEF IndexInv

LEMMA SetBatchEmbeddingFuncKeeps == ASSUME Inv, SetBatchEmbeddingFunc PROVE Inv'
<1> USE DEF Inv, SetBatchEmbeddingFunc, config, maps, searches, training, Present
<1>1. TypeOK'
    BY DEF TypeOK
<1>2. Locked'
    BY DEF TypeOK, Locked, Rebuilding
<1>3. RebuiltIsTrained'
    BY DEF TypeOK, RebuiltIsTrained, RebuiltOnce
<1>4. PendingIsNew'
    BY DEF TypeOK, Locked, PendingIsNew, Rebuilding
<1>5. MapsAgree'
    BY DEF TypeOK, MapsAgree
<1>6. StoredFits'
    BY DEF TypeOK, StoredFits
<1>7. TodoFits'
    BY DEF TypeOK, TodoFits, Locked
<1>8. ASSUME kind = "hnsw" PROVE IndexAligned' /\ IndexSound' /\ IndexFull' /\ LoneSearches'
    <2>1. IndexAligned'
        BY <1>8 DEF TypeOK, Locked, Rebuilding, IndexAligned, IndexInv
    <2>2. IndexSound'
        BY <1>8 DEF TypeOK, Locked, IndexInv, IndexSound, Fresh, Awaits
    <2>3. IndexFull'
        BY <1>8 DEF TypeOK, Locked, IndexInv, IndexFull, Fresh, Awaits, Unvisited
    <2>4. LoneSearches'
        BY <1>8 DEF TypeOK, Locked, Rebuilding, IndexInv, LoneSearches, Known
    <2> QED
        BY <2>1, <2>2, <2>3, <2>4
<1>9. kind' = kind
    OBVIOUS
<1> QED
    BY <1>1, <1>2, <1>3, <1>4, <1>5, <1>6, <1>7, <1>8, <1>9 DEF IndexInv

LEMMA CloseKeeps == ASSUME Inv, Close PROVE Inv'
<1> USE DEF Inv, Close, WriteLocked, config, maps, searches, training, Present
<1>1. TypeOK'
    BY DEF TypeOK
<1>2. Locked'
    BY DEF TypeOK, Locked, Rebuilding
<1>3. RebuiltIsTrained'
    BY DEF TypeOK, RebuiltIsTrained, RebuiltOnce
<1>4. PendingIsNew'
    BY DEF TypeOK, Locked, PendingIsNew, Rebuilding
<1>5. MapsAgree'
    BY DEF TypeOK, MapsAgree
<1>6. StoredFits'
    BY DEF TypeOK, StoredFits
<1>7. TodoFits'
    BY DEF TypeOK, TodoFits, Locked
<1>8. ASSUME kind = "hnsw" PROVE IndexAligned' /\ IndexSound' /\ IndexFull' /\ LoneSearches'
    <2>1. IndexAligned'
        BY <1>8 DEF TypeOK, Locked, Rebuilding, IndexAligned, IndexInv
    <2>2. IndexSound'
        BY <1>8 DEF TypeOK, Locked, IndexInv, IndexSound, Fresh, Awaits
    <2>3. IndexFull'
        BY <1>8 DEF TypeOK, Locked, IndexInv, IndexFull, Fresh, Awaits, Unvisited
    <2>4. LoneSearches'
        BY <1>8 DEF TypeOK, Locked, Rebuilding, IndexInv, LoneSearches, Known
    <2> QED
        BY <2>1, <2>2, <2>3, <2>4
<1>9. kind' = kind
    OBVIOUS
<1> QED
    BY <1>1, <1>2, <1>3, <1>4, <1>5, <1>6, <1>7, <1>8, <1>9 DEF IndexInv

LEMMA RestartKeeps == ASSUME Inv, Restart PROVE Inv'
<1> USE DEF Inv, Restart, config, maps, searches, training
<1> DEFINE There == {id \in Ids : stored'[id] # NoDoc}
<1>1. PICK order \in Orders(There) :
          todo' = [i \in DOMAIN order |-> [id |-> order[i], vec |-> stored'[order[i]].vec]]
    OBVIOUS
<1>2. /\ order \in Seq(Ids)
      /\ \A i \in DOMAIN order : order[i] \in There
      /\ \A i, j \in DOMAIN order : order[i] = order[j] => i = j
      /\ \A id \in There : \E i \in DOMAIN order : order[i] = id
    BY <1>1, OrdersType
<1>3. /\ stored' \in [Ids -> Stored \cup {NoDoc}]
      /\ \A id \in There : stored'[id] \in Stored /\ Fits(stored'[id].vec, stored'[id].doc)
    BY DEF TypeOK, StoredFits, Nothing
<1>4. /\ DOMAIN todo' = DOMAIN order
      /\ \A i \in DOMAIN order : todo'[i].id = order[i] /\ todo'[i].vec = stored'[order[i]].vec
    BY <1>1
<1>5. todo' \in Seq([id : Ids, vec : Docs \cup {Empty}])
    <2>1. \A i \in DOMAIN order : [id |-> order[i], vec |-> stored'[order[i]].vec]
                                  \in [id : Ids, vec : Docs \cup {Empty}]
        BY <1>2, <1>3 DEF Stored
    <2>2. Len(order) \in Nat /\ DOMAIN order = 1 .. Len(order)
        BY <1>2
    <2> DEFINE Item == [id : Ids, vec : Docs \cup {Empty}]
    <2>3. todo' \in [1 .. Len(order) -> Item]
        BY <1>1, <2>1, <2>2
    <2> HIDE DEF Item, Inv, Restart
    <2>4. todo' \in Seq(Item)
        BY <2>2, <2>3
    <2> QED
        BY <2>4 DEF Item
<1>6. There = Present'
    BY DEF Present
<1> HIDE DEF There
<1>7. TypeOK'
    <2>1. kind' \in Kinds /\ engine' \in Engines /\ saved' \in SUBSET [Ids -> Stored \cup {NoDoc}]
        BY DEF TypeOK
    <2>2. index' \in SUBSET Entry /\ IsFiniteSet(index')
        BY FS_EmptySet
    <2>3. idMap' \in Seq(Ids \cup {NoId}) /\ slot' \in [Ids -> Nat] /\ pending' \in Seq(Ids)
        OBVIOUS
    <2>4. /\ embedFn' \in BOOLEAN /\ trained' \in BOOLEAN /\ closed' \in BOOLEAN
          /\ mutex' \in Searchers \cup {NoOne} /\ rebuilds' \in Nat
          /\ stale' \in SUBSET Ids /\ overlapped' \in SUBSET Searchers
        OBVIOUS
    <2>5. /\ pc' \in [Searchers ->
                 {"idle", "train", "swap", "clear", "rebuild", "map", "query", "name"}]
          /\ hits' \in [Searchers -> SUBSET Entry]
          /\ results' \in [Searchers -> SUBSET [owner : Ids, id : Ids \cup {NoId}]]
        OBVIOUS
    <2> HIDE DEF Inv, Restart
    <2> QED
        BY <1>3, <1>5, <2>1, <2>2, <2>3, <2>4, <2>5 DEF TypeOK
<1>8. Locked' /\ RebuiltIsTrained' /\ PendingIsNew' /\ MapsAgree'
    BY DEF Locked, RebuiltIsTrained, RebuiltOnce, PendingIsNew, MapsAgree, Rebuilding
<1>9. StoredFits'
    BY DEF StoredFits, Nothing
<1>10. TodoFits'
    BY <1>2, <1>3, <1>4, <1>6 DEF TodoFits
<1>11. IndexAligned' /\ IndexSound' /\ LoneSearches'
    BY DEF IndexAligned, IndexSound, LoneSearches
<1>12. IndexFull'
    BY <1>2, <1>4, <1>6 DEF IndexFull, Awaits
<1> QED
    BY <1>7, <1>8, <1>9, <1>10, <1>11, <1>12 DEF IndexInv

LEMMA SearchKeeps == ASSUME NEW s \in Searchers, Inv, Search(s) PROVE Inv'
<1> USE DEF Inv, Search, config, maps, searches, training, Present
<1>1. TypeOK'
    BY DEF TypeOK
<1>2. Locked'
    BY DEF TypeOK, Locked, Rebuilding
<1>3. RebuiltIsTrained'
    BY DEF TypeOK, RebuiltIsTrained, RebuiltOnce
<1>4. PendingIsNew'
    BY DEF TypeOK, Locked, PendingIsNew, Rebuilding
<1>5. MapsAgree'
    BY DEF TypeOK, MapsAgree
<1>6. StoredFits'
    BY DEF TypeOK, StoredFits
<1>7. TodoFits'
    BY DEF TypeOK, TodoFits, Locked
<1>8. ASSUME kind = "hnsw" PROVE IndexAligned' /\ IndexSound' /\ IndexFull' /\ LoneSearches'
    <2>1. IndexAligned'
        BY <1>8 DEF TypeOK, Locked, Rebuilding, IndexAligned, IndexInv
    <2>2. IndexSound'
        BY <1>8 DEF TypeOK, Locked, IndexInv, IndexSound, Fresh, Awaits
    <2>3. IndexFull'
        BY <1>8 DEF TypeOK, Locked, IndexInv, IndexFull, Fresh, Awaits, Unvisited
    <2>4. LoneSearches'
        BY <1>8 DEF TypeOK, Locked, Rebuilding, IndexInv, LoneSearches, Known
    <2> QED
        BY <2>1, <2>2, <2>3, <2>4
<1>9. kind' = kind
    OBVIOUS
<1> QED
    BY <1>1, <1>2, <1>3, <1>4, <1>5, <1>6, <1>7, <1>8, <1>9 DEF IndexInv

LEMMA SkipTrainingKeeps == ASSUME NEW s \in Searchers, Inv, SkipTraining(s) PROVE Inv'
<1> USE DEF Inv, SkipTraining, config, maps, searches, training, Present
<1>1. TypeOK'
    BY DEF TypeOK
<1>2. Locked'
    BY DEF TypeOK, Locked, Rebuilding
<1>3. RebuiltIsTrained'
    BY DEF TypeOK, RebuiltIsTrained, RebuiltOnce
<1>4. PendingIsNew'
    BY DEF TypeOK, Locked, PendingIsNew, Rebuilding
<1>5. MapsAgree'
    BY DEF TypeOK, MapsAgree
<1>6. StoredFits'
    BY DEF TypeOK, StoredFits
<1>7. TodoFits'
    BY DEF TypeOK, TodoFits, Locked
<1>8. ASSUME kind = "hnsw" PROVE IndexAligned' /\ IndexSound' /\ IndexFull' /\ LoneSearches'
    <2>1. IndexAligned'
        BY <1>8 DEF TypeOK, Locked, Rebuilding, IndexAligned, IndexInv
    <2>2. IndexSound'
        BY <1>8 DEF TypeOK, Locked, IndexInv, IndexSound, Fresh, Awaits
    <2>3. IndexFull'
        BY <1>8 DEF TypeOK, Locked, IndexInv, IndexFull, Fresh, Awaits, Unvisited
    <2>4. LoneSearches'
        BY <1>8 DEF TypeOK, Locked, Rebuilding, IndexInv, LoneSearches, Known
    <2> QED
        BY <2>1, <2>2, <2>3, <2>4
<1>9. kind' = kind
    OBVIOUS
<1> QED
    BY <1>1, <1>2, <1>3, <1>4, <1>5, <1>6, <1>7, <1>8, <1>9 DEF IndexInv

LEMMA TrainOnlyKeeps == ASSUME NEW s \in Searchers, Inv, TrainOnly(s) PROVE Inv'
<1> USE DEF Inv, TrainOnly, config, maps, searches, training, Present
<1>1. TypeOK'
    BY DEF TypeOK
<1>2. Locked'
    BY DEF TypeOK, Locked, Rebuilding
<1>3. RebuiltIsTrained'
    BY DEF TypeOK, RebuiltIsTrained, RebuiltOnce
<1>4. PendingIsNew'
    BY DEF TypeOK, Locked, PendingIsNew, Rebuilding
<1>5. MapsAgree'
    BY DEF TypeOK, MapsAgree
<1>6. StoredFits'
    BY DEF TypeOK, StoredFits
<1>7. TodoFits'
    BY DEF TypeOK, TodoFits, Locked
<1>8. ASSUME kind = "hnsw" PROVE IndexAligned' /\ IndexSound' /\ IndexFull' /\ LoneSearches'
    <2>1. IndexAligned'
        BY <1>8 DEF TypeOK, Locked, Rebuilding, IndexAligned, IndexInv
    <2>2. IndexSound'
        BY <1>8 DEF TypeOK, Locked, IndexInv, IndexSound, Fresh, Awaits
    <2>3. IndexFull'
        BY <1>8 DEF TypeOK, Locked, IndexInv, IndexFull, Fresh, Awaits, Unvisited
    <2>4. LoneSearches'
        BY <1>8 DEF TypeOK, Locked, Rebuilding, IndexInv, LoneSearches, Known
    <2> QED
        BY <2>1, <2>2, <2>3, <2>4
<1>9. kind' = kind
    OBVIOUS
<1> QED
    BY <1>1, <1>2, <1>3, <1>4, <1>5, <1>6, <1>7, <1>8, <1>9 DEF IndexInv

LEMMA TrainKeeps == ASSUME NEW s \in Searchers, Inv, Train(s) PROVE Inv'
<1> USE DEF Inv, Train, config, maps, searches, training
<1>1. /\ pending' \in Seq(Ids)
      /\ \A i \in DOMAIN pending' : pending'[i] \in Present
      /\ \A i, j \in DOMAIN pending' : pending'[i] = pending'[j] => i = j
      /\ \A id \in Present : \E i \in DOMAIN pending' : pending'[i] = id
    BY OrdersType DEF Present
<1>2. pc \in [Searchers -> {"idle", "train", "swap", "clear", "rebuild", "map", "query", "name"}]
      /\ pc' = [pc EXCEPT ![s] = "swap"] /\ mutex' = s
    BY DEF TypeOK
<1>3. \A t \in Searchers : pc[t] \notin Rebuilding /\ (pc'[t] \in Rebuilding => t = s)
    BY <1>2, NamesAssumption DEF Locked
<1>4. TypeOK'
    BY <1>1 DEF TypeOK
<1>5. Locked'
    BY <1>2, <1>3 DEF Locked
<1>6. RebuiltIsTrained'
    BY DEF TypeOK, RebuiltIsTrained, RebuiltOnce, NothingToTrain
<1>7. PendingIsNew'
    BY <1>1, <1>2, <1>3 DEF PendingIsNew, Rebuilding, Present
<1>8. MapsAgree' /\ StoredFits' /\ TodoFits'
    BY DEF MapsAgree, StoredFits, TodoFits, Present
<1>9. ASSUME kind = "hnsw" PROVE IndexAligned' /\ IndexSound' /\ IndexFull' /\ LoneSearches'
    <2>1. \A t \in Searchers : pc'[t] \notin {"clear", "rebuild", "map"}
        BY <1>2, <1>3 DEF Rebuilding
    <2>2. \A t \in Searchers : pc[t] \notin {"clear", "rebuild", "map"}
        BY <1>3 DEF Rebuilding
    <2>3. IndexAligned'
        BY <1>9, <2>1, <2>2 DEF IndexInv, IndexAligned
    <2>4. IndexSound'
        BY <1>9, <2>1, <2>2 DEF IndexInv, IndexSound, Fresh, Awaits, Present
    <2>5. IndexFull'
        BY <1>9, <2>1, <2>2 DEF IndexInv, IndexFull, Fresh, Awaits, Unvisited, Present
    <2>6. LoneSearches'
        BY <1>2, <1>9 DEF IndexInv, LoneSearches
    <2> QED
        BY <2>3, <2>4, <2>5, <2>6
<1> QED
    BY <1>4, <1>5, <1>6, <1>7, <1>8, <1>9 DEF IndexInv

LEMMA SwapIndexKeeps == ASSUME NEW s \in Searchers, Inv, SwapIndex(s) PROVE Inv'
<1> USE DEF Inv, SwapIndex, config, maps, searches, training, Present
<1>1. TypeOK'
    BY FS_EmptySet DEF TypeOK
<1>2. Locked'
    BY DEF TypeOK, Locked, Rebuilding
<1>3. RebuiltIsTrained'
    BY DEF TypeOK, RebuiltIsTrained, RebuiltOnce
<1>4. PendingIsNew'
    BY DEF TypeOK, Locked, PendingIsNew, Rebuilding
<1>5. MapsAgree'
    BY DEF TypeOK, MapsAgree
<1>6. StoredFits'
    BY DEF TypeOK, StoredFits
<1>7. TodoFits'
    BY DEF TypeOK, TodoFits, Locked
<1>8. ASSUME kind = "hnsw" PROVE IndexAligned' /\ IndexSound' /\ IndexFull' /\ LoneSearches'
    <2>1. IndexAligned'
        BY <1>8 DEF TypeOK, Locked, Rebuilding, IndexAligned, IndexInv
    <2>2. IndexSound'
        BY <1>8 DEF TypeOK, Locked, IndexInv, IndexSound, Fresh, Awaits
    <2>3. IndexFull'
        BY <1>8 DEF TypeOK, Locked, PendingIsNew, IndexInv, IndexFull, Fresh, Awaits, Unvisited
    <2>4. LoneSearches'
        BY <1>8 DEF TypeOK, Locked, Rebuilding, IndexInv, LoneSearches, Known
    <2> QED
        BY <2>1, <2>2, <2>3, <2>4
<1>9. kind' = kind
    OBVIOUS
<1> QED
    BY <1>1, <1>2, <1>3, <1>4, <1>5, <1>6, <1>7, <1>8, <1>9 DEF IndexInv

LEMMA ClearMapsKeeps == ASSUME NEW s \in Searchers, Inv, ClearMaps(s) PROVE Inv'
<1> USE DEF Inv, ClearMaps, config, maps, searches, training, Present
<1>1. TypeOK'
    BY DEF TypeOK
<1>2. Locked'
    BY DEF TypeOK, Locked, Rebuilding
<1>3. RebuiltIsTrained'
    BY DEF TypeOK, RebuiltIsTrained, RebuiltOnce
<1>4. PendingIsNew'
    BY DEF TypeOK, Locked, PendingIsNew, Rebuilding
<1>5. MapsAgree'
    BY DEF TypeOK, MapsAgree
<1>6. StoredFits'
    BY DEF TypeOK, StoredFits
<1>7. TodoFits'
    BY DEF TypeOK, TodoFits, Locked
<1>8. ASSUME kind = "hnsw" PROVE IndexAligned' /\ IndexSound' /\ IndexFull' /\ LoneSearches'
    <2>1. IndexAligned'
        BY <1>8 DEF TypeOK, Locked, Rebuilding, IndexAligned, IndexInv
    <2>2. IndexSound'
        BY <1>8 DEF TypeOK, Locked, IndexInv, IndexSound, Fresh, Awaits
    <2>3. IndexFull'
        BY <1>8 DEF TypeOK, Locked, IndexInv, IndexFull, Fresh, Awaits, Unvisited
    <2>4. LoneSearches'
        BY <1>8, NamesAssumption DEF TypeOK, Locked, Rebuilding, IndexInv, LoneSearches, Known
    <2> QED
        BY <2>1, <2>2, <2>3, <2>4
<1>9. kind' = kind
    OBVIOUS
<1> QED
    BY <1>1, <1>2, <1>3, <1>4, <1>5, <1>6, <1>7, <1>8, <1>9 DEF IndexInv

LEMMA RebuildInsertKeeps == ASSUME NEW s \in Searchers, Inv, RebuildInsert(s) PROVE Inv'
<1> USE DEF Inv, RebuildInsert, config, maps, searches
<1> DEFINE id == Head(pending)
           d == stored[id].doc
           n == Len(idMap) + 1
           new == [node |-> n, copy |-> 1, owner |-> id, vec |-> d]
<1>1. /\ pending \in Seq(Ids) /\ pending # <<>> /\ idMap \in Seq(Ids \cup {NoId})
      /\ pc \in [Searchers -> {"idle", "train", "swap", "clear", "rebuild", "map", "query", "name"}]
    BY DEF TypeOK
<1>2. /\ id = pending[1] /\ 1 \in DOMAIN pending /\ id \in Ids
      /\ Tail(pending) \in Seq(Ids) /\ DOMAIN Tail(pending) = 1 .. Len(pending) - 1
      /\ Len(pending) \in Nat \ {0} /\ DOMAIN pending = 1 .. Len(pending)
      /\ \A i \in DOMAIN Tail(pending) : i + 1 \in DOMAIN pending /\ Tail(pending)[i] = pending[i + 1]
    BY <1>1, TailFacts
<1>3. n \in Nat \ {0} /\ DOMAIN idMap = 1 .. Len(idMap) /\ Len(idMap) \in Nat
    BY <1>1
<1>4. /\ mutex = s /\ mutex # NoOne /\ todo = <<>>
      /\ \A t \in Searchers : pc[t] \in Rebuilding => t = s
    BY Alone DEF Rebuilding
<1>5. /\ id \in Present /\ stored[id] \in Stored /\ d \in Docs /\ slot[id] = 0
    BY <1>2, PresentType DEF PendingIsNew, Rebuilding
<1>6. \A t \in Searchers : t \notin overlapped => pc[t] # "name" \/ kind # "hnsw"
    BY <1>4 DEF IndexInv, LoneSearches
<1>7. RebuiltIsTrained' /\ MapsAgree'
    BY DEF RebuiltIsTrained, RebuiltOnce, MapsAgree
<1>8. CASE d \in BareDocs
    <2>1. pending' = Tail(pending) /\ stored' = stored /\ index' = index /\ pc' = pc
        BY <1>8
    <2>2. TypeOK' /\ Locked' /\ StoredFits' /\ TodoFits'
        BY <1>2, <2>1 DEF TypeOK, Locked, StoredFits, TodoFits, Present
    <2>3. PendingIsNew'
        <3>1. DOMAIN pending' = 1 .. Len(pending) - 1
            BY <1>2, <2>1
        <3>2. \A i \in DOMAIN pending' : /\ i \in Nat /\ i + 1 \in DOMAIN pending
                                         /\ pending'[i] = pending[i + 1]
            <4>1. pending' = Tail(pending)
                BY <2>1
            <4> HIDE DEF id, Inv, RebuildInsert
            <4>2. \A i \in DOMAIN Tail(pending) : /\ i \in Nat /\ i + 1 \in DOMAIN pending
                                                  /\ Tail(pending)[i] = pending[i + 1]
                BY <1>2
            <4> QED
                BY <4>1, <4>2
        <3>3. \A i \in DOMAIN pending' : pending'[i] \in Present /\ slot[pending'[i]] = 0
            BY <3>2 DEF PendingIsNew, Rebuilding
        <3>4. \A i, j \in DOMAIN pending' : pending'[i] = pending'[j] => i = j
            BY <3>2 DEF PendingIsNew
        <3>5. \A t \in Searchers : pc'[t] \in Rebuilding => t = s /\ pc'[t] = "rebuild"
            BY <1>4, <2>1
        <3>6. Present' = Present /\ slot' = slot
            BY <2>1 DEF Present
        <3> HIDE DEF Inv, RebuildInsert
        <3> QED
            BY <3>3, <3>4, <3>5, <3>6 DEF PendingIsNew, Rebuilding
    <2>4. ASSUME kind = "hnsw" PROVE IndexAligned' /\ IndexSound' /\ IndexFull' /\ LoneSearches'
        <3>1. IndexAligned'
            BY <1>4, <2>1, <2>4 DEF IndexInv, IndexAligned, Rebuilding
        <3>2. IndexSound'
            BY <2>1, <2>4 DEF IndexInv, IndexSound, Fresh, Awaits, Present
        <3>3. IndexFull'
            <4> SUFFICES ASSUME NEW x \in Present, ~Unvisited(x)', Fresh(x), x # id
                         PROVE  stored[x].doc \in BareDocs \/ \E e \in index : e.owner = x
                BY <1>8, <2>1 DEF IndexFull, Present, Fresh
            <4>1. ~Unvisited(x)
                <5> SUFFICES ASSUME NEW i \in DOMAIN pending, pending[i] = x PROVE FALSE
                    BY DEF Unvisited
                <5>1. i # 1
                    BY <1>2
                <5>2. i - 1 \in DOMAIN pending' /\ pending'[i - 1] = x
                    <6>1. i \in 1 .. Len(pending) /\ i - 1 \in 1 .. Len(pending) - 1
                        BY <1>2, <5>1
                    <6>2. DOMAIN pending' = 1 .. Len(pending) - 1
                        BY <1>2, <2>1
                    <6>3. pending'[i - 1] = pending[(i - 1) + 1]
                        BY <1>2, <2>1, <6>1, <6>2
                    <6> QED
                        BY <6>1, <6>2, <6>3
                <5> QED
                    BY <2>1, <5>2 DEF Unvisited
            <4>2. ~Awaits(x)
                BY <1>4 DEF Awaits
            <4> QED
                BY <2>4, <4>1, <4>2 DEF IndexInv, IndexFull
        <3>4. LoneSearches'
            BY <1>4, <2>1, <2>4 DEF IndexInv, LoneSearches
        <3> QED
            BY <3>1, <3>2, <3>3, <3>4
    <2> QED
        BY <1>7, <2>2, <2>3, <2>4 DEF IndexInv
<1>9. CASE d \notin BareDocs
    <2>1. /\ index' = Indexed(n, id, d) /\ pending' = pending
          /\ pc' = [pc EXCEPT ![s] = "map"]
          /\ stored' = IF engine = "memory" THEN [stored EXCEPT ![id].vec = d] ELSE stored
        BY <1>9
    <2>2. /\ stored' \in [Ids -> Stored \cup {NoDoc}]
          /\ \A x \in Ids : stored'[x] # NoDoc <=> stored[x] # NoDoc
          /\ \A x \in Present : stored'[x].doc = stored[x].doc /\ stored'[x] \in Stored
          /\ \A x \in Ids : stored'[x] = stored[x] \/ (x = id /\ stored'[x].vec = stored'[x].doc)
        <3>1. CASE engine = "memory"
            <4>1. stored' = [stored EXCEPT ![id] = [doc |-> stored[id].doc, vec |-> d]]
                <5>1. [stored[id] EXCEPT !.vec = d] = [doc |-> stored[id].doc, vec |-> d]
                    BY <1>5 DEF Stored
                <5>2. stored' = [stored EXCEPT ![id] = [stored[id] EXCEPT !.vec = d]]
                    BY <2>1, <3>1
                <5> QED
                    BY <5>1, <5>2
            <4>2. [doc |-> stored[id].doc, vec |-> d] \in Stored
                BY <1>5 DEF Stored
            <4> QED
                BY <1>2, <1>5, <4>1, <4>2, NoDocAssumption, PresentType DEF TypeOK, Present
        <3>2. CASE engine # "memory"
            BY <2>1, <3>2, PresentType DEF TypeOK
        <3> QED
            BY <3>1, <3>2
    <2>3. Present' = Present
        BY <2>2 DEF Present
    <2> HIDE DEF d, n
    <2>4. TypeOK'
        <3>1. index' \in SUBSET Entry /\ IsFiniteSet(index')
            BY <1>2, <1>3, <1>5, <2>1, IndexedType DEF TypeOK
        <3> QED
            BY <2>1, <2>2, <3>1 DEF TypeOK
    <2>5. Locked'
        BY <1>1, <1>4, <2>1 DEF Locked
    <2>6. PendingIsNew'
        BY <1>1, <1>4, <2>1, <2>3 DEF PendingIsNew, Rebuilding
    <2>7. StoredFits'
        BY <2>2 DEF StoredFits, Fits
    <2>8. TodoFits'
        BY <1>4 DEF TodoFits
    <2>9. ASSUME kind = "hnsw" PROVE IndexAligned' /\ IndexSound' /\ IndexFull' /\ LoneSearches'
        <3>1. \A e \in index : e.node \in DOMAIN idMap /\ idMap[e.node] = e.owner
            BY <1>4, <2>9 DEF IndexInv, IndexAligned, Rebuilding
        <3>2. index' = index \cup {new} /\ new.node = n /\ new.owner = id /\ new.vec = d
            <4>1. new.node = n /\ new.owner = id /\ new.vec = d
                OBVIOUS
            <4>2. n \notin DOMAIN idMap
                BY <1>3 DEF n
            <4>3. {e \in index : e.node # n} = index
                BY <3>1, <4>2
            <4>4. Indexed(n, id, d) = {e \in index : e.node # n} \cup {new}
                <5>1. n \in Nat \ {0} /\ id \in Ids /\ d \in Docs \cup {Empty}
                    BY <1>2, <1>3, <1>5
                <5> HIDE DEF Inv, RebuildInsert, id
                <5> QED
                    BY <2>9, <5>1, IndexedHNSW
            <4> QED
                BY <2>1, <4>1, <4>3, <4>4
        <3>3. \A t \in Searchers : pc'[t] \in Rebuilding => t = s
            BY <1>1, <1>4, <2>1
        <3>4. pc'[s] = "map"
            BY <1>1, <2>1
        <3> HIDE DEF new
        <3>5. IndexAligned'
            <4>1. \A e, f \in index' : e.node = f.node => e = f
                BY <1>3, <2>9, <3>1, <3>2 DEF IndexInv, IndexAligned, n
            <4>2. \A t \in Searchers : pc'[t] = "clear" => index' = {}
                BY <3>3, <3>4 DEF Rebuilding
            <4>3. \E e \in index' : e.owner = Head(pending')
                BY <2>1, <3>2
            <4>4. \A e \in index' :
                     \/ e.node \in DOMAIN idMap /\ idMap[e.node] = e.owner
                     \/ e.node = Len(idMap) + 1 /\ e.owner = Head(pending')
                BY <2>1, <3>1, <3>2 DEF n
            <4> QED
                BY <3>4, <4>1, <4>2, <4>3, <4>4 DEF IndexAligned
        <3>6. IndexSound'
            <4> SUFFICES ASSUME NEW e \in index'
                         PROVE  e.owner \in Present /\ Fits(e.vec, stored'[e.owner].doc)
                BY <2>3 DEF IndexSound
            <4>1. CASE e = new
                BY <1>5, <2>2, <3>2, <4>1 DEF Fits, d
            <4>2. CASE e \in index
                <5>1. Fresh(e.owner) /\ ~Awaits(e.owner)
                    BY <1>4 DEF Fresh, Awaits
                <5> QED
                    BY <2>2, <2>9, <4>2, <5>1 DEF IndexInv, IndexSound
            <4> QED
                BY <3>2, <4>1, <4>2
        <3>7. IndexFull'
            <4> SUFFICES ASSUME NEW x \in Present, ~Unvisited(x)'
                         PROVE  stored[x].doc \in BareDocs \/ \E e \in index : e.owner = x
                BY <2>2, <2>3, <3>2 DEF IndexFull
            <4>1. Fresh(x) /\ ~Awaits(x) /\ ~Unvisited(x)
                BY <1>4, <2>1, <3>4 DEF Fresh, Awaits, Unvisited
            <4> QED
                BY <2>9, <4>1 DEF IndexInv, IndexFull
        <3>8. LoneSearches'
            BY <1>1, <1>4, <1>6, <2>1, <2>9 DEF IndexInv, LoneSearches
        <3> QED
            BY <3>5, <3>6, <3>7, <3>8
    <2> QED
        BY <1>7, <2>4, <2>5, <2>6, <2>7, <2>8, <2>9 DEF IndexInv
<1> QED
    BY <1>8, <1>9

LEMMA RebuildMapKeeps == ASSUME NEW s \in Searchers, Inv, RebuildMap(s) PROVE Inv'
<1> USE DEF Inv, RebuildMap, config, maps, searches
<1> DEFINE id == Head(pending)
           n == Len(idMap) + 1
<1>1. /\ pending \in Seq(Ids) /\ pending # <<>> /\ idMap \in Seq(Ids \cup {NoId})
      /\ slot \in [Ids -> Nat]
      /\ pc \in [Searchers -> {"idle", "train", "swap", "clear", "rebuild", "map", "query", "name"}]
    BY DEF TypeOK, PendingIsNew
<1>2. /\ id = pending[1] /\ 1 \in DOMAIN pending /\ id \in Ids
      /\ pending' \in Seq(Ids) /\ DOMAIN pending' = 1 .. Len(pending) - 1
      /\ Len(pending) \in Nat \ {0} /\ DOMAIN pending = 1 .. Len(pending)
      /\ \A i \in DOMAIN pending' : i + 1 \in DOMAIN pending /\ pending'[i] = pending[i + 1]
    BY <1>1, TailFacts
<1>3. /\ n \in Nat \ {0} /\ n \notin DOMAIN idMap /\ DOMAIN idMap = 1 .. Len(idMap)
      /\ idMap' \in Seq(Ids \cup {NoId}) /\ Len(idMap') = n
      /\ DOMAIN idMap' = DOMAIN idMap \cup {n} /\ idMap'[n] = id
      /\ \A m \in DOMAIN idMap : idMap'[m] = idMap[m]
    BY <1>1, <1>2, AppendFacts
<1>4. /\ mutex = s /\ mutex # NoOne /\ todo = <<>>
      /\ \A t \in Searchers : pc[t] \in Rebuilding => t = s
    BY Alone DEF Rebuilding
<1>5. slot[id] = 0 /\ \A m \in DOMAIN idMap : idMap[m] # id
    <2>1. slot[id] = 0
        BY <1>2 DEF PendingIsNew
    <2>2. MapsAgree /\ id # NoId
        BY <1>2, NamesAssumption
    <2> HIDE DEF Inv, RebuildMap, id, n
    <2> QED
        BY <1>3, <2>1, <2>2 DEF MapsAgree
<1>6. slot' \in [Ids -> Nat] /\ slot'[id] = n /\ \A x \in Ids \ {id} : slot'[x] = slot[x]
    BY <1>1, <1>2, <1>3
<1>7. pc' = [pc EXCEPT ![s] = "rebuild"] /\ pc[s] = "map"
    OBVIOUS
<1> HIDE DEF id, n
<1>8. TypeOK'
    BY <1>2, <1>3, <1>6, <1>7 DEF TypeOK
<1>9. Locked' /\ RebuiltIsTrained' /\ StoredFits' /\ TodoFits'
    BY <1>1, <1>4, <1>7 DEF Locked, RebuiltIsTrained, RebuiltOnce, StoredFits, TodoFits, Present, Rebuilding
<1>10. PendingIsNew'
    <2>1. \A i \in DOMAIN pending' : pending'[i] \in Present /\ pending'[i] # id /\ slot'[pending'[i]] = 0
        <3>1. PendingIsNew /\ Present' = Present /\ pc[s] = "map"
            BY DEF Present
        <3> HIDE DEF Inv, RebuildMap
        <3>2. \A i \in DOMAIN pending' : /\ i \in Nat /\ i + 1 \in DOMAIN pending
                                         /\ pending'[i] = pending[i + 1] /\ pending'[i] \in Ids
            BY <1>2
        <3>3. \A i \in DOMAIN pending : pending[i] \in Present /\ slot[pending[i]] = 0
            BY <3>1 DEF PendingIsNew, Rebuilding
        <3>4. \A i \in DOMAIN pending' : pending'[i] # id
            <4>1. \A i \in DOMAIN pending : pending[i] = id => i = 1
                BY <1>2, <3>1 DEF PendingIsNew
            <4> QED
                BY <1>2, <3>2, <4>1
        <3> QED
            BY <1>6, <3>2, <3>3, <3>4
    <2>2. \A i, j \in DOMAIN pending' : pending'[i] = pending'[j] => i = j
        BY <1>2 DEF PendingIsNew
    <2>3. \A t \in Searchers : pc'[t] \in Rebuilding => t = s /\ pc'[t] = "rebuild"
        BY <1>1, <1>4, <1>7
    <2> QED
        BY <2>1, <2>2, <2>3 DEF PendingIsNew, Rebuilding, Present
<1>11. MapsAgree'
    BY <1>2, <1>3, <1>5, <1>6, NamesAssumption DEF MapsAgree
<1>12. ASSUME kind = "hnsw" PROVE IndexAligned' /\ IndexSound' /\ IndexFull' /\ LoneSearches'
    <2>1. \A t \in Searchers : pc'[t] \in Rebuilding => t = s /\ pc'[t] = "rebuild"
        BY <1>1, <1>4, <1>7
    <2>2. IndexAligned'
        <3>1. \A e \in index : e.node \in DOMAIN idMap' /\ idMap'[e.node] = e.owner
            BY <1>3, <1>12 DEF IndexInv, IndexAligned, id, n
        <3> QED
            BY <1>12, <2>1, <3>1 DEF IndexInv, IndexAligned, Rebuilding
    <2>3. \A x : Fresh(x) /\ ~Awaits(x)
        BY <1>4, <1>7 DEF Fresh, Awaits
    <2>4. IndexSound'
        BY <1>12, <2>3 DEF IndexInv, IndexSound, Present
    <2>5. IndexFull'
        <3> SUFFICES ASSUME NEW x \in Present, ~Unvisited(x)'
                     PROVE  stored[x].doc \in BareDocs \/ \E e \in index : e.owner = x
            BY DEF IndexFull, Present
        <3>1. CASE x = id
            BY <1>7, <1>12, <3>1 DEF IndexInv, IndexAligned, id
        <3>2. CASE x # id
            <4>1. ~Unvisited(x)
                <5> SUFFICES ASSUME NEW i \in DOMAIN pending, pending[i] = x PROVE FALSE
                    BY DEF Unvisited
                <5>1. i # 1
                    BY <1>2, <3>2
                <5>2. i - 1 \in DOMAIN pending' /\ pending'[i - 1] = x
                    BY <1>2, <5>1
                <5>3. pc'[s] = "rebuild"
                    BY <1>1, <1>7
                <5> QED
                    BY <5>2, <5>3 DEF Unvisited
            <4> QED
                BY <1>12, <2>3, <4>1 DEF IndexInv, IndexFull
        <3> QED
            BY <3>1, <3>2
    <2>6. LoneSearches'
        BY <1>1, <1>4, <1>7, <1>12 DEF IndexInv, LoneSearches
    <2> QED
        BY <2>2, <2>4, <2>5, <2>6
<1> QED
    BY <1>8, <1>9, <1>10, <1>11, <1>12 DEF IndexInv

LEMMA RebuildDoneKeeps == ASSUME NEW s \in Searchers, Inv, RebuildDone(s) PROVE Inv'
<1> USE DEF Inv, RebuildDone, config, maps, searches, training, Present
<1>1. TypeOK'
    BY DEF TypeOK
<1>2. Locked'
    BY DEF TypeOK, Locked, Rebuilding
<1>3. RebuiltIsTrained'
    BY DEF TypeOK, RebuiltIsTrained, RebuiltOnce
<1>4. PendingIsNew'
    BY DEF TypeOK, Locked, PendingIsNew, Rebuilding
<1>5. MapsAgree'
    BY DEF TypeOK, MapsAgree
<1>6. StoredFits'
    BY DEF TypeOK, StoredFits
<1>7. TodoFits'
    BY DEF TypeOK, TodoFits, Locked
<1>8. ASSUME kind = "hnsw" PROVE IndexAligned' /\ IndexSound' /\ IndexFull' /\ LoneSearches'
    <2>1. IndexAligned'
        BY <1>8 DEF TypeOK, Locked, Rebuilding, IndexAligned, IndexInv
    <2>2. IndexSound'
        BY <1>8 DEF TypeOK, Locked, IndexInv, IndexSound, Fresh, Awaits
    <2>3. IndexFull'
        <3> SUFFICES ASSUME NEW x \in Present
                     PROVE  stored[x].doc \in BareDocs \/ \E e \in index : e.owner = x
            BY DEF IndexFull
        <3>1. Fresh(x) /\ ~Awaits(x) /\ ~Unvisited(x)
            BY DEF Locked, Fresh, Awaits, Unvisited
        <3> QED
            BY <1>8, <3>1 DEF IndexInv, IndexFull
    <2>4. LoneSearches'
        BY <1>8, NamesAssumption DEF TypeOK, Locked, Rebuilding, IndexInv, LoneSearches, Known
    <2> QED
        BY <2>1, <2>2, <2>3, <2>4
<1>9. kind' = kind
    OBVIOUS
<1> QED
    BY <1>1, <1>2, <1>3, <1>4, <1>5, <1>6, <1>7, <1>8, <1>9 DEF IndexInv

LEMMA QueryKeeps == ASSUME NEW s \in Searchers, Inv, Query(s) PROVE Inv'
<1> USE DEF Inv, Query, config, maps, searches, training, Present
<1>1. TypeOK'
    BY DEF TypeOK
<1>2. Locked'
    BY DEF TypeOK, Locked, Rebuilding
<1>3. RebuiltIsTrained'
    BY DEF TypeOK, RebuiltIsTrained, RebuiltOnce
<1>4. PendingIsNew'
    BY DEF TypeOK, Locked, PendingIsNew, Rebuilding
<1>5. MapsAgree'
    BY DEF TypeOK, MapsAgree
<1>6. StoredFits'
    BY DEF TypeOK, StoredFits
<1>7. TodoFits'
    BY DEF TypeOK, TodoFits, Locked
<1>8. ASSUME kind = "hnsw" PROVE IndexAligned' /\ IndexSound' /\ IndexFull' /\ LoneSearches'
    <2>1. IndexAligned'
        BY <1>8 DEF TypeOK, Locked, Rebuilding, IndexAligned, IndexInv
    <2>2. IndexSound'
        BY <1>8 DEF TypeOK, Locked, IndexInv, IndexSound, Fresh, Awaits
    <2>3. IndexFull'
        BY <1>8 DEF TypeOK, Locked, IndexInv, IndexFull, Fresh, Awaits, Unvisited
    <2>4. LoneSearches'
        <3>1. todo = <<>>
            BY DEF Locked
        <3>2. ASSUME mutex = NoOne
              PROVE  \A e \in index : /\ e.node \in DOMAIN idMap /\ idMap[e.node] = e.owner
                                      /\ Known(e.owner)
            <4>1. \A t \in Searchers : pc[t] \notin Rebuilding
                BY <3>2, NamesAssumption DEF Locked
            <4> QED
                BY <1>8, <3>1, <4>1
                DEF IndexInv, IndexAligned, IndexSound, Fresh, Awaits, Known, Rebuilding
        <3> QED
            BY <1>8, <3>2 DEF TypeOK, IndexInv, LoneSearches, Known
    <2> QED
        BY <2>1, <2>2, <2>3, <2>4
<1>9. kind' = kind
    OBVIOUS
<1> QED
    BY <1>1, <1>2, <1>3, <1>4, <1>5, <1>6, <1>7, <1>8, <1>9 DEF IndexInv

LEMMA NameHitKeeps == ASSUME NEW s \in Searchers, Inv, NameHit(s) PROVE Inv'
<1> USE DEF Inv, NameHit, config, maps, searches, training, Present
<1>1. TypeOK'
    <2>1. PICK e \in hits[s] :
              /\ hits' = [hits EXCEPT ![s] = @ \ {e}]
              /\ results' = [results EXCEPT ![s] = @ \cup
                     {[owner |-> e.owner, id |-> IF e.node <= Len(idMap) THEN idMap[e.node] ELSE NoId]}]
        OBVIOUS
    <2>2. e.owner \in Ids /\ e.node \in Nat \ {0}
        BY DEF TypeOK, Entry
    <2>3. (IF e.node <= Len(idMap) THEN idMap[e.node] ELSE NoId) \in Ids \cup {NoId}
        BY <2>2 DEF TypeOK
    <2> QED
        BY <2>1, <2>2, <2>3 DEF TypeOK
<1>2. Locked'
    BY DEF TypeOK, Locked, Rebuilding
<1>3. RebuiltIsTrained'
    BY DEF TypeOK, RebuiltIsTrained, RebuiltOnce
<1>4. PendingIsNew'
    BY DEF TypeOK, Locked, PendingIsNew, Rebuilding
<1>5. MapsAgree'
    BY DEF TypeOK, MapsAgree
<1>6. StoredFits'
    BY DEF TypeOK, StoredFits
<1>7. TodoFits'
    BY DEF TypeOK, TodoFits, Locked
<1>8. ASSUME kind = "hnsw" PROVE IndexAligned' /\ IndexSound' /\ IndexFull' /\ LoneSearches'
    <2>1. IndexAligned'
        BY <1>8 DEF TypeOK, Locked, Rebuilding, IndexAligned, IndexInv
    <2>2. IndexSound'
        BY <1>8 DEF TypeOK, Locked, IndexInv, IndexSound, Fresh, Awaits
    <2>3. IndexFull'
        BY <1>8 DEF TypeOK, Locked, IndexInv, IndexFull, Fresh, Awaits, Unvisited
    <2>4. LoneSearches'
        BY <1>8 DEF TypeOK, Locked, Rebuilding, IndexInv, LoneSearches, Known
    <2> QED
        BY <2>1, <2>2, <2>3, <2>4
<1>9. kind' = kind
    OBVIOUS
<1> QED
    BY <1>1, <1>2, <1>3, <1>4, <1>5, <1>6, <1>7, <1>8, <1>9 DEF IndexInv

LEMMA ReturnKeeps == ASSUME NEW s \in Searchers, Inv, Return(s) PROVE Inv'
<1> USE DEF Inv, Return, config, maps, searches, training, Present
<1>1. TypeOK'
    BY DEF TypeOK
<1>2. Locked'
    BY DEF TypeOK, Locked, Rebuilding
<1>3. RebuiltIsTrained'
    BY DEF TypeOK, RebuiltIsTrained, RebuiltOnce
<1>4. PendingIsNew'
    BY DEF TypeOK, Locked, PendingIsNew, Rebuilding
<1>5. MapsAgree'
    BY DEF TypeOK, MapsAgree
<1>6. StoredFits'
    BY DEF TypeOK, StoredFits
<1>7. TodoFits'
    BY DEF TypeOK, TodoFits, Locked
<1>8. ASSUME kind = "hnsw" PROVE IndexAligned' /\ IndexSound' /\ IndexFull' /\ LoneSearches'
    <2>1. IndexAligned'
        BY <1>8 DEF TypeOK, Locked, Rebuilding, IndexAligned, IndexInv
    <2>2. IndexSound'
        BY <1>8 DEF TypeOK, Locked, IndexInv, IndexSound, Fresh, Awaits
    <2>3. IndexFull'
        BY <1>8 DEF TypeOK, Locked, IndexInv, IndexFull, Fresh, Awaits, Unvisited
    <2>4. LoneSearches'
        BY <1>8 DEF TypeOK, Locked, Rebuilding, IndexInv, LoneSearches, Known
    <2> QED
        BY <2>1, <2>2, <2>3, <2>4
<1>9. kind' = kind
    OBVIOUS
<1> QED
    BY <1>1, <1>2, <1>3, <1>4, <1>5, <1>6, <1>7, <1>8, <1>9 DEF IndexInv

LEMMA InitInv == Init => Inv
<1> SUFFICES ASSUME Init PROVE Inv
    OBVIOUS
<1> USE DEF Init
<1>1. /\ kind \in Kinds /\ engine \in Engines
      /\ stored = Nothing /\ saved = {}
      /\ index = {} /\ idMap = <<>> /\ slot = [id \in Ids |-> 0]
      /\ todo = <<>> /\ mutex = NoOne /\ pending = <<>>
      /\ pc = [s \in Searchers |-> "idle"]
      /\ hits = [s \in Searchers |-> {}] /\ results = [s \in Searchers |-> {}]
      /\ rebuilds = 0
    OBVIOUS
<1>2. TypeOK
    <2>1. index \in SUBSET Entry /\ IsFiniteSet(index)
        BY FS_EmptySet
    <2>2. stored \in [Ids -> Stored \cup {NoDoc}] /\ saved \in SUBSET [Ids -> Stored \cup {NoDoc}]
        BY DEF Nothing
    <2>3. /\ idMap \in Seq(Ids \cup {NoId}) /\ slot \in [Ids -> Nat] /\ pending \in Seq(Ids)
          /\ todo \in Seq([id : Ids, vec : Docs \cup {Empty}])
        OBVIOUS
    <2>4. /\ embedFn \in BOOLEAN /\ trained \in BOOLEAN /\ closed \in BOOLEAN
          /\ mutex \in Searchers \cup {NoOne} /\ rebuilds \in Nat
          /\ stale \in SUBSET Ids /\ overlapped \in SUBSET Searchers
        OBVIOUS
    <2>5. /\ pc \in [Searchers ->
                 {"idle", "train", "swap", "clear", "rebuild", "map", "query", "name"}]
          /\ hits \in [Searchers -> SUBSET Entry]
          /\ results \in [Searchers -> SUBSET [owner : Ids, id : Ids \cup {NoId}]]
        OBVIOUS
    <2> QED
        BY <1>1, <2>1, <2>2, <2>3, <2>4, <2>5 DEF TypeOK
<1> HIDE DEF Init
<1>3. Locked /\ RebuiltIsTrained /\ PendingIsNew /\ MapsAgree /\ TodoFits
    BY <1>1 DEF Locked, RebuiltIsTrained, RebuiltOnce, PendingIsNew, MapsAgree, TodoFits, Rebuilding
<1>4. StoredFits
    BY <1>1 DEF StoredFits, Nothing
<1>5. IndexInv
    <2>1. Present = {}
        BY <1>1 DEF Present, Nothing
    <2> QED
        BY <1>1, <2>1 DEF IndexInv, IndexAligned, IndexSound, IndexFull, LoneSearches
<1> QED
    BY <1>2, <1>3, <1>4, <1>5 DEF Inv

LEMMA StutterKeeps == ASSUME Inv, UNCHANGED vars PROVE Inv'
<1> USE DEF vars, config, maps, searches, training
<1>1. TypeOK' /\ Locked' /\ RebuiltIsTrained' /\ PendingIsNew' /\ MapsAgree'
    BY DEF Inv, TypeOK, Locked, RebuiltIsTrained, RebuiltOnce, PendingIsNew, Present, MapsAgree
<1>2. StoredFits' /\ TodoFits'
    BY DEF Inv, StoredFits, TodoFits, Present
<1>3. IndexInv'
    <2>1. ASSUME kind = "hnsw" PROVE IndexAligned' /\ IndexSound' /\ IndexFull' /\ LoneSearches'
        <3>1. IndexAligned /\ IndexSound /\ IndexFull /\ LoneSearches
            BY <2>1 DEF Inv, IndexInv
        <3>2. IndexAligned' /\ IndexSound'
            BY <3>1 DEF IndexAligned, IndexSound, Fresh, Awaits, Present
        <3>3. IndexFull' /\ LoneSearches'
            BY <3>1 DEF IndexFull, Fresh, Awaits, Unvisited, LoneSearches, Known, Present
        <3> QED
            BY <3>2, <3>3
    <2>2. kind' = kind
        OBVIOUS
    <2> QED
        BY <2>1, <2>2 DEF IndexInv
<1> QED
    BY <1>1, <1>2, <1>3 DEF Inv

LEMMA SearchStepKeeps ==
    ASSUME NEW s \in Searchers, Inv,
           \/ Search(s) \/ SkipTraining(s) \/ TrainOnly(s) \/ Train(s)
           \/ SwapIndex(s) \/ ClearMaps(s)
           \/ RebuildInsert(s) \/ RebuildMap(s) \/ RebuildDone(s)
           \/ Query(s) \/ NameHit(s) \/ Return(s)
    PROVE  Inv'
BY SearchKeeps, SkipTrainingKeeps, TrainOnlyKeeps, TrainKeeps, SwapIndexKeeps, ClearMapsKeeps,
   RebuildInsertKeeps, RebuildMapKeeps, RebuildDoneKeeps, QueryKeeps, NameHitKeeps, ReturnKeeps

LEMMA NextInv == Inv /\ [Next]_vars => Inv'
<1> SUFFICES ASSUME Inv, [Next]_vars PROVE Inv'
    OBVIOUS
<1>1. CASE \E b \in Batch : Insert(b) \/ InsertFails(b)
    BY <1>1, InsertKeeps, InsertFailsKeeps
<1>2. CASE IndexOne
    BY <1>2, IndexOneKeeps
<1>3. CASE \E ids \in SUBSET Ids \ {{}} : Deletes(ids) \/ DeletesFails(ids)
    BY <1>3, DeletesKeeps, DeletesFailsKeeps
<1>4. CASE Save \/ Load \/ SetBatchEmbeddingFunc \/ Close \/ Restart
    BY <1>4, SaveKeeps, LoadKeeps, SetBatchEmbeddingFuncKeeps, CloseKeeps, RestartKeeps
<1>5. CASE \E s \in Searchers :
               \/ Search(s) \/ SkipTraining(s) \/ TrainOnly(s) \/ Train(s)
               \/ SwapIndex(s) \/ ClearMaps(s)
               \/ RebuildInsert(s) \/ RebuildMap(s) \/ RebuildDone(s)
               \/ Query(s) \/ NameHit(s) \/ Return(s)
    BY <1>5, SearchStepKeeps
<1>6. CASE UNCHANGED vars
    BY <1>6, StutterKeeps
<1> QED
    BY <1>1, <1>2, <1>3, <1>4, <1>5, <1>6 DEF Next

LEMMA Invariance == Spec => []Inv
<1> QED
    BY InitInv, NextInv, PTL DEF Spec

(* Every variable keeps its type; node numbers are positive.               *)
THEOREM TypeCorrect == Spec => []TypeOK
<1>1. Inv => TypeOK
    BY DEF Inv
<1> QED
    BY Invariance, <1>1, PTL

(* idMap and idReverseMap are inverse to each other at every step of every *)
(* operation, and through failed writes, rebuilds and restarts.            *)
THEOREM MapsAgreeCorrect == Spec => []MapsAgree
<1>1. Inv => MapsAgree
    BY DEF Inv
<1> QED
    BY Invariance, <1>1, PTL

(* However many searches find no embedding function at the same time, the  *)
(* index is rebuilt at most once between two starts of the database.       *)
THEOREM RebuiltOnceCorrect == Spec => []RebuiltOnce
<1>1. Inv => RebuiltOnce
    BY DEF Inv, RebuiltIsTrained
<1> QED
    BY Invariance, <1>1, PTL

(* Between two writes, and when no rebuild is under way, an HNSW index and *)
(* the storage engine hold the same documents, but for those that failed   *)
(* storage calls and Load leave behind.                                    *)
THEOREM IndexMatchesStoreCorrect == Spec => []IndexMatchesStore
<1>1. ASSUME Inv PROVE IndexMatchesStore
    <2> SUFFICES ASSUME todo = <<>>, mutex = NoOne, kind = "hnsw"
                 PROVE  /\ \A e \in index :
                              /\ e.node \in DOMAIN idMap /\ idMap[e.node] = e.owner
                              /\ e.owner \notin stale =>
                                     e.owner \in Present /\ Fits(e.vec, stored[e.owner].doc)
                        /\ \A id \in Present \ stale :
                              stored[id].doc \in BareDocs \/ \E e \in index : e.owner = id
        BY DEF IndexMatchesStore, Settled, Fits
    <2>1. \A s \in Searchers : pc[s] \notin Rebuilding
        BY <1>1, NamesAssumption DEF Inv, Locked
    <2>2. \A id : ~Awaits(id) /\ ~Unvisited(id)
        BY <2>1 DEF Awaits, Unvisited, Rebuilding
    <2>3. IndexAligned /\ IndexSound /\ IndexFull
        BY <1>1 DEF Inv, IndexInv
    <2>4. \A e \in index : e.node \in DOMAIN idMap /\ idMap[e.node] = e.owner
        BY <2>1, <2>3 DEF IndexAligned, Rebuilding
    <2>5. \A e \in index : e.owner \notin stale =>
              e.owner \in Present /\ Fits(e.vec, stored[e.owner].doc)
        BY <2>2, <2>3 DEF IndexSound, Fresh
    <2>6. \A id \in Present \ stale : stored[id].doc \in BareDocs \/ \E e \in index : e.owner = id
        BY <2>2, <2>3 DEF IndexFull, Fresh
    <2> QED
        BY <2>4, <2>5, <2>6
<1> QED
    BY Invariance, <1>1, PTL

(* A search that met no rebuild gives every hit the id of the document     *)
(* that was hit, and no deleted document is among its results.             *)
THEOREM LoneSearchNamesRightCorrect == Spec => []LoneSearchNamesRight
<1>1. ASSUME Inv PROVE LoneSearchNamesRight
    <2> SUFFICES ASSUME kind = "hnsw", NEW s \in Searchers \ overlapped, NEW r \in results[s]
                 PROVE  r.id = r.owner /\ (r.id \in Present \/ r.id \in stale)
        BY DEF LoneSearchNamesRight
    <2>1. LoneSearches
        BY <1>1 DEF Inv, IndexInv
    <2> QED
        BY <2>1 DEF LoneSearches, Known
<1> QED
    BY Invariance, <1>1, PTL

(* No node number is given to a second document before a rebuild or a      *)
(* restart begins to count anew.                                           *)
THEOREM NoNodeReusedCorrect == Spec => NoNodeReused
<1> DEFINE Same(n) == idMap'[n] \in {idMap[n], NoId}
           Reused == \A n \in DOMAIN idMap \cap DOMAIN idMap' : Same(n)
<1>1. ASSUME Inv, [Next]_vars, ~Restart PROVE Reused \/ UNCHANGED vars
    <2> SUFFICES ASSUME NEW n \in DOMAIN idMap, n \in DOMAIN idMap', Next PROVE Same(n)
        BY <1>1
    <2>1. /\ idMap \in Seq(Ids \cup {NoId}) /\ slot \in [Ids -> Nat]
          /\ todo \in Seq([id : Ids, vec : Docs \cup {Empty}]) /\ pending \in Seq(Ids)
        BY <1>1 DEF Inv, TypeOK
    <2>2. CASE idMap' = idMap
        BY <2>2
    <2>3. CASE IndexOne
        <3> DEFINE Item == [id : Ids, vec : Docs \cup {Empty}]
        <3>1. Head(todo) \in Item
            <4>1. todo \in Seq(Item) /\ todo # <<>>
                BY <2>1, <2>3 DEF IndexOne
            <4> HIDE DEF Item
            <4> QED
                BY <4>1, TailFacts
        <3>2. PICK id \in Ids : id = Head(todo).id
            BY <3>1
        <3>3. CASE slot[id] # 0
            <4>1. idMap' = [idMap EXCEPT ![slot[id]] = id]
                BY <2>3, <3>2, <3>3 DEF IndexOne
            <4>2. slot[id] \in DOMAIN idMap /\ idMap[slot[id]] = id
                BY <1>1, <3>3 DEF Inv, MapsAgree
            <4> QED
                BY <2>1, <4>1, <4>2
        <3>4. CASE slot[id] = 0
            <4>1. idMap' = Append(idMap, id) /\ id \in Ids \cup {NoId}
                BY <2>3, <3>2, <3>4 DEF IndexOne
            <4> QED
                BY <2>1, <4>1, AppendFacts
        <3> QED
            BY <3>3, <3>4
    <2>4. ASSUME NEW ids \in SUBSET Ids, Deletes(ids) PROVE Same(n)
        BY <2>4 DEF Deletes
    <2>5. ASSUME NEW s \in Searchers, RebuildMap(s) PROVE Same(n)
        <3>1. idMap' = Append(idMap, Head(pending)) /\ pending # <<>>
            BY <1>1, <2>5 DEF RebuildMap, Inv, PendingIsNew
        <3>2. Head(pending) \in Ids \cup {NoId}
            BY <2>1, <3>1
        <3> QED
            BY <2>1, <3>1, <3>2, AppendFacts
    <2>6. ASSUME NEW s \in Searchers, ClearMaps(s) PROVE Same(n)
        BY <2>6 DEF ClearMaps
    <2>7. ASSUME NEW b \in Batch, Insert(b) \/ InsertFails(b) PROVE idMap' = idMap
        BY <2>7 DEF Insert, InsertFails, maps
    <2>8. ASSUME NEW ids \in SUBSET Ids, DeletesFails(ids) PROVE idMap' = idMap
        BY <2>8 DEF DeletesFails, maps
    <2>9. ASSUME Save \/ Load \/ SetBatchEmbeddingFunc \/ Close PROVE idMap' = idMap
        BY <2>9 DEF Save, Load, SetBatchEmbeddingFunc, Close, maps
    <2>10. ASSUME NEW s \in Searchers,
                  \/ Search(s) \/ SkipTraining(s) \/ TrainOnly(s) \/ Train(s)
                  \/ SwapIndex(s) \/ RebuildInsert(s) \/ RebuildDone(s)
                  \/ Query(s) \/ NameHit(s) \/ Return(s)
           PROVE  idMap' = idMap
        BY <2>10 DEF Search, SkipTraining, TrainOnly, Train, SwapIndex, RebuildInsert,
                     RebuildDone, Query, NameHit, Return, maps
    <2> QED
        BY <1>1, <2>2, <2>3, <2>4, <2>5, <2>6, <2>7, <2>8, <2>9, <2>10 DEF Next
<1>2. ASSUME Inv, [Next]_vars PROVE [Restart \/ Reused]_vars
    BY <1>1, <1>2
<1> QED
    BY Invariance, <1>2, PTL DEF Spec, NoNodeReused

-----------------------------------------------------------------------------
(* Automatic saving.  The fairness of its specification is not used: these *)
(* are safety properties.                                                  *)

(* A timer ticks only once its goroutine has made it, and a goroutine that *)
(* has made one leaves db.autoSaveTimer set.                               *)
TimersAreMade ==
    \A l \in Loops :
        /\ loop[l] \in {"unborn", "start"} =>
              l \notin running /\ l \notin due /\ autoSaveTimer # l
        /\ loop[l] \notin {"unborn", "start"} => autoSaveTimer # Nil

(* The channel of a goroutine is closed at most once, by the disable that  *)
(* also clears the field; so the field never holds a closed channel.       *)
DoneIsOpen ==
    /\ \A l \in Loops : loop[l] = "unborn" => l \notin doneClosed
    /\ autoSaveDone # Nil => loop[autoSaveDone] # "unborn"
    /\ autoSave => ~dbClosed /\ autoSaveDone \notin doneClosed

(* db.mu is held across a save, and only there.                            *)
SavesAreLocked ==
    /\ target # "none" => owner # Nil
    /\ \A l \in Loops : owner = l => loop[l] = "saving"

(* Why some goroutine is always awake: one that waits for a running timer  *)
(* does not wait on a closed channel, and one about to wait finds a timer  *)
(* that runs.                                                              *)
OnItsWay(l) ==
    \/ loop[l] \in {"start", "tick", "saving", "reset"}
    \/ loop[l] = "select" /\ autoSaveTimer \in running \cup due
    \/ /\ loop[l] = "waiting"
       /\ waitsOn[l].timer \in running \cup due
       /\ waitsOn[l].done \notin doneClosed
SomeOnItsWay == autoSave => \E l \in Loops : OnItsWay(l)

AutoSaveInv ==
    /\ AutoSaveTypeOK
    /\ TimersAreMade
    /\ DoneIsOpen
    /\ SavesAreLocked
    /\ SomeOnItsWay
    /\ CleanMeansSaved

-----------------------------------------------------------------------------
LEMMA AutoSaveNumbers == Nil \notin Loops /\ Caller \notin Loops /\ Caller # Nil
BY MaxLoopsAssumption DEF Nil, Caller, Loops

LEMMA AutoSaveInvInit == AutoSaveInit => AutoSaveInv
<1> SUFFICES ASSUME AutoSaveInit PROVE AutoSaveInv
    OBVIOUS
<1> USE AutoSaveNumbers DEF AutoSaveInit
<1>1. AutoSaveTypeOK
    BY DEF AutoSaveTypeOK
<1>2. TimersAreMade
    BY DEF TimersAreMade
<1>3. DoneIsOpen
    BY DEF DoneIsOpen
<1>4. SavesAreLocked
    BY DEF SavesAreLocked
<1>5. SomeOnItsWay
    BY DEF SomeOnItsWay
<1>6. CleanMeansSaved
    BY DEF CleanMeansSaved
<1> QED
    BY <1>1, <1>2, <1>3, <1>4, <1>5, <1>6 DEF AutoSaveInv

LEMMA EnableAutoSaveKeeps == ASSUME AutoSaveInv, EnableAutoSave PROVE AutoSaveInv'
<1> USE AutoSaveNumbers DEF AutoSaveInv, EnableAutoSave, flags, fields, timers, saving
<1>1. AutoSaveTypeOK'
    BY DEF AutoSaveTypeOK, TimersAreMade, DoneIsOpen, SavesAreLocked
<1>2. TimersAreMade'
    BY DEF AutoSaveTypeOK, TimersAreMade
<1>3. DoneIsOpen'
    BY DEF AutoSaveTypeOK, DoneIsOpen
<1>4. SavesAreLocked'
    BY DEF AutoSaveTypeOK, SavesAreLocked
<1>5. SomeOnItsWay'
    BY DEF AutoSaveTypeOK, SomeOnItsWay, OnItsWay
<1>6. CleanMeansSaved'
    BY DEF AutoSaveTypeOK, CleanMeansSaved
<1> QED
    BY <1>1, <1>2, <1>3, <1>4, <1>5, <1>6

LEMMA DisableAutoSaveKeeps == ASSUME AutoSaveInv, DisableAutoSave PROVE AutoSaveInv'
<1> USE AutoSaveNumbers DEF AutoSaveInv, DisableAutoSave, disableAutoSave, flags, fields,
        timers, saving
<1>1. AutoSaveTypeOK'
    BY DEF AutoSaveTypeOK, TimersAreMade, DoneIsOpen, SavesAreLocked
<1>2. TimersAreMade'
    BY DEF AutoSaveTypeOK, TimersAreMade
<1>3. DoneIsOpen'
    BY DEF AutoSaveTypeOK, DoneIsOpen
<1>4. SavesAreLocked'
    BY DEF AutoSaveTypeOK, SavesAreLocked
<1>5. SomeOnItsWay'
    BY DEF AutoSaveTypeOK, SomeOnItsWay, OnItsWay
<1>6. CleanMeansSaved'
    BY DEF AutoSaveTypeOK, CleanMeansSaved
<1> QED
    BY <1>1, <1>2, <1>3, <1>4, <1>5, <1>6

LEMMA CloseDBKeeps == ASSUME AutoSaveInv, CloseDB PROVE AutoSaveInv'
<1> USE AutoSaveNumbers DEF AutoSaveInv, CloseDB, disableAutoSave, BeginSave, flags,
        fields, timers, saving
<1>1. AutoSaveTypeOK'
    <2>1. /\ autoSave' \in BOOLEAN /\ autoSaveTimer' = autoSaveTimer
          /\ autoSaveDone' \in Loops \cup {Nil}
          /\ running' \subseteq running /\ due' \subseteq due /\ doneClosed' \in SUBSET Loops
        <3>1. CASE autoSave
            BY <3>1 DEF AutoSaveTypeOK
        <3>2. CASE ~autoSave
            BY <3>2 DEF AutoSaveTypeOK
        <3> QED
            BY <3>1, <3>2
    <2>2. /\ owner' \in {Nil, Caller} /\ call' \in {"none", "Save", "ForceSave", "Close"}
          /\ target' \in {"none", "auto", "other"} /\ file' \in {"absent", "torn", "whole"}
        <3>1. CASE dirty
            BY <3>1 DEF AutoSaveTypeOK
        <3>2. CASE ~dirty
            BY <3>2 DEF AutoSaveTypeOK
        <3> QED
            BY <3>1, <3>2
    <2>3. dbClosed' = TRUE /\ dirty' = dirty /\ loop' = loop /\ waitsOn' = waitsOn /\ unsaved' = unsaved
        OBVIOUS
    <2>4. AutoSaveTypeOK
        OBVIOUS
    <2> HIDE DEF AutoSaveInv, CloseDB
    <2> QED
        BY <2>1, <2>2, <2>3, <2>4 DEF AutoSaveTypeOK
<1>2. TimersAreMade'
    BY DEF AutoSaveTypeOK, TimersAreMade
<1>3. DoneIsOpen'
    BY DEF AutoSaveTypeOK, DoneIsOpen
<1>4. SavesAreLocked'
    BY DEF AutoSaveTypeOK, SavesAreLocked
<1>5. SomeOnItsWay'
    BY DEF AutoSaveTypeOK, SomeOnItsWay, OnItsWay
<1>6. CleanMeansSaved'
    BY DEF AutoSaveTypeOK, CleanMeansSaved
<1> QED
    BY <1>1, <1>2, <1>3, <1>4, <1>5, <1>6

LEMMA WriteKeeps == ASSUME NEW op \in {"Insert", "Delete"}, AutoSaveInv, Write(op) PROVE AutoSaveInv'
<1> USE AutoSaveNumbers DEF AutoSaveInv, Write, flags, fields, timers, saving
<1>1. AutoSaveTypeOK'
    BY DEF AutoSaveTypeOK, TimersAreMade, DoneIsOpen, SavesAreLocked
<1>2. TimersAreMade'
    BY DEF AutoSaveTypeOK, TimersAreMade
<1>3. DoneIsOpen'
    BY DEF AutoSaveTypeOK, DoneIsOpen
<1>4. SavesAreLocked'
    BY DEF AutoSaveTypeOK, SavesAreLocked
<1>5. SomeOnItsWay'
    BY DEF AutoSaveTypeOK, SomeOnItsWay, OnItsWay
<1>6. CleanMeansSaved'
    BY DEF AutoSaveTypeOK, CleanMeansSaved
<1> QED
    BY <1>1, <1>2, <1>3, <1>4, <1>5, <1>6

LEMMA CallSaveKeeps == ASSUME NEW c \in {"Save", "ForceSave"}, NEW path \in {"auto", "other"},
           AutoSaveInv, CallSave(c, path) PROVE AutoSaveInv'
<1> USE AutoSaveNumbers DEF AutoSaveInv, CallSave, BeginSave, flags, fields, timers, saving
<1>1. AutoSaveTypeOK'
    BY DEF AutoSaveTypeOK, TimersAreMade, DoneIsOpen, SavesAreLocked
<1>2. TimersAreMade'
    BY DEF AutoSaveTypeOK, TimersAreMade
<1>3. DoneIsOpen'
    BY DEF AutoSaveTypeOK, DoneIsOpen
<1>4. SavesAreLocked'
    BY DEF AutoSaveTypeOK, SavesAreLocked
<1>5. SomeOnItsWay'
    BY DEF AutoSaveTypeOK, SomeOnItsWay, OnItsWay
<1>6. CleanMeansSaved'
    BY DEF AutoSaveTypeOK, CleanMeansSaved
<1> QED
    BY <1>1, <1>2, <1>3, <1>4, <1>5, <1>6

LEMMA SavedKeeps == ASSUME AutoSaveInv, Saved PROVE AutoSaveInv'
<1> USE AutoSaveNumbers DEF AutoSaveInv, Saved, Release, flags, fields, timers, saving
<1>1. AutoSaveTypeOK'
    BY DEF AutoSaveTypeOK, TimersAreMade, DoneIsOpen, SavesAreLocked
<1>2. TimersAreMade'
    BY DEF AutoSaveTypeOK, TimersAreMade, SavesAreLocked
<1>3. DoneIsOpen'
    BY DEF AutoSaveTypeOK, DoneIsOpen
<1>4. SavesAreLocked'
    BY DEF AutoSaveTypeOK, SavesAreLocked
<1>5. SomeOnItsWay'
    BY DEF AutoSaveTypeOK, SomeOnItsWay, OnItsWay
<1>6. CleanMeansSaved'
    BY DEF AutoSaveTypeOK, CleanMeansSaved
<1> QED
    BY <1>1, <1>2, <1>3, <1>4, <1>5, <1>6

LEMMA SaveFailsKeeps == ASSUME AutoSaveInv, SaveFails PROVE AutoSaveInv'
<1> USE AutoSaveNumbers DEF AutoSaveInv, SaveFails, Release, flags, fields, timers, saving
<1>1. AutoSaveTypeOK'
    BY DEF AutoSaveTypeOK, TimersAreMade, DoneIsOpen, SavesAreLocked
<1>2. TimersAreMade'
    BY DEF AutoSaveTypeOK, TimersAreMade, SavesAreLocked
<1>3. DoneIsOpen'
    BY DEF AutoSaveTypeOK, DoneIsOpen
<1>4. SavesAreLocked'
    BY DEF AutoSaveTypeOK, SavesAreLocked
<1>5. SomeOnItsWay'
    BY DEF AutoSaveTypeOK, SomeOnItsWay, OnItsWay
<1>6. CleanMeansSaved'
    BY DEF AutoSaveTypeOK, CleanMeansSaved
<1> QED
    BY <1>1, <1>2, <1>3, <1>4, <1>5, <1>6

LEMMA LoopStartKeeps == ASSUME NEW l \in Loops, AutoSaveInv, LoopStart(l) PROVE AutoSaveInv'
<1> USE AutoSaveNumbers DEF AutoSaveInv, LoopStart, flags, fields, timers, saving
<1>1. AutoSaveTypeOK'
    BY DEF AutoSaveTypeOK, TimersAreMade, DoneIsOpen, SavesAreLocked
<1>2. TimersAreMade'
    BY DEF AutoSaveTypeOK, TimersAreMade
<1>3. DoneIsOpen'
    BY DEF AutoSaveTypeOK, DoneIsOpen
<1>4. SavesAreLocked'
    BY DEF AutoSaveTypeOK, SavesAreLocked
<1>5. SomeOnItsWay'
    BY DEF AutoSaveTypeOK, SomeOnItsWay, OnItsWay
<1>6. CleanMeansSaved'
    BY DEF AutoSaveTypeOK, CleanMeansSaved
<1> QED
    BY <1>1, <1>2, <1>3, <1>4, <1>5, <1>6

LEMMA LoopSelectKeeps == ASSUME NEW l \in Loops, AutoSaveInv, LoopSelect(l) PROVE AutoSaveInv'
<1> USE AutoSaveNumbers DEF AutoSaveInv, LoopSelect, flags, fields, timers, saving
<1>1. AutoSaveTypeOK'
    BY DEF AutoSaveTypeOK, TimersAreMade, DoneIsOpen, SavesAreLocked
<1>2. TimersAreMade'
    BY DEF AutoSaveTypeOK, TimersAreMade
<1>3. DoneIsOpen'
    BY DEF AutoSaveTypeOK, DoneIsOpen
<1>4. SavesAreLocked'
    BY DEF AutoSaveTypeOK, SavesAreLocked
<1>5. SomeOnItsWay'
    BY DEF AutoSaveTypeOK, DoneIsOpen, SomeOnItsWay, OnItsWay
<1>6. CleanMeansSaved'
    BY DEF AutoSaveTypeOK, CleanMeansSaved
<1> QED
    BY <1>1, <1>2, <1>3, <1>4, <1>5, <1>6

LEMMA LoopDoneKeeps == ASSUME NEW l \in Loops, AutoSaveInv, LoopDone(l) PROVE AutoSaveInv'
<1> USE AutoSaveNumbers DEF AutoSaveInv, LoopDone, flags, fields, timers, saving
<1>1. AutoSaveTypeOK'
    BY DEF AutoSaveTypeOK, TimersAreMade, DoneIsOpen, SavesAreLocked
<1>2. TimersAreMade'
    BY DEF AutoSaveTypeOK, TimersAreMade
<1>3. DoneIsOpen'
    BY DEF AutoSaveTypeOK, DoneIsOpen
<1>4. SavesAreLocked'
    BY DEF AutoSaveTypeOK, SavesAreLocked
<1>5. SomeOnItsWay'
    BY DEF AutoSaveTypeOK, SomeOnItsWay, OnItsWay
<1>6. CleanMeansSaved'
    BY DEF AutoSaveTypeOK, CleanMeansSaved
<1> QED
    BY <1>1, <1>2, <1>3, <1>4, <1>5, <1>6

LEMMA LoopTickKeeps == ASSUME NEW l \in Loops, AutoSaveInv, LoopTick(l) PROVE AutoSaveInv'
<1> USE AutoSaveNumbers DEF AutoSaveInv, LoopTick, flags, fields, timers, saving
<1>1. AutoSaveTypeOK'
    BY DEF AutoSaveTypeOK, TimersAreMade, DoneIsOpen, SavesAreLocked
<1>2. TimersAreMade'
    BY DEF AutoSaveTypeOK, TimersAreMade
<1>3. DoneIsOpen'
    BY DEF AutoSaveTypeOK, DoneIsOpen
<1>4. SavesAreLocked'
    BY DEF AutoSaveTypeOK, SavesAreLocked
<1>5. SomeOnItsWay'
    BY DEF AutoSaveTypeOK, SomeOnItsWay, OnItsWay
<1>6. CleanMeansSaved'
    BY DEF AutoSaveTypeOK, CleanMeansSaved
<1> QED
    BY <1>1, <1>2, <1>3, <1>4, <1>5, <1>6

LEMMA LoopResetKeeps == ASSUME NEW l \in Loops, AutoSaveInv, LoopReset(l) PROVE AutoSaveInv'
<1> USE AutoSaveNumbers DEF AutoSaveInv, LoopReset, flags, fields, timers, saving
<1>1. AutoSaveTypeOK'
    BY DEF AutoSaveTypeOK, TimersAreMade, DoneIsOpen, SavesAreLocked
<1>2. TimersAreMade'
    BY DEF AutoSaveTypeOK, TimersAreMade
<1>3. DoneIsOpen'
    BY DEF AutoSaveTypeOK, DoneIsOpen
<1>4. SavesAreLocked'
    BY DEF AutoSaveTypeOK, SavesAreLocked
<1>5. SomeOnItsWay'
    BY DEF AutoSaveTypeOK, SomeOnItsWay, OnItsWay
<1>6. CleanMeansSaved'
    BY DEF AutoSaveTypeOK, CleanMeansSaved
<1> QED
    BY <1>1, <1>2, <1>3, <1>4, <1>5, <1>6

LEMMA LoopLockKeeps == ASSUME NEW l \in Loops, AutoSaveInv, LoopLock(l) PROVE AutoSaveInv'
<1> USE AutoSaveNumbers DEF AutoSaveInv, LoopLock, BeginSave, flags, fields, timers, saving
<1>1. AutoSaveTypeOK'
    BY DEF AutoSaveTypeOK, TimersAreMade, DoneIsOpen, SavesAreLocked
<1>2. TimersAreMade'
    BY DEF AutoSaveTypeOK, TimersAreMade
<1>3. DoneIsOpen'
    BY DEF AutoSaveTypeOK, DoneIsOpen
<1>4. SavesAreLocked'
    BY DEF AutoSaveTypeOK, SavesAreLocked
<1>5. SomeOnItsWay'
    BY DEF AutoSaveTypeOK, DoneIsOpen, SomeOnItsWay, OnItsWay
<1>6. CleanMeansSaved'
    BY DEF AutoSaveTypeOK, CleanMeansSaved
<1> QED
    BY <1>1, <1>2, <1>3, <1>4, <1>5, <1>6

LEMMA FireKeeps == ASSUME NEW l \in Loops, AutoSaveInv, Fire(l) PROVE AutoSaveInv'
<1> USE AutoSaveNumbers DEF AutoSaveInv, Fire, flags, fields, timers, saving
<1>1. AutoSaveTypeOK'
    BY DEF AutoSaveTypeOK, TimersAreMade, DoneIsOpen, SavesAreLocked
<1>2. TimersAreMade'
    BY DEF AutoSaveTypeOK, TimersAreMade
<1>3. DoneIsOpen'
    BY DEF AutoSaveTypeOK, DoneIsOpen
<1>4. SavesAreLocked'
    BY DEF AutoSaveTypeOK, SavesAreLocked
<1>5. SomeOnItsWay'
    BY DEF AutoSaveTypeOK, SomeOnItsWay, OnItsWay
<1>6. CleanMeansSaved'
    BY DEF AutoSaveTypeOK, CleanMeansSaved
<1> QED
    BY <1>1, <1>2, <1>3, <1>4, <1>5, <1>6

LEMMA RestartProcessKeeps == ASSUME AutoSaveInv, RestartProcess PROVE AutoSaveInv'
<1> USE AutoSaveNumbers DEF AutoSaveInv, RestartProcess, flags, fields, timers, saving
<1>1. AutoSaveTypeOK'
    BY DEF AutoSaveTypeOK, TimersAreMade, DoneIsOpen, SavesAreLocked
<1>2. TimersAreMade'
    BY DEF AutoSaveTypeOK, TimersAreMade
<1>3. DoneIsOpen'
    BY DEF AutoSaveTypeOK, DoneIsOpen
<1>4. SavesAreLocked'
    BY DEF AutoSaveTypeOK, SavesAreLocked
<1>5. SomeOnItsWay'
    BY DEF AutoSaveTypeOK, SomeOnItsWay, OnItsWay
<1>6. CleanMeansSaved'
    BY DEF AutoSaveTypeOK, CleanMeansSaved
<1> QED
    BY <1>1, <1>2, <1>3, <1>4, <1>5, <1>6

LEMMA AutoSaveInvNext == AutoSaveInv /\ [AutoSaveNext]_autoSaveVars => AutoSaveInv'
<1> SUFFICES ASSUME AutoSaveInv, [AutoSaveNext]_autoSaveVars PROVE AutoSaveInv'
    OBVIOUS
<1>1. CASE EnableAutoSave \/ DisableAutoSave \/ CloseDB \/ Saved \/ SaveFails \/ RestartProcess
    BY <1>1, EnableAutoSaveKeeps, DisableAutoSaveKeeps, CloseDBKeeps, SavedKeeps,
       SaveFailsKeeps, RestartProcessKeeps
<1>2. CASE \E op \in {"Insert", "Delete"} : Write(op)
    BY <1>2, WriteKeeps
<1>3. CASE \E c \in {"Save", "ForceSave"}, path \in {"auto", "other"} : CallSave(c, path)
    BY <1>3, CallSaveKeeps
<1>4. CASE \E l \in Loops : LoopStep(l) \/ LoopLock(l) \/ Fire(l)
    BY <1>4, LoopStartKeeps, LoopSelectKeeps, LoopDoneKeeps, LoopTickKeeps,
       LoopResetKeeps, LoopLockKeeps, FireKeeps DEF LoopStep
<1>5. CASE UNCHANGED autoSaveVars
    BY <1>5 DEF autoSaveVars, flags, fields, timers, saving, AutoSaveInv, AutoSaveTypeOK,
        TimersAreMade,
       DoneIsOpen, SavesAreLocked, SomeOnItsWay, OnItsWay, CleanMeansSaved
<1> QED
    BY <1>1, <1>2, <1>3, <1>4, <1>5 DEF AutoSaveNext

LEMMA AutoSaveInvariance == AutoSaveSpec => []AutoSaveInv
BY AutoSaveInvInit, AutoSaveInvNext, PTL DEF AutoSaveSpec

-----------------------------------------------------------------------------
(* Every state of AutoSave is well typed; in particular no timer is at the *)
(* same time still to tick and already due.                                *)
THEOREM AutoSaveTypeCorrect == AutoSaveSpec => []AutoSaveTypeOK
<1>1. AutoSaveInv => AutoSaveTypeOK
    BY DEF AutoSaveInv
<1> QED
    BY <1>1, AutoSaveInvariance, PTL

(* However often auto save is enabled and disabled, and whichever of its   *)
(* goroutines are still around, while it is enabled one of them is awake   *)
(* or will be woken by a timer.                                            *)
THEOREM NeverWedgedCorrect == AutoSaveSpec => []NeverWedged
<1>1. AutoSaveInv => NeverWedged
    BY DEF AutoSaveInv, SomeOnItsWay, OnItsWay, NeverWedged, Awake
<1> QED
    BY <1>1, AutoSaveInvariance, PTL

(* A database that is not dirty has every insert made under auto save in a *)
(* completely saved file.                                                  *)
THEOREM CleanMeansSavedCorrect == AutoSaveSpec => []CleanMeansSaved
<1>1. AutoSaveInv => CleanMeansSaved
    BY DEF AutoSaveInv
<1> QED
    BY <1>1, AutoSaveInvariance, PTL

(* Once Close has returned, no goroutine of the process touches the file:  *)
(* those that got a tick before look at closed once they hold db.mu, and a *)
(* save that was under way held db.mu, so that Close had to wait for it.   *)
THEOREM QuietAfterCloseCorrect == AutoSaveSpec => QuietAfterClose
<1> DEFINE Quiet == dbClosed /\ owner = Nil => RestartProcess \/ UNCHANGED file
<1>1. AutoSaveInv /\ [AutoSaveNext]_autoSaveVars => [Quiet]_autoSaveVars
    <2> SUFFICES ASSUME AutoSaveInv, AutoSaveNext, dbClosed, owner = Nil PROVE RestartProcess \/ UNCHANGED file
        OBVIOUS
    <2>1. target = "none"
        BY DEF AutoSaveInv, SavesAreLocked
    <2>2. CASE EnableAutoSave \/ DisableAutoSave \/ CloseDB \/ Saved \/ SaveFails \/ RestartProcess
        BY <2>1, <2>2 DEF EnableAutoSave, DisableAutoSave, CloseDB, Saved, SaveFails
    <2>3. CASE \E op \in {"Insert", "Delete"} : Write(op)
        BY <2>3 DEF Write
    <2>4. CASE \E c \in {"Save", "ForceSave"}, path \in {"auto", "other"} : CallSave(c, path)
        BY <2>4 DEF CallSave
    <2>5. CASE \E l \in Loops : LoopStep(l) \/ LoopLock(l) \/ Fire(l)
        BY <2>5 DEF LoopStep, LoopStart, LoopSelect, LoopDone, LoopTick, LoopReset,
           LoopLock, Fire
    <2> QED
        BY <2>2, <2>3, <2>4, <2>5 DEF AutoSaveNext
<1> QED
    BY <1>1, AutoSaveInvariance, PTL DEF AutoSaveSpec, QuietAfterClose
=============================================================================
