----------------------------- MODULE IVF_proofs -----------------------------
(***************************************************************************)
(* Theorems about IVF, for any documents and searches, any number of       *)
(* clusters, any threshold above it, and any bounds.                       *)
(***************************************************************************)
EXTENDS IVF, SequenceTheorems, TLAPS

(* The id map, with the document that a rebuild is about to append to it.  *)
Full == IF adding = NoName THEN idMap ELSE Append(idMap, adding)
In(doc, seq) == \E q \in DOMAIN seq : seq[q] = doc

IndexType ==
    /\ index \in [vectors : Seq(Docs), ids : Seq(Nat), clustered : Nat]
    /\ Len(index.ids) = Len(index.vectors) /\ index.clustered <= Len(index.vectors)
    /\ trained \in BOOLEAN
    /\ idMap \in Seq(Docs \cup {NoName})
    /\ adding \in Docs \cup {NoName} /\ pending \in SUBSET Docs
    /\ rebuilder \in Searches \cup {NoOne}
    /\ pc \in [Searches -> {"idle", "check", "collect", "train", "mark",
                            "rebuild", "added", "map"}]
    /\ got \in [Searches -> Seq(Docs)]
    /\ rewritten \in BOOLEAN /\ late \in SUBSET Docs /\ lost \in SUBSET Docs
    /\ trainings \in Nat

(* Who rebuilds, and what a training leaves behind for the flag and for    *)
(* the histories.                                                          *)
Phases ==
    /\ rebuilder = NoOne => adding = NoName
    /\ rebuilder # NoOne => /\ pc[rebuilder] \notin {"idle", "check"}
                            /\ pc[rebuilder] = "rebuild" <=> adding = NoName
    /\ \A s \in Searches : pc[s] \in {"rebuild", "added", "map"} => s = rebuilder
    /\ index.clustered > 0 => trained \/ \E s \in Searches : pc[s] = "mark"
    /\ trainings = 0 => lost = {} /\ index.clustered = 0

(* Each document has at most one number, and what a rebuild has still to   *)
(* visit has left no trace.                                                *)
Distinct ==
    /\ \A q, r \in DOMAIN Full : Full[q] = Full[r] => q = r \/ Full[q] = NoName
    /\ rebuilder # NoOne =>
          \A doc \in pending : /\ ~In(doc, Full) /\ ~In(doc, index.vectors)
                               /\ \A s \in Searches : ~In(doc, got[s])

(* While the index may still be trained, the position of a vector is its   *)
(* number; what a search is about to train with is a part of the vectors   *)
(* that leaves out whole documents.                                        *)
MayTrain == ~trained \/ \E s \in Searches : pc[s] \in {"collect", "train"}

Aligned ==
    /\ Len(index.vectors) = Len(Full)
    /\ \A p \in DOMAIN index.vectors : /\ index.ids[p] = p - 1
                                       /\ Full[p] \in {index.vectors[p], NoName}
GotPrefix(s) ==
    /\ Len(got[s]) <= Len(index.vectors)
    /\ \A p \in DOMAIN index.vectors :
          IF p <= Len(got[s]) THEN got[s][p] = index.vectors[p]
                              ELSE ~In(index.vectors[p], got[s])
AlignedWhileOpen ==
    ~rewritten /\ lost = {} /\ MayTrain =>
        /\ Aligned
        /\ \A s \in Searches : pc[s] = "train" => GotPrefix(s)

(* As long as numbers can be trusted, they name the documents, and the     *)
(* clusters have what was there at the training.                           *)
Trusted == ~rewritten /\ (lost = {} \/ trainings <= 1)

NumbersName ==
    \A p \in DOMAIN index.vectors :
        /\ index.ids[p] < Len(Full)
        /\ Full[index.ids[p] + 1] \in {index.vectors[p], NoName}

ClustersHold ==
    \A q \in DOMAIN Full :
        \/ Full[q] \in {NoName} \cup late \cup lost
        \/ \E p \in 1 .. index.clustered : index.vectors[p] = Full[q] /\ index.ids[p] = q - 1

IInv ==
    /\ IndexType
    /\ Phases
    /\ Distinct
    /\ AlignedWhileOpen
    /\ Trusted => NumbersName /\ (index.clustered > 0 => ClustersHold)

-----------------------------------------------------------------------------
LEMMA AppendElement ==
    ASSUME NEW S, NEW seq \in Seq(S), NEW e \in S
    PROVE  /\ Append(seq, e) \in Seq(S) /\ Len(Append(seq, e)) = Len(seq) + 1
           /\ Len(seq) \in Nat /\ DOMAIN seq = 1 .. Len(seq)
           /\ DOMAIN Append(seq, e) = 1 .. Len(seq) + 1
           /\ Append(seq, e)[Len(seq) + 1] = e
           /\ \A q \in DOMAIN seq : q \in DOMAIN Append(seq, e) /\ Append(seq, e)[q] = seq[q]
           /\ \A q \in DOMAIN Append(seq, e) : q \in DOMAIN seq \/ q = Len(seq) + 1
OBVIOUS

LEMMA AddType ==
    ASSUME IndexType, NEW doc \in Docs, NEW id \in Nat
    PROVE  /\ Add(index, id, doc) \in [vectors : Seq(Docs), ids : Seq(Nat), clustered : Nat]
           /\ Add(index, id, doc).vectors = Append(index.vectors, doc)
           /\ Add(index, id, doc).ids = Append(index.ids, id)
           /\ Add(index, id, doc).clustered = index.clustered
           /\ Len(Add(index, id, doc).ids) = Len(Add(index, id, doc).vectors)
           /\ index.clustered <= Len(Add(index, id, doc).vectors)
<1>1. /\ index \in [vectors : Seq(Docs), ids : Seq(Nat), clustered : Nat]
      /\ index.vectors \in Seq(Docs) /\ index.ids \in Seq(Nat) /\ index.clustered \in Nat
      /\ Len(index.ids) = Len(index.vectors) /\ index.clustered <= Len(index.vectors)
    BY DEF IndexType
<1>2. /\ Append(index.vectors, doc) \in Seq(Docs) /\ Append(index.ids, id) \in Seq(Nat)
      /\ Len(Append(index.vectors, doc)) = Len(index.vectors) + 1 /\ Len(index.vectors) \in Nat
      /\ Len(Append(index.ids, id)) = Len(index.ids) + 1
    BY <1>1, AppendElement
<1>3. /\ Add(index, id, doc).vectors = Append(index.vectors, doc)
      /\ Add(index, id, doc).ids = Append(index.ids, id)
      /\ Add(index, id, doc).clustered = index.clustered
    BY <1>1 DEF Add
<1>4. Add(index, id, doc) \in [vectors : Seq(Docs), ids : Seq(Nat), clustered : Nat]
    BY <1>1, <1>2 DEF Add
<1> QED
    BY <1>1, <1>2, <1>3, <1>4

LEMMA FullType ==
    ASSUME IndexType
    PROVE  /\ Full \in Seq(Docs \cup {NoName}) /\ Len(Full) \in Nat /\ DOMAIN Full = 1 .. Len(Full)
           /\ Len(index.vectors) \in Nat /\ index.vectors \in Seq(Docs) /\ index.ids \in Seq(Nat)
           /\ DOMAIN index.vectors = 1 .. Len(index.vectors)
           /\ DOMAIN index.ids = 1 .. Len(index.vectors)
           /\ \A p \in DOMAIN index.vectors : index.vectors[p] \in Docs /\ index.ids[p] \in Nat
           /\ index.clustered \in Nat /\ index.clustered <= Len(index.vectors)
           /\ NoName \notin Docs
<1>1. Append(idMap, adding) \in Seq(Docs \cup {NoName})
    BY DEF IndexType
<1>2. Full \in Seq(Docs \cup {NoName})
    BY <1>1 DEF IndexType, Full
<1> QED
    BY <1>2, IVFAssumption DEF IndexType

LEMMA NumberIs ==
    ASSUME IndexType, NEW doc \in Named
    PROVE  /\ Number(doc) \in Nat /\ Number(doc) + 1 \in DOMAIN idMap
           /\ idMap[Number(doc) + 1] = doc /\ doc # NoName
<1>1. PICK q \in DOMAIN idMap : idMap[q] = doc /\ doc # NoName
    BY DEF Named, Range
<1>2. Len(idMap) \in Nat /\ DOMAIN idMap = 1 .. Len(idMap)
    BY DEF IndexType
<1>3. q - 1 \in 0 .. Len(idMap) - 1 /\ NameOf(q - 1) = doc
    BY <1>1, <1>2 DEF NameOf
<1>4. Number(doc) \in 0 .. Len(idMap) - 1 /\ NameOf(Number(doc)) = doc
    BY <1>3 DEF Number
<1> QED
    BY <1>1, <1>2, <1>4 DEF NameOf

LEMMA IInvInit == Init => IInv
<1> SUFFICES ASSUME Init PROVE IInv
    OBVIOUS
<1>1. index = [vectors |-> <<>>, ids |-> <<>>, clustered |-> 0]
    BY DEF Init, NewIVFIndex
<1>2. IndexType
    <2>1. <<>> \in Seq(Docs) /\ <<>> \in Seq(Nat) /\ <<>> \in Seq(Docs \cup {NoName}) /\ Len(<<>>) = 0
        OBVIOUS
    <2>2. /\ index \in [vectors : Seq(Docs), ids : Seq(Nat), clustered : Nat]
          /\ Len(index.ids) = Len(index.vectors) /\ index.clustered <= Len(index.vectors)
        BY <1>1, <2>1
    <2>3. /\ pc \in [Searches -> {"idle", "check", "collect", "train", "mark",
                                  "rebuild", "added", "map"}]
          /\ got \in [Searches -> Seq(Docs)]
        BY <2>1 DEF Init
    <2>4. trained \in BOOLEAN /\ rewritten \in BOOLEAN /\ trainings \in Nat
        BY DEF Init
    <2>5. /\ idMap \in Seq(Docs \cup {NoName}) /\ adding \in Docs \cup {NoName}
          /\ pending \in SUBSET Docs /\ late \in SUBSET Docs /\ lost \in SUBSET Docs
          /\ rebuilder \in Searches \cup {NoOne}
        BY <2>1 DEF Init
    <2> QED
        BY <2>2, <2>3, <2>4, <2>5 DEF IndexType
<1>3. Phases
    BY <1>1, IVFAssumption DEF Init, Phases
<1>4. Full = <<>>
    BY DEF Init, Full
<1>5. Distinct
    BY <1>4 DEF Init, Distinct
<1>6. AlignedWhileOpen
    BY <1>1, <1>4 DEF Init, AlignedWhileOpen, Aligned
<1>7. NumbersName /\ ~(index.clustered > 0)
    BY <1>1 DEF NumbersName
<1> QED
    BY <1>2, <1>3, <1>5, <1>6, <1>7 DEF IInv

-----------------------------------------------------------------------------
(* Steps of a search that leave the index and the id map alone.            *)

LEMMA SearchStepKeeps ==
    ASSUME IInv, IndexType', Phases', UNCHANGED <<index, idMap, adding, pending, history>>,
           rebuilder' \in {rebuilder, NoOne}, MayTrain' => MayTrain,
           \A s \in Searches :
               /\ got'[s] \in {got[s], <<>>, index.vectors}
               /\ pc'[s] = "train" => \/ pc[s] = "train" /\ got'[s] = got[s]
                                      \/ got'[s] = index.vectors
    PROVE  IInv'
<1> USE DEF IInv
<1>1. Full' = Full /\ UNCHANGED <<index, rewritten, late, lost, trainings>>
    BY DEF Full, history
<1>2. Distinct'
    <2>1. SUFFICES ASSUME rebuilder' # NoOne, NEW doc \in pending
                   PROVE  /\ ~In(doc, Full) /\ ~In(doc, index.vectors)
                          /\ \A s \in Searches : ~In(doc, got'[s])
        BY <1>1 DEF Distinct, In
    <2>2. /\ ~In(doc, Full) /\ ~In(doc, index.vectors)
          /\ \A s \in Searches : ~In(doc, got[s])
        BY <2>1 DEF Distinct
    <2> QED
        BY <2>2 DEF In
<1>3. AlignedWhileOpen'
    <2>1. SUFFICES ASSUME ~rewritten, lost = {}, MayTrain
                   PROVE  Aligned' /\ \A s \in Searches : pc'[s] = "train" => GotPrefix(s)'
        BY <1>1 DEF AlignedWhileOpen
    <2>2. Aligned /\ \A s \in Searches : pc[s] = "train" => GotPrefix(s)
        BY <2>1 DEF AlignedWhileOpen
    <2>3. ASSUME NEW s \in Searches, got'[s] = index.vectors PROVE GotPrefix(s)'
        BY <1>1, <2>3, FullType DEF GotPrefix
    <2> QED
        BY <1>1, <2>2, <2>3 DEF Aligned, GotPrefix
<1> QED
    BY <1>1, <1>2, <1>3 DEF Trusted, NumbersName, ClustersHold

LEMMA SearchStepsKeep ==
    ASSUME IInv, NEW s \in Searches,
           \/ SearchBegin(s) \/ Check(s) \/ GetAllVectors(s) \/ TrainFails(s)
           \/ MarkTrained(s) \/ RebuildCheck(s) \/ RebuildDone(s)
    PROVE  IInv'
<1> USE DEF IInv, database, history
<1>1. /\ UNCHANGED <<index, idMap, adding, pending, rewritten, late, lost, trainings>>
      /\ \A r \in Searches \ {s} : pc'[r] = pc[r] /\ got'[r] = got[r]
    BY DEF SearchBegin, Check, GetAllVectors, TrainFails, MarkTrained, RebuildCheck, RebuildDone,
           IndexType
<1>2. index.vectors \in Seq(Docs) /\ <<>> \in Seq(Docs)
    BY DEF IndexType
<1>3. CASE SearchBegin(s) \/ Check(s) \/ RebuildCheck(s)
    <2>1. UNCHANGED <<trained, got, rebuilder>>
        BY <1>3 DEF SearchBegin, Check, RebuildCheck
    <2>2. IndexType'
        BY <1>1, <1>3, <2>1 DEF SearchBegin, Check, RebuildCheck, IndexType
    <2>3. Phases'
        BY <1>1, <1>3, <2>1, IVFAssumption DEF SearchBegin, Check, RebuildCheck, IndexType, Phases
    <2>4. pc'[s] # "train" /\ (pc'[s] = "collect" => ~trained)
        BY <1>3 DEF SearchBegin, Check, RebuildCheck, IndexType
    <2> QED
        BY <1>1, <2>1, <2>2, <2>3, <2>4, SearchStepKeeps DEF MayTrain
<1>4. CASE GetAllVectors(s)
    <2>1. UNCHANGED <<trained, rebuilder>> /\ pc[s] = "collect" /\ got'[s] = index.vectors
        BY <1>4 DEF GetAllVectors, IndexType
    <2>2. IndexType'
        BY <1>1, <1>2, <1>4, <2>1 DEF GetAllVectors, IndexType, Resume
    <2>3. Phases'
        BY <1>1, <1>4, <2>1, IVFAssumption DEF GetAllVectors, IndexType, Phases, Resume
    <2> QED
        BY <1>1, <2>1, <2>2, <2>3, SearchStepKeeps DEF MayTrain
<1>5. CASE TrainFails(s)
    <2>1. UNCHANGED <<trained, rebuilder>> /\ pc[s] = "train" /\ got'[s] = <<>>
          /\ pc'[s] \in {"map", "idle"}
        BY <1>5 DEF TrainFails, IndexType, Resume
    <2>2. IndexType'
        BY <1>1, <1>2, <1>5, <2>1 DEF TrainFails, IndexType, Resume
    <2>3. Phases'
        BY <1>1, <1>5, <2>1, IVFAssumption DEF TrainFails, IndexType, Phases, Resume
    <2> QED
        BY <1>1, <2>1, <2>2, <2>3, SearchStepKeeps DEF MayTrain
<1>6. CASE MarkTrained(s)
    <2>1. trained' = TRUE /\ UNCHANGED <<got, rebuilder>> /\ pc[s] = "mark"
          /\ pc'[s] \in {"map", "idle"}
        BY <1>6 DEF MarkTrained, IndexType, Resume
    <2>2. IndexType'
        BY <1>1, <1>6, <2>1 DEF MarkTrained, IndexType, Resume
    <2>3. Phases'
        BY <1>1, <1>6, <2>1, IVFAssumption DEF MarkTrained, IndexType, Phases, Resume
    <2> QED
        BY <1>1, <2>1, <2>2, <2>3, SearchStepKeeps DEF MayTrain
<1>7. CASE RebuildDone(s)
    <2>1. UNCHANGED <<trained, got>> /\ rebuilder' = NoOne /\ pc[s] = "rebuild" /\ pc'[s] = "check"
        BY <1>7 DEF RebuildDone, IndexType
    <2>2. IndexType'
        BY <1>1, <1>7, <2>1 DEF RebuildDone, IndexType
    <2>3. Phases'
        BY <1>1, <1>7, <2>1, IVFAssumption DEF RebuildDone, IndexType, Phases
    <2> QED
        BY <1>1, <2>1, <2>2, <2>3, SearchStepKeeps DEF MayTrain
<1> QED
    BY <1>3, <1>4, <1>5, <1>6, <1>7

-----------------------------------------------------------------------------
(* Training.                                                               *)

LEMMA Trained ==
    ASSUME NEW vectors \in Seq(Docs)
    PROVE  /\ Train(vectors) \in [vectors : Seq(Docs), ids : Seq(Nat), clustered : Nat]
           /\ Train(vectors).vectors = vectors /\ Train(vectors).clustered = Len(vectors)
           /\ Len(Train(vectors).ids) = Len(vectors) /\ Len(vectors) \in Nat
           /\ DOMAIN vectors = 1 .. Len(vectors)
           /\ \A p \in DOMAIN vectors : Train(vectors).ids[p] = p - 1
<1>1. DOMAIN vectors = 1 .. Len(vectors) /\ Len(vectors) \in Nat
    OBVIOUS
<1>2. \A p \in DOMAIN vectors : p - 1 \in Nat
    BY <1>1
<1>3. [p \in DOMAIN vectors |-> p - 1] \in Seq(Nat) /\ Len([p \in DOMAIN vectors |-> p - 1]) = Len(vectors)
    BY <1>1, <1>2
<1> QED
    BY <1>1, <1>3 DEF Train

LEMMA TrainWithKeeps == ASSUME IInv, NEW s \in Searches, TrainWith(s) PROVE IInv'
<1> USE DEF IInv, database, history
<1>1. /\ pc[s] = "train" /\ index' = Train(got[s]) /\ got[s] \in Seq(Docs) /\ Len(got[s]) > 0
      /\ lost' = lost \cup (Range(index.vectors) \ Range(got[s])) /\ late' = late \ Range(got[s])
      /\ trainings' = trainings + 1
      /\ got' = [got EXCEPT ![s] = <<>>] /\ pc' = [pc EXCEPT ![s] = "mark"]
      /\ UNCHANGED <<trained, idMap, rebuilder, pending, adding, rewritten>>
    BY IVFAssumption DEF TrainWith, Trainable, IndexType
<1>2. /\ index' \in [vectors : Seq(Docs), ids : Seq(Nat), clustered : Nat]
      /\ index'.vectors = got[s] /\ index'.clustered = Len(got[s]) /\ Len(index'.ids) = Len(got[s])
      /\ DOMAIN got[s] = 1 .. Len(got[s]) /\ Len(got[s]) \in Nat
      /\ \A p \in DOMAIN got[s] : index'.ids[p] = p - 1
    BY <1>1, Trained
<1>3. /\ pc'[s] = "mark" /\ got'[s] = <<>>
      /\ \A r \in Searches \ {s} : pc'[r] = pc[r] /\ got'[r] = got[r]
    BY <1>1 DEF IndexType
<1>4. Full' = Full
    BY <1>1 DEF Full
<1>5. IndexType'
    <2>1. Range(index.vectors) \in SUBSET Docs
        BY DEF IndexType, Range
    <2>2. got' \in [Searches -> Seq(Docs)]
        BY <1>1 DEF IndexType
    <2> QED
        BY <1>1, <1>2, <2>1, <2>2 DEF IndexType
<1>6. Phases'
    BY <1>1, <1>2, <1>3, IVFAssumption DEF Phases, IndexType
<1>7. Distinct'
    <2>1. SUFFICES ASSUME rebuilder # NoOne, NEW doc \in pending
                   PROVE  /\ ~In(doc, Full) /\ ~In(doc, got[s])
                          /\ \A r \in Searches : ~In(doc, got'[r])
        BY <1>1, <1>2, <1>4 DEF Distinct, In
    <2>2. ~In(doc, Full) /\ \A r \in Searches : ~In(doc, got[r])
        BY <2>1 DEF Distinct
    <2> QED
        BY <1>3, <2>2 DEF In
(* If nothing has been lost yet, the search trains with a prefix of the    *)
(* vectors, and loses exactly the documents behind it.                     *)
<1>8. ASSUME ~rewritten, lost = {}
      PROVE  /\ Aligned /\ GotPrefix(s)
             /\ \A r \in Searches : pc[r] = "train" => GotPrefix(r)
    BY <1>1, <1>8 DEF AlignedWhileOpen, MayTrain
<1>9. ASSUME ~rewritten, lost = {}, NEW p \in DOMAIN index.vectors, p > Len(got[s])
      PROVE  index.vectors[p] \in lost'
    <2>1. ~In(index.vectors[p], got[s])
        BY <1>2, <1>8, <1>9, FullType DEF GotPrefix
    <2> QED
        BY <1>1, <2>1 DEF In, Range
<1>10. ASSUME ~rewritten, lost' = {} PROVE lost = {} /\ got[s] = index.vectors
    <2>1. lost = {}
        BY <1>1, <1>10
    <2>2. GotPrefix(s) /\ \A p \in DOMAIN index.vectors : p <= Len(got[s])
        BY <1>2, <1>8, <1>9, <1>10, <2>1, FullType
    <2>3. Len(got[s]) = Len(index.vectors)
        <3>1. Len(index.vectors) = 0 \/ Len(index.vectors) \in DOMAIN index.vectors
            BY FullType
        <3> QED
            BY <1>2, <2>2, <3>1, FullType DEF GotPrefix
    <2> QED
        BY <1>2, <2>1, <2>2, <2>3, FullType DEF GotPrefix
<1>11. AlignedWhileOpen'
    <2>1. SUFFICES ASSUME ~rewritten, lost' = {}
                   PROVE  Aligned' /\ \A r \in Searches : pc'[r] = "train" => GotPrefix(r)'
        BY <1>1 DEF AlignedWhileOpen
    <2>2. Aligned /\ got[s] = index.vectors /\ \A r \in Searches : pc[r] = "train" => GotPrefix(r)
        BY <1>8, <1>10, <2>1
    <2>3. \A r \in Searches : pc'[r] = "train" => r # s
        BY <1>3
    <2>4. index'.vectors = index.vectors /\ DOMAIN index.vectors = 1 .. Len(index.vectors)
        BY <1>2, <2>2
    <2>5. Aligned'
        BY <1>2, <1>4, <2>2, <2>4 DEF Aligned
    <2> QED
        BY <1>3, <2>2, <2>3, <2>4, <2>5 DEF GotPrefix
(* A training can be trusted if nothing was lost before it.                *)
<1>12. ASSUME Trusted' PROVE ~rewritten /\ lost = {}
    <2>1. trainings + 1 <= 1 => lost = {}
        BY DEF IndexType, Phases
    <2> QED
        BY <1>1, <1>12, <2>1 DEF Trusted
<1>13. ASSUME Trusted' PROVE NumbersName' /\ ClustersHold'
    <2>1. Aligned /\ GotPrefix(s)
        BY <1>8, <1>12, <1>13
    <2>2. NumbersName'
        <3>1. SUFFICES ASSUME NEW p \in DOMAIN got[s]
                       PROVE  p - 1 < Len(Full) /\ Full[(p - 1) + 1] \in {got[s][p], NoName}
            BY <1>2, <1>4 DEF NumbersName
        <3>2. p \in DOMAIN index.vectors /\ p <= Len(got[s]) /\ p \in Nat /\ p <= Len(Full)
            BY <1>2, <2>1, FullType DEF GotPrefix, Aligned
        <3>3. got[s][p] = index.vectors[p] /\ Full[p] \in {index.vectors[p], NoName}
            BY <2>1, <3>2 DEF GotPrefix, Aligned
        <3> QED
            BY <3>2, <3>3, FullType
    <2>3. ASSUME NEW q \in DOMAIN Full, Full[q] \notin {NoName} \cup late' \cup lost'
          PROVE  \E p \in 1 .. Len(got[s]) : got[s][p] = Full[q] /\ index'.ids[p] = q - 1
        <3>1. q \in DOMAIN index.vectors /\ index.vectors[q] = Full[q]
            BY <2>1, <2>3, FullType DEF Aligned
        <3>2. q <= Len(got[s])
            BY <1>2, <1>9, <1>12, <1>13, <2>3, <3>1, FullType
        <3> QED
            BY <1>2, <2>1, <3>1, <3>2, FullType DEF GotPrefix
    <2>4. ClustersHold'
        BY <1>2, <1>4, <2>3 DEF ClustersHold
    <2> QED
        BY <2>2, <2>4
<1> QED
    BY <1>5, <1>6, <1>7, <1>11, <1>13

-----------------------------------------------------------------------------
(* The rebuild.                                                            *)

LEMMA RebuildBeginKeeps == ASSUME IInv, NEW s \in Searches, RebuildBegin(s) PROVE IInv'
<1> USE DEF IInv
<1>1. /\ index' = [vectors |-> <<>>, ids |-> <<>>, clustered |-> 0]
      /\ trained' = FALSE /\ idMap' = <<>> /\ adding' = NoName /\ rebuilder' = s
      /\ pc' = [t \in Searches |-> IF t = s THEN "rebuild" ELSE "idle"]
      /\ got' = [t \in Searches |-> <<>>] /\ pending' = Named
      /\ rewritten' = FALSE /\ late' = {} /\ lost' = {} /\ trainings' = 0
    BY DEF RebuildBegin, NewIVFIndex, Phases
<1>2. /\ <<>> \in Seq(Docs) /\ <<>> \in Seq(Nat) /\ <<>> \in Seq(Docs \cup {NoName})
      /\ Len(<<>>) = 0 /\ DOMAIN <<>> = {}
    OBVIOUS
<1>3. IndexType'
    <2>1. /\ index' \in [vectors : Seq(Docs), ids : Seq(Nat), clustered : Nat]
          /\ Len(index'.ids) = Len(index'.vectors) /\ index'.clustered <= Len(index'.vectors)
        BY <1>1, <1>2
    <2>2. Named \in SUBSET Docs
        BY DEF Named, Range, IndexType
    <2>3. /\ pc' \in [Searches -> {"idle", "check", "collect", "train", "mark",
                                   "rebuild", "added", "map"}]
          /\ got' \in [Searches -> Seq(Docs)]
        BY <1>1, <1>2
    <2> QED
        BY <1>1, <1>2, <2>1, <2>2, <2>3 DEF IndexType
<1>4. Phases'
    BY <1>1, IVFAssumption DEF Phases
<1>5. Full' = <<>>
    BY <1>1 DEF Full
<1>6. Distinct'
    BY <1>1, <1>2, <1>5 DEF Distinct, In
<1>7. AlignedWhileOpen'
    BY <1>1, <1>2, <1>5 DEF AlignedWhileOpen, Aligned
<1>8. NumbersName' /\ ~(index'.clustered > 0)
    BY <1>1, <1>2 DEF NumbersName
<1> QED
    BY <1>3, <1>4, <1>6, <1>7, <1>8

(* What both sorts of insertion do to the index: a vector of a document    *)
(* that is not in the id map comes behind the others, under the next       *)
(* number.                                                                 *)
Appends(doc) ==
    /\ Full' = Append(Full, doc)
    /\ index'.vectors = Append(index.vectors, doc)
    /\ index'.ids = Append(index.ids, Len(Full))
    /\ index'.clustered = index.clustered
    /\ late' = IF index.clustered > 0 THEN late \cup {doc} ELSE late
    /\ UNCHANGED <<rewritten, lost, trainings>>

LEMMA Appended ==
    ASSUME IndexType, NEW doc \in Docs, Appends(doc)
    PROVE  /\ Len(Full') = Len(Full) + 1 /\ DOMAIN Full' = 1 .. Len(Full) + 1
           /\ Full'[Len(Full) + 1] = doc /\ \A q \in DOMAIN Full : Full'[q] = Full[q]
           /\ DOMAIN index'.vectors = 1 .. Len(index.vectors) + 1
           /\ Len(index'.vectors) = Len(index.vectors) + 1
           /\ index'.vectors[Len(index.vectors) + 1] = doc
           /\ index'.ids[Len(index.vectors) + 1] = Len(Full)
           /\ \A p \in DOMAIN index.vectors : /\ index'.vectors[p] = index.vectors[p]
                                              /\ index'.ids[p] = index.ids[p]
<1>1. /\ Full \in Seq(Docs \cup {NoName}) /\ Len(Full) \in Nat /\ index.vectors \in Seq(Docs)
      /\ index.ids \in Seq(Nat) /\ Len(index.ids) = Len(index.vectors)
      /\ DOMAIN index.vectors = 1 .. Len(index.vectors) /\ DOMAIN Full = 1 .. Len(Full)
      /\ DOMAIN index.ids = 1 .. Len(index.vectors)
    BY FullType DEF IndexType
<1> QED
    BY <1>1, AppendElement DEF Appends

LEMMA AppendsIsAligned == ASSUME IndexType, NEW doc \in Docs, Appends(doc), Aligned PROVE Aligned'
<1>1. SUFFICES ASSUME NEW p \in 1 .. Len(index.vectors) + 1
               PROVE  /\ index'.ids[p] = p - 1
                      /\ Full'[p] \in {index'.vectors[p], NoName}
    BY Appended, FullType DEF Aligned
<1>2. CASE p = Len(index.vectors) + 1
    BY <1>2, Appended, FullType DEF Aligned
<1>3. CASE p \in DOMAIN index.vectors
    <2>1. p \in DOMAIN Full
        BY <1>3, FullType DEF Aligned
    <2> QED
        BY <1>3, <2>1, Appended DEF Aligned
<1> QED
    BY <1>2, <1>3, FullType

LEMMA AppendsIsNamed ==
    ASSUME IndexType, NEW doc \in Docs, Appends(doc), NumbersName
    PROVE  NumbersName'
<1>1. SUFFICES ASSUME NEW p \in 1 .. Len(index.vectors) + 1
               PROVE  /\ index'.ids[p] < Len(Full) + 1
                      /\ Full'[index'.ids[p] + 1] \in {index'.vectors[p], NoName}
    BY Appended DEF NumbersName
<1>2. CASE p = Len(index.vectors) + 1
    BY <1>2, Appended, FullType
<1>3. CASE p \in DOMAIN index.vectors
    <2>1. index.ids[p] < Len(Full) /\ Full[index.ids[p] + 1] \in {index.vectors[p], NoName}
        BY <1>3 DEF NumbersName
    <2>2. index.ids[p] \in Nat /\ index.ids[p] + 1 \in DOMAIN Full
        BY <1>3, <2>1, FullType
    <2> QED
        <3>1. index'.ids[p] = index.ids[p] /\ index'.vectors[p] = index.vectors[p]
            BY <1>3, Appended
        <3>2. Full'[index.ids[p] + 1] = Full[index.ids[p] + 1]
            BY <2>2, Appended
        <3> QED
            BY <2>1, <2>2, <3>1, <3>2, FullType
<1> QED
    BY <1>2, <1>3, FullType

LEMMA AppendsIsHeld ==
    ASSUME IndexType, NEW doc \in Docs, Appends(doc), index.clustered > 0, ClustersHold
    PROVE  ClustersHold'
<1>1. SUFFICES ASSUME NEW q \in 1 .. Len(Full) + 1, Full'[q] \notin {NoName} \cup late' \cup lost'
               PROVE  \E p \in 1 .. index.clustered :
                          index'.vectors[p] = Full'[q] /\ index'.ids[p] = q - 1
    BY Appended DEF ClustersHold, Appends
<1>2. q \in DOMAIN Full /\ Full'[q] = Full[q]
    BY <1>1, Appended, FullType DEF Appends
<1>3. PICK p \in 1 .. index.clustered : index.vectors[p] = Full[q] /\ index.ids[p] = q - 1
    BY <1>1, <1>2 DEF ClustersHold, Appends
<1>4. p \in DOMAIN index.vectors
    BY FullType
<1> QED
    BY <1>2, <1>3, <1>4, Appended

LEMMA RebuildAddKeeps == ASSUME IInv, NEW s \in Searches, RebuildAdd(s) PROVE IInv'
<1> USE DEF IInv, database, history
<1>1. pc[s] = "rebuild" /\ s = rebuilder /\ rebuilder # NoOne /\ adding = NoName /\ Full = idMap
    BY IVFAssumption DEF RebuildAdd, Phases, Full
<1>2. PICK doc \in pending :
          /\ index' = Add(index, Len(idMap), doc)
          /\ late' = IF index.clustered > 0 THEN late \cup {doc} ELSE late
          /\ adding' = doc /\ pending' = pending \ {doc}
          /\ pc' = [pc EXCEPT ![s] = "added"]
          /\ UNCHANGED <<trained, idMap, got, rebuilder, rewritten, lost, trainings>>
    BY DEF RebuildAdd
<1>3. doc \in Docs /\ doc # NoName /\ Len(idMap) \in Nat
    BY IVFAssumption DEF IndexType
<1>4. Appends(doc)
    BY <1>1, <1>2, <1>3 DEF Appends, Add, Full, IndexType
<1>5. IndexType'
    <2>1. /\ index' \in [vectors : Seq(Docs), ids : Seq(Nat), clustered : Nat]
          /\ Len(index'.ids) = Len(index'.vectors) /\ index'.clustered <= Len(index'.vectors)
        BY <1>2, <1>3, AddType
    <2> QED
        BY <1>2, <1>3, <2>1 DEF IndexType
<1>6. Phases'
    <2>1. pc'[s] = "added" /\ \A r \in Searches \ {s} : pc'[r] = pc[r]
        BY <1>2 DEF IndexType
    <2>2. index'.clustered = index.clustered
        BY <1>4 DEF Appends
    <2> QED
        BY <1>1, <1>2, <1>3, <2>1, <2>2 DEF Phases
<1>7. Distinct'
    <2>1. ~In(doc, Full)
        BY <1>1 DEF Distinct
    <2>2. \A q, r \in DOMAIN Full' : Full'[q] = Full'[r] => q = r \/ Full'[q] = NoName
        <3>1. \A q \in DOMAIN Full' : q \in DOMAIN Full \/ q = Len(Full) + 1
            BY <1>3, <1>4, <1>5, Appended, FullType
        <3> QED
            BY <1>3, <1>4, <2>1, <3>1, Appended DEF Distinct, In
    <2>3. ASSUME NEW other \in pending, other # doc
          PROVE  /\ ~In(other, Full') /\ ~In(other, index'.vectors)
                 /\ \A r \in Searches : ~In(other, got[r])
        <3>1. /\ ~In(other, Full) /\ ~In(other, index.vectors)
              /\ \A r \in Searches : ~In(other, got[r])
            BY <1>1 DEF Distinct
        <3>2. \A q \in 1 .. Len(Full) + 1 : q \in DOMAIN Full \/ q = Len(Full) + 1
            BY FullType
        <3>3. \A p \in 1 .. Len(index.vectors) + 1 :
                  p \in DOMAIN index.vectors \/ p = Len(index.vectors) + 1
            BY FullType
        <3> QED
            BY <1>3, <1>4, <2>3, <3>1, <3>2, <3>3, Appended DEF In
    <2> QED
        BY <1>1, <1>2, <2>2, <2>3 DEF Distinct, In
<1>8. AlignedWhileOpen'
    <2>1. SUFFICES ASSUME ~rewritten, lost = {}, MayTrain
                   PROVE  Aligned' /\ \A r \in Searches : pc'[r] = "train" => GotPrefix(r)'
        BY <1>2 DEF AlignedWhileOpen, MayTrain, IndexType
    <2>2. Aligned /\ \A r \in Searches : pc[r] = "train" => GotPrefix(r)
        BY <2>1 DEF AlignedWhileOpen
    <2>3. \A r \in Searches : pc'[r] = "train" => pc[r] = "train"
        BY <1>2 DEF IndexType
    <2>4. ASSUME NEW r \in Searches, GotPrefix(r) PROVE GotPrefix(r)'
        <3>1. ~In(doc, got[r]) /\ got' = got
            BY <1>1, <1>2 DEF Distinct
        <3>2. Len(got[r]) \in Nat /\ Len(got[r]) <= Len(index.vectors)
            BY <2>4 DEF GotPrefix, IndexType
        <3>3. Len(got[r]) <= Len(index'.vectors)
            BY <1>3, <1>4, <3>2, Appended, FullType
        <3>4. ASSUME NEW p \in 1 .. Len(index.vectors) + 1
              PROVE  IF p <= Len(got[r]) THEN got[r][p] = index'.vectors[p]
                                         ELSE ~In(index'.vectors[p], got[r])
            <4>1. CASE p = Len(index.vectors) + 1
                <5>1. index'.vectors[p] = doc /\ ~(p <= Len(got[r]))
                    BY <1>3, <1>4, <3>2, <4>1, Appended, FullType
                <5> QED
                    BY <3>1, <5>1
            <4>2. CASE p \in DOMAIN index.vectors
                <5>1. index'.vectors[p] = index.vectors[p]
                    BY <1>3, <1>4, <4>2, Appended
                <5>2. IF p <= Len(got[r]) THEN got[r][p] = index.vectors[p]
                                          ELSE ~In(index.vectors[p], got[r])
                    BY <2>4, <4>2 DEF GotPrefix
                <5> QED
                    BY <5>1, <5>2
            <4>3. p = Len(index.vectors) + 1 \/ p \in DOMAIN index.vectors
                BY FullType
            <4> QED
                BY <4>1, <4>2, <4>3
        <3>5. DOMAIN index'.vectors = 1 .. Len(index.vectors) + 1
            BY <1>3, <1>4, Appended
        <3> QED
            BY <3>1, <3>3, <3>4, <3>5 DEF GotPrefix
    <2> QED
        BY <1>3, <1>4, <2>2, <2>3, <2>4, AppendsIsAligned
<1>9. Trusted' => NumbersName' /\ (index'.clustered > 0 => ClustersHold')
    <2>1. index'.clustered = index.clustered /\ (Trusted' => Trusted)
        BY <1>4 DEF Appends, Trusted
    <2>2. NumbersName => NumbersName'
        BY <1>3, <1>4, AppendsIsNamed
    <2>3. index.clustered > 0 /\ ClustersHold => ClustersHold'
        BY <1>3, <1>4, AppendsIsHeld
    <2> QED
        BY <2>1, <2>2, <2>3
<1> QED
    BY <1>5, <1>6, <1>7, <1>8, <1>9

(* The id goes into the map, where Full has it already.                    *)
LEMMA RebuildMapKeeps == ASSUME IInv, NEW s \in Searches, RebuildMap(s) PROVE IInv'
<1> USE DEF IInv, history
<1>1. /\ pc[s] = "map" /\ s = rebuilder /\ rebuilder # NoOne /\ adding # NoName /\ adding \in Docs
      /\ idMap' = Append(idMap, adding) /\ adding' = NoName
      /\ pc' = [pc EXCEPT ![s] = "rebuild"]
      /\ UNCHANGED <<index, trained, got, rebuilder, pending, rewritten, late, lost, trainings>>
    BY IVFAssumption DEF RebuildMap, Phases, IndexType
<1>2. Full' = Full
    BY <1>1 DEF Full
<1>3. pc'[s] = "rebuild" /\ \A r \in Searches \ {s} : pc'[r] = pc[r]
    BY <1>1 DEF IndexType
<1>4. IndexType'
    BY <1>1 DEF IndexType
<1>5. Phases'
    BY <1>1, <1>3 DEF Phases
<1>6. Distinct'
    BY <1>1, <1>2 DEF Distinct, In
<1>7. AlignedWhileOpen'
    BY <1>1, <1>2, <1>3 DEF AlignedWhileOpen, MayTrain, Aligned, GotPrefix, In
<1> QED
    BY <1>1, <1>2, <1>4, <1>5, <1>6, <1>7 DEF Trusted, NumbersName, ClustersHold
-----------------------------------------------------------------------------
(* The writers, which run while no search does.                            *)

LEMMA WhenQuiet ==
    ASSUME IInv, Quiet
    PROVE  /\ rebuilder = NoOne /\ adding = NoName /\ Full = idMap
           /\ index.clustered > 0 => trained
           /\ MayTrain <=> ~trained
    BY IVFAssumption DEF IInv, IndexType, Quiet, Phases, Full, MayTrain

LEMMA DeleteKeeps == ASSUME IInv, NEW doc \in Docs, Delete(doc) PROVE IInv'
<1> USE DEF IInv, database, searches, history
<1>1. /\ idMap' = [idMap EXCEPT ![Number(doc) + 1] = NoName] /\ doc \in Named /\ Quiet
      /\ UNCHANGED <<index, trained, pc, got, rebuilder, pending, adding,
                     rewritten, late, lost, trainings>>
    BY DEF Delete
<1>2. adding = NoName /\ rebuilder = NoOne /\ Full = idMap /\ Full' = idMap'
    BY <1>1, WhenQuiet DEF Full
<1>3. /\ Number(doc) + 1 \in DOMAIN idMap /\ idMap \in Seq(Docs \cup {NoName})
    BY <1>1, NumberIs DEF IndexType
<1>4. /\ idMap' \in Seq(Docs \cup {NoName}) /\ Len(idMap') = Len(idMap)
      /\ DOMAIN idMap' = DOMAIN idMap
    BY <1>1, <1>3
<1>5. \A q \in DOMAIN idMap : idMap'[q] = idMap[q] \/ idMap'[q] = NoName
    BY <1>1, <1>3
<1>6. IndexType'
    BY <1>1, <1>4 DEF IndexType
<1>7. Phases'
    BY <1>1 DEF Phases
<1>8. Distinct'
    BY <1>1, <1>2, <1>4, <1>5 DEF Distinct
<1>9. Aligned => Aligned'
    <2>1. SUFFICES ASSUME Aligned, NEW p \in DOMAIN index.vectors
                   PROVE  index.ids[p] = p - 1 /\ idMap'[p] \in {index.vectors[p], NoName}
        BY <1>1, <1>2, <1>4 DEF Aligned
    <2>2. p \in DOMAIN idMap /\ index.ids[p] = p - 1 /\ idMap[p] \in {index.vectors[p], NoName}
        BY <1>2, <2>1, FullType DEF Aligned
    <2> QED
        BY <1>5, <2>2
<1>10. AlignedWhileOpen'
    <2>1. \A s \in Searches : pc'[s] # "train"
        BY <1>1 DEF Quiet
    <2> QED
        BY <1>1, <1>9, <2>1 DEF AlignedWhileOpen, MayTrain
<1>11. NumbersName => NumbersName'
    <2>1. SUFFICES ASSUME NumbersName, NEW p \in DOMAIN index.vectors
                   PROVE  /\ index.ids[p] < Len(idMap')
                          /\ idMap'[index.ids[p] + 1] \in {index.vectors[p], NoName}
        BY <1>1, <1>2 DEF NumbersName
    <2>2. index.ids[p] < Len(idMap) /\ idMap[index.ids[p] + 1] \in {index.vectors[p], NoName}
        BY <1>2, <2>1 DEF NumbersName
    <2>3. index.ids[p] + 1 \in DOMAIN idMap
        BY <1>2, <2>2, FullType
    <2> QED
        BY <1>4, <1>5, <2>2, <2>3
<1>12. ClustersHold => ClustersHold'
    <2>1. SUFFICES ASSUME ClustersHold, NEW q \in DOMAIN idMap,
                          idMap'[q] \notin {NoName} \cup late \cup lost
                   PROVE  \E p \in 1 .. index.clustered :
                              index.vectors[p] = idMap'[q] /\ index.ids[p] = q - 1
        BY <1>1, <1>2, <1>4 DEF ClustersHold
    <2>2. idMap'[q] = idMap[q]
        BY <1>5, <2>1
    <2> QED
        BY <1>2, <2>1, <2>2 DEF ClustersHold
<1> QED
    BY <1>1, <1>6, <1>7, <1>8, <1>10, <1>11, <1>12 DEF Trusted

(* The three sorts of insertion: the vector of a known document, one that  *)
(* trains the index, and one that does not.                                *)

LEMMA InsertCases ==
    ASSUME IInv, NEW doc \in Docs, Insert(doc)
    PROVE  /\ Quiet /\ UNCHANGED <<pc, got, rebuilder, pending, adding, lost>>
           /\ idMap' = IF doc \in Named THEN idMap ELSE Append(idMap, doc)
           /\ rewritten' = (rewritten \/ (doc \in Named /\ index.clustered = 0))
           /\ \/ /\ index' = Add(index, Number(doc), doc)
                 /\ trained' = trained /\ trainings' = trainings
                 /\ late' = IF index.clustered > 0 THEN late \cup ({doc} \ Named) ELSE late
              \/ /\ index' = Train(Add(index, Number(doc), doc).vectors) /\ ~trained
                 /\ trained' = TRUE /\ trainings' = trainings + 1 /\ late' = {}
<1> DEFINE added == Add(index, Number(doc), doc)
           trains == ~trained /\ Count(added) >= Threshold
<1>1. /\ Quiet
      /\ index' = IF trains THEN Train(added.vectors) ELSE added
      /\ trained' = (trained \/ trains) /\ trainings' = trainings + (IF trains THEN 1 ELSE 0)
      /\ late' = IF trains THEN {} ELSE IF index.clustered > 0 THEN late \cup ({doc} \ Named)
                 ELSE late
      /\ idMap' = IF doc \in Named THEN idMap ELSE Append(idMap, doc)
      /\ rewritten' = (rewritten \/ (doc \in Named /\ index.clustered = 0))
      /\ UNCHANGED <<pc, got, rebuilder, pending, adding, lost>>
    BY DEF Insert, searches
<1>2. trained \in BOOLEAN /\ trainings \in Nat /\ (trains => ~trained)
    BY DEF IInv, IndexType
<1> HIDE DEF added, trains
<1>3. CASE trains
    <2>1. trained' = TRUE /\ trainings' = trainings + 1
        BY <1>1, <1>2, <1>3
    <2>2. index' = Train(added.vectors) /\ late' = {}
        BY <1>1, <1>3
    <2> QED
        BY <1>1, <1>2, <1>3, <2>1, <2>2 DEF added
<1>4. CASE ~trains
    <2>1. trained' = trained /\ trainings' = trainings
        BY <1>1, <1>2, <1>4
    <2>2. index' = added /\ late' = IF index.clustered > 0 THEN late \cup ({doc} \ Named) ELSE late
        BY <1>1, <1>4
    <2> QED
        BY <1>1, <2>1, <2>2 DEF added
<1> QED
    BY <1>3, <1>4

LEMMA InsertType ==
    ASSUME IInv, NEW doc \in Docs, Insert(doc)
    PROVE  /\ IndexType' /\ Phases' /\ UNCHANGED <<pc, got, rebuilder, pending, adding, lost>>
           /\ index'.vectors = Append(index.vectors, doc) /\ Number(doc) \in Nat
           /\ Full' = IF doc \in Named THEN Full ELSE Append(Full, doc)
<1> USE DEF IInv
<1> DEFINE added == Add(index, Number(doc), doc)
<1>1. /\ Quiet /\ UNCHANGED <<pc, got, rebuilder, pending, adding, lost>>
      /\ idMap' = IF doc \in Named THEN idMap ELSE Append(idMap, doc)
      /\ rewritten' = (rewritten \/ (doc \in Named /\ index.clustered = 0))
    BY InsertCases
<1>2. Number(doc) \in Nat
    <2>1. CASE doc \in Named
        BY <2>1, NumberIs
    <2>2. CASE doc \notin Named
        BY <2>2 DEF Number, IndexType
    <2> QED
        BY <2>1, <2>2
<1>3. /\ added \in [vectors : Seq(Docs), ids : Seq(Nat), clustered : Nat]
      /\ added.vectors = Append(index.vectors, doc) /\ added.clustered = index.clustered
      /\ Len(added.ids) = Len(added.vectors) /\ added.clustered <= Len(added.vectors)
    BY <1>2, AddType
<1>4. \/ /\ index' = added /\ trained' = trained /\ trainings' = trainings
         /\ late' = IF index.clustered > 0 THEN late \cup ({doc} \ Named) ELSE late
      \/ /\ index' = Train(added.vectors) /\ trained' = TRUE
         /\ trainings' = trainings + 1 /\ late' = {}
    BY InsertCases
<1> HIDE DEF added
<1>5. /\ Train(added.vectors) \in [vectors : Seq(Docs), ids : Seq(Nat), clustered : Nat]
      /\ Train(added.vectors).vectors = Append(index.vectors, doc)
      /\ Len(Train(added.vectors).ids) = Len(Train(added.vectors).vectors)
      /\ Train(added.vectors).clustered <= Len(Train(added.vectors).vectors)
    <2> DEFINE longer == Append(index.vectors, doc)
    <2>1. longer \in Seq(Docs) /\ Len(longer) \in Nat
        BY AppendElement, FullType
    <2> HIDE DEF longer
    <2>2. /\ Train(longer) \in [vectors : Seq(Docs), ids : Seq(Nat), clustered : Nat]
          /\ Train(longer).vectors = longer /\ Train(longer).clustered = Len(longer)
          /\ Len(Train(longer).ids) = Len(longer)
        BY <2>1, Trained
    <2>3. added.vectors = longer
        BY <1>3 DEF longer
    <2> QED
        BY <2>1, <2>2, <2>3 DEF longer
<1>6. IndexType'
    <2>1. idMap' \in Seq(Docs \cup {NoName}) /\ rewritten' \in BOOLEAN
        BY <1>1 DEF IndexType
    <2>2. trainings' \in Nat /\ trained' \in BOOLEAN
        <3>1. trainings \in Nat /\ trained \in BOOLEAN
            BY DEF IndexType
        <3>2. trainings' = trainings \/ trainings' = trainings + 1
            BY <1>4
        <3>3. trained' = trained \/ trained' = TRUE
            BY <1>4
        <3>4. trainings' \in Nat
            BY <3>1, <3>2
        <3>5. trained' \in BOOLEAN
            BY <3>1, <3>3
        <3> QED
            BY <3>4, <3>5
    <2>4. late' \in SUBSET Docs
        <3>1. late \in SUBSET Docs
            BY DEF IndexType
        <3> QED
            BY <1>4, <3>1
    <2>3. /\ index' \in [vectors : Seq(Docs), ids : Seq(Nat), clustered : Nat]
          /\ Len(index'.ids) = Len(index'.vectors) /\ index'.clustered <= Len(index'.vectors)
        BY <1>3, <1>4, <1>5
    <2> QED
        BY <1>1, <2>1, <2>2, <2>3, <2>4 DEF IndexType
<1>7. Phases'
    <2>1. index'.clustered > 0 => trained'
        BY <1>3, <1>4, WhenQuiet, <1>1
    <2>2. trainings' = 0 => lost' = {} /\ index'.clustered = 0
        <3>1. trainings + 1 # 0
            BY DEF IndexType
        <3> QED
            BY <1>1, <1>3, <1>4, <3>1 DEF Phases
    <2> QED
        BY <1>1, <2>1, <2>2 DEF Phases
<1>8. Full' = IF doc \in Named THEN Full ELSE Append(Full, doc)
    BY <1>1, WhenQuiet DEF Full
<1>9. index'.vectors = Append(index.vectors, doc)
    BY <1>3, <1>4, <1>5
<1> QED
    BY <1>1, <1>2, <1>6, <1>7, <1>8, <1>9

LEMMA InsertKnownKeeps == ASSUME IInv, NEW doc \in Named, doc \in Docs, Insert(doc) PROVE IInv'
<1> USE DEF IInv
<1>1. /\ IndexType' /\ Phases' /\ Full' = Full /\ Number(doc) \in Nat
      /\ UNCHANGED <<pc, got, rebuilder, pending, adding, lost>>
    BY InsertType
<1>2. rebuilder = NoOne /\ Full = idMap
    BY WhenQuiet DEF Insert
<1>3. Distinct'
    BY <1>1, <1>2 DEF Distinct
<1>4. SUFFICES ASSUME ~rewritten'
               PROVE  AlignedWhileOpen' /\ (Trusted' => NumbersName' /\ (index'.clustered > 0 => ClustersHold'))
    BY <1>1, <1>3 DEF AlignedWhileOpen, Trusted
(* The index has been trained, and will not be again.                      *)
<1>5. index.clustered > 0 /\ trained /\ ~MayTrain
    <2>1. index.clustered # 0 /\ Quiet
        BY <1>4, InsertCases
    <2>2. index.clustered > 0
        BY <2>1, FullType
    <2> QED
        BY <2>1, <2>2, WhenQuiet
<1>6. /\ index' = Add(index, Number(doc), doc) /\ late' = late /\ trained' = trained
      /\ ~rewritten /\ trainings' = trainings
    BY <1>4, <1>5, InsertCases
<1>7. AlignedWhileOpen'
    BY <1>1, <1>5, <1>6 DEF AlignedWhileOpen, MayTrain
<1>8. /\ Len(index'.vectors) = Len(index.vectors) + 1 /\ index'.clustered = index.clustered
      /\ index'.vectors[Len(index.vectors) + 1] = doc
      /\ index'.ids[Len(index.vectors) + 1] = Number(doc)
      /\ \A p \in DOMAIN index.vectors : /\ index'.vectors[p] = index.vectors[p]
                                         /\ index'.ids[p] = index.ids[p]
    <2>1. /\ index'.vectors = Append(index.vectors, doc) /\ index'.ids = Append(index.ids, Number(doc))
          /\ index'.clustered = index.clustered
        BY <1>1, <1>6, AddType
    <2>2. Len(index.ids) = Len(index.vectors) /\ DOMAIN index.ids = DOMAIN index.vectors
        BY FullType DEF IndexType
    <2> QED
        BY <1>1, <2>1, <2>2, AppendElement, FullType
<1>9. DOMAIN index'.vectors = 1 .. Len(index.vectors) + 1
    BY <1>1, <1>8 DEF IndexType
<1>10. Trusted' => Trusted
    BY <1>1, <1>6 DEF Trusted
<1>11. NumbersName => NumbersName'
    <2>1. SUFFICES ASSUME NumbersName, NEW p \in 1 .. Len(index.vectors) + 1
                   PROVE  /\ index'.ids[p] < Len(Full)
                          /\ Full[index'.ids[p] + 1] \in {index'.vectors[p], NoName}
        BY <1>1, <1>9 DEF NumbersName
    <2>2. CASE p = Len(index.vectors) + 1
        BY <1>2, <1>8, <2>2, NumberIs, FullType
    <2>3. CASE p \in DOMAIN index.vectors
        BY <1>8, <2>1, <2>3 DEF NumbersName
    <2>4. p = Len(index.vectors) + 1 \/ p \in DOMAIN index.vectors
        BY FullType
    <2> QED
        BY <2>2, <2>3, <2>4
<1>12. ClustersHold => ClustersHold'
    <2>1. \A p \in 1 .. index.clustered : p \in DOMAIN index.vectors
        BY FullType
    <2> QED
        BY <1>1, <1>6, <1>8, <2>1 DEF ClustersHold
<1> QED
    BY <1>5, <1>7, <1>10, <1>11, <1>12

LEMMA InsertNewKeeps == ASSUME IInv, NEW doc \in Docs, doc \notin Named, Insert(doc) PROVE IInv'
<1> USE DEF IInv
<1>1. /\ IndexType' /\ Phases' /\ Full' = Append(Full, doc) /\ Number(doc) = Len(Full)
      /\ UNCHANGED <<pc, got, rebuilder, pending, adding, lost, rewritten>>
      /\ index'.vectors = Append(index.vectors, doc) /\ Number(doc) \in Nat /\ Quiet
    BY InsertType, WhenQuiet DEF Insert, Number, IndexType
<1>2. rebuilder = NoOne /\ Full = idMap /\ ~In(doc, Full) /\ doc # NoName
    BY <1>1, WhenQuiet, IVFAssumption DEF In, Named, Range
<1>3. /\ Len(Full') = Len(Full) + 1 /\ DOMAIN Full' = 1 .. Len(Full) + 1
      /\ Full'[Len(Full) + 1] = doc /\ \A q \in DOMAIN Full : Full'[q] = Full[q]
      /\ \A q \in DOMAIN Full' : q \in DOMAIN Full \/ q = Len(Full) + 1
    <2>1. Full \in Seq(Docs \cup {NoName}) /\ doc \in Docs \cup {NoName}
        BY FullType
    <2> QED
        BY <1>1, <2>1, AppendElement
<1>4. /\ Len(index'.vectors) = Len(index.vectors) + 1
      /\ DOMAIN index'.vectors = 1 .. Len(index.vectors) + 1
      /\ index'.vectors[Len(index.vectors) + 1] = doc
      /\ \A p \in DOMAIN index.vectors : index'.vectors[p] = index.vectors[p]
    BY <1>1, AppendElement, FullType
<1>5. Distinct'
    BY <1>1, <1>2, <1>3 DEF Distinct, In
<1>6. CASE index' = Add(index, Number(doc), doc) /\ UNCHANGED <<trained, trainings>>
           /\ late' = (IF index.clustered > 0 THEN late \cup {doc} ELSE late)
    <2>1. Appends(doc)
        BY <1>1, <1>6, AddType DEF Appends
    <2>2. MayTrain' => MayTrain
        BY <1>1, <1>6 DEF MayTrain
    <2>3. AlignedWhileOpen'
        <3>1. \A s \in Searches : pc'[s] # "train"
            BY <1>1 DEF Quiet
        <3>2. Aligned => Aligned'
            BY <2>1, AppendsIsAligned
        <3> QED
            BY <1>1, <2>2, <3>1, <3>2 DEF AlignedWhileOpen
    <2>4. index'.clustered = index.clustered /\ (Trusted' => Trusted)
        BY <2>1 DEF Appends, Trusted
    <2>5. NumbersName => NumbersName'
        BY <2>1, AppendsIsNamed
    <2>6. index.clustered > 0 /\ ClustersHold => ClustersHold'
        BY <2>1, AppendsIsHeld
    <2> QED
        BY <1>1, <1>5, <2>3, <2>4, <2>5, <2>6
<1>7. CASE /\ index' = Train(Append(index.vectors, doc)) /\ ~trained /\ trained'
           /\ trainings' = trainings + 1
    <2>1. /\ index'.clustered = Len(index.vectors) + 1
          /\ \A p \in 1 .. Len(index.vectors) + 1 : index'.ids[p] = p - 1
        <3>1. /\ Append(index.vectors, doc) \in Seq(Docs)
              /\ Len(Append(index.vectors, doc)) = Len(index.vectors) + 1
              /\ DOMAIN Append(index.vectors, doc) = 1 .. Len(index.vectors) + 1
            BY AppendElement, FullType
        <3> QED
            BY <1>7, <3>1, Trained
    <2>2. AlignedWhileOpen'
        BY <1>1, <1>7 DEF AlignedWhileOpen, MayTrain, Quiet
    <2>3. SUFFICES ASSUME Trusted' PROVE NumbersName' /\ ClustersHold'
        BY <1>1, <1>5, <2>2
    <2>4. ~rewritten /\ lost = {}
        <3>1. trainings + 1 <= 1 => lost = {}
            BY DEF IndexType, Phases
        <3> QED
            BY <1>1, <1>7, <2>3, <3>1 DEF Trusted
    <2>5. Aligned
        BY <1>7, <2>4 DEF AlignedWhileOpen, MayTrain
    <2>6. Len(Full) = Len(index.vectors) /\ DOMAIN Full = DOMAIN index.vectors
        BY <2>5, FullType DEF Aligned
    <2>7. ASSUME NEW p \in 1 .. Len(Full) + 1 PROVE Full'[p] \in {index'.vectors[p], NoName}
        <3>1. CASE p = Len(Full) + 1
            BY <1>3, <1>4, <2>6, <3>1
        <3>2. CASE p \in DOMAIN Full
            BY <1>3, <1>4, <2>5, <2>6, <3>2 DEF Aligned
        <3> QED
            BY <3>1, <3>2, FullType
    <2>8. NumbersName'
        <3>1. SUFFICES ASSUME NEW p \in 1 .. Len(Full) + 1
                       PROVE  p - 1 < Len(Full) + 1 /\ Full'[(p - 1) + 1] \in {index'.vectors[p], NoName}
            BY <1>3, <1>4, <2>1, <2>6 DEF NumbersName
        <3> QED
            BY <2>7, FullType
    <2>9. ClustersHold'
        <3>1. SUFFICES ASSUME NEW q \in 1 .. Len(Full) + 1
                       PROVE  \/ Full'[q] = NoName
                              \/ \E p \in 1 .. index'.clustered :
                                     index'.vectors[p] = Full'[q] /\ index'.ids[p] = q - 1
            BY <1>3 DEF ClustersHold
        <3> QED
            BY <2>1, <2>6, <2>7
    <2> QED
        BY <2>8, <2>9
<1> QED
    <2>1. Add(index, Number(doc), doc).vectors = Append(index.vectors, doc)
        BY <1>1, AddType
    <2> QED
        BY <1>6, <1>7, <2>1, InsertCases

-----------------------------------------------------------------------------
LEMMA IInvNext == IInv /\ [Next]_vars => IInv'
<1> SUFFICES ASSUME IInv, [Next]_vars PROVE IInv'
    OBVIOUS
<1>1. ASSUME NEW doc \in Docs, Insert(doc) PROVE IInv'
    BY <1>1, InsertKnownKeeps, InsertNewKeeps
<1>2. ASSUME NEW doc \in Docs, Delete(doc) PROVE IInv'
    BY <1>2, DeleteKeeps
<1>3. ASSUME NEW s \in Searches,
             \/ SearchBegin(s) \/ Check(s) \/ GetAllVectors(s) \/ TrainFails(s)
             \/ MarkTrained(s) \/ RebuildCheck(s) \/ RebuildDone(s)
      PROVE  IInv'
    BY <1>3, SearchStepsKeep
<1>4. ASSUME NEW s \in Searches, TrainWith(s) PROVE IInv'
    BY <1>4, TrainWithKeeps
<1>5. ASSUME NEW s \in Searches, RebuildBegin(s) PROVE IInv'
    BY <1>5, RebuildBeginKeeps
<1>6. ASSUME NEW s \in Searches, RebuildAdd(s) PROVE IInv'
    BY <1>6, RebuildAddKeeps
<1>7. ASSUME NEW s \in Searches, RebuildMap(s) PROVE IInv'
    BY <1>7, RebuildMapKeeps
<1>8. CASE UNCHANGED vars
    <2>1. /\ UNCHANGED <<index, trained, idMap, pc, got, rebuilder, pending, adding>>
          /\ UNCHANGED <<rewritten, late, lost, trainings>>
        BY <1>8 DEF vars, database, searches, history
    <2>2. IndexType' = IndexType /\ Phases' = Phases /\ Full' = Full
        BY <2>1 DEF IndexType, Phases, Full
    <2>3. Distinct' = Distinct /\ AlignedWhileOpen' = AlignedWhileOpen
        BY <2>1, <2>2 DEF Distinct, In, AlignedWhileOpen, MayTrain, Aligned, GotPrefix
    <2>4. NumbersName' = NumbersName /\ ClustersHold' = ClustersHold
        BY <2>1, <2>2 DEF NumbersName, ClustersHold
    <2> QED
        BY <2>1, <2>2, <2>3, <2>4 DEF IInv, Trusted
<1> QED
    BY <1>1, <1>2, <1>3, <1>4, <1>5, <1>6, <1>7, <1>8 DEF Next

LEMMA IInvCorrect == Spec => []IInv
<1> QED
    BY IInvInit, IInvNext, PTL DEF Spec

-----------------------------------------------------------------------------
(* No training gives a hit the name of another document: not the one that  *)
(* an insertion triggers, not that of a search, and not that of a search   *)
(* that runs beside a rebuild, as long as no document was written again    *)
(* before and no vector dropped twice.                                     *)
THEOREM NamesRightCorrect == Spec => []NamesRight
<1>1. IInv => NamesRight
    <2> SUFFICES ASSUME IInv, Trusted, NEW p \in DOMAIN index.vectors
                 PROVE  /\ NameOf(index.ids[p]) \in {index.vectors[p], NoName}
                        /\ index.ids[p] < Len(idMap) \/ index.vectors[p] = adding
        BY DEF NamesRight, Trusted
    <2>1. /\ index.ids[p] < Len(Full) /\ Full[index.ids[p] + 1] \in {index.vectors[p], NoName}
          /\ index.ids[p] \in Nat /\ IndexType
        BY FullType DEF IInv, NumbersName
    <2>2. CASE adding = NoName
        BY <2>1, <2>2 DEF Full, NameOf
    <2>3. CASE adding # NoName
        <3>1. /\ Len(Full) = Len(idMap) + 1 /\ Len(idMap) \in Nat /\ DOMAIN idMap = 1 .. Len(idMap)
              /\ Full[Len(idMap) + 1] = adding /\ \A q \in DOMAIN idMap : Full[q] = idMap[q]
            BY <2>1, <2>3, AppendElement DEF Full, IndexType
        <3>2. CASE index.ids[p] < Len(idMap)
            BY <2>1, <3>1, <3>2 DEF NameOf
        <3>3. CASE index.ids[p] = Len(idMap)
            BY <2>1, <2>3, <3>1, <3>3 DEF NameOf
        <3> QED
            BY <2>1, <3>1, <3>2, <3>3
    <2> QED
        BY <2>2, <2>3
<1> QED
    BY <1>1, IInvCorrect, PTL

(* A trained index has in its clusters a vector of every named document,   *)
(* under the document's number, but for those that came after the training *)
(* or that it dropped.                                                     *)
THEOREM SearchedAreFoundCorrect == Spec => []SearchedAreFound
<1>1. IInv => SearchedAreFound
    <2> SUFFICES ASSUME IInv, Trusted, index.clustered > 0, NEW doc \in Named \ (late \cup lost)
                 PROVE  \E p \in 1 .. index.clustered :
                            index.vectors[p] = doc /\ NameOf(index.ids[p]) = doc
        BY DEF SearchedAreFound, Trusted
    <2>1. PICK q \in DOMAIN idMap : idMap[q] = doc /\ doc # NoName
        BY DEF Named, Range
    <2>2. Len(idMap) \in Nat /\ DOMAIN idMap = 1 .. Len(idMap)
        BY DEF IInv, IndexType
    <2>3. q \in DOMAIN Full /\ Full[q] = doc
        <3>1. CASE adding = NoName
            BY <2>1, <3>1 DEF Full
        <3>2. CASE adding # NoName
            BY <2>1, <3>2, AppendElement DEF Full, IInv, IndexType
        <3> QED
            BY <3>1, <3>2
    <2>4. PICK p \in 1 .. index.clustered : index.vectors[p] = doc /\ index.ids[p] = q - 1
        BY <2>1, <2>3 DEF IInv, ClustersHold
    <2>5. NameOf(q - 1) = doc
        BY <2>1, <2>2 DEF NameOf
    <2> QED
        BY <2>4, <2>5
<1> QED
    BY <1>1, IInvCorrect, PTL
=============================================================================
