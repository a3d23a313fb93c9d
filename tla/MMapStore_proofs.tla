-------------------------- MODULE MMapStore_proofs --------------------------
(***************************************************************************)
(* Theorems about MMapStore, for any ids, numbers and page size, and any   *)
(* bounds on the writes and the openings.                                  *)
(***************************************************************************)
EXTENDS MMapStore, FiniteSetTheorems, WellFoundedInduction, TLAPS

(* A file of n words.                                                      *)
HasWords(file, n) == n \in Nat /\ DOMAIN file = 0 .. n - 1
IsFile(file) == \E n \in Nat : HasWords(file, n)

StoreType ==
    /\ IsFile(words)
    /\ state \in {"mapped", "unmapped", "stuck", "down"}
    /\ offset \in Nat
    /\ DOMAIN session \subseteq Ids /\ \A id \in DOMAIN session : session[id] \in Vectors
    /\ ever \in [Ids -> SUBSET Vectors]
    /\ torn \in BOOLEAN
    /\ state = "down" => session = Empty

(* Wherever the length of an id stands there is a whole record behind it,  *)
(* of a vector that the id was put with.                                   *)
WholeRecord(o) ==
    /\ o + 1 \in DOMAIN words /\ words[o + 1] \in Ids
    /\ \E vec \in ever[words[o + 1]] : ReadsAs(o, vec)
Intact == ~torn => \A o \in DOMAIN words : words[o] = IdLength => WholeRecord(o)

(* No record reaches across the offset, as far as it is read.              *)
EndsBefore(o) == o < offset => o + 4 + words[o + 2] <= offset
Before ==
    state = "mapped" /\ ~torn =>
        \A o \in DOMAIN words : words[o] = IdLength => EndsBefore(o)

(* The records of the session are behind the offset.                       *)
Stored(id) ==
    /\ id \in DOMAIN index /\ index[id] \in Nat
    /\ index[id] + RecordSize(session[id]) <= offset
    /\ ReadsAs(index[id], session[id])
InSession == state = "mapped" => \A id \in DOMAIN session : Stored(id)

IInv ==
    /\ StoreType
    /\ Intact
    /\ Before
    /\ InSession
    /\ ReopenedIsOld

-----------------------------------------------------------------------------
(* Least and greatest numbers.                                             *)

LEMMA LeastElement ==
    ASSUME NEW S \in SUBSET Nat, S # {}
    PROVE  \E x \in S : \A y \in S : x <= y
<1> DEFINE Below(n) == 0 .. n - 1
           Family == {Below(n) : n \in S}
<1>1. Family \subseteq FiniteSubsetsOf(Nat) /\ Family # {}
    <2>1. \A n \in S : IsFiniteSet(Below(n)) /\ Below(n) \in SUBSET Nat
        BY FS_Interval
    <2> QED
        BY <2>1 DEF FiniteSubsetsOf
<1>2. PICK least \in Family : \A b \in Family : <<b, least>> \notin StrictSubsetOrdering(Nat)
    <2> HIDE DEF Family
    <2> QED
        BY <1>1, WFMin, FS_StrictSubsetOrderingWellFounded
<1>3. PICK x \in S : least = Below(x)
    OBVIOUS
<1>4. ASSUME NEW y \in S, ~(x <= y) PROVE FALSE
    <2>1. Below(y) \subseteq Below(x) /\ y \in Below(x) /\ y \notin Below(y)
        BY <1>4
    <2>2. <<Below(y), Below(x)>> \in StrictSubsetOrdering(Nat)
        BY <2>1 DEF StrictSubsetOrdering
    <2> QED
        BY <1>2, <1>3, <2>2
<1> QED
    BY <1>4

LEMMA GreatestElement ==
    ASSUME NEW bound \in Nat, NEW S \in SUBSET (0 .. bound), S # {}
    PROVE  \E x \in S : \A y \in S : x >= y
<1> DEFINE Distances == {bound - y : y \in S}
<1>1. Distances \in SUBSET Nat /\ Distances # {}
    <2>1. \A y \in S : bound - y \in Nat
        OBVIOUS
    <2> QED
        BY <2>1
<1>2. PICK d \in Distances : \A e \in Distances : d <= e
    <2> HIDE DEF Distances
    <2> QED
        BY <1>1, LeastElement
<1>3. PICK x \in S : d = bound - x
    BY <1>2
<1>4. \A y \in S : bound - x <= bound - y
    BY <1>2, <1>3
<1> QED
    BY <1>4

-----------------------------------------------------------------------------
(* Vectors, records and files.                                             *)

LEMMA Constants ==
    /\ MaxDim \in 1 .. 3 /\ Page \in Nat
    /\ \A x \in Ids \cup Floats \cup {Stamp} : x # IdLength
<1>1. MaxDim \in 1 .. IdLength - 1 /\ Page \in Nat
    BY MMapAssumption
<1>2. MaxDim \in 1 .. 3
    BY <1>1 DEF IdLength
<1>3. (Ids \cup Floats \cup {Stamp}) \cap (1 .. MaxLength) = {}
    BY MMapAssumption
<1>4. IdLength \in 1 .. MaxLength
    BY DEF IdLength, MaxLength
<1>5. \A x \in Ids \cup Floats \cup {Stamp} : x # IdLength
    BY <1>3, <1>4, Zenon
<1> QED
    BY <1>1, <1>2, <1>5

LEMMA VectorIs ==
    ASSUME NEW vec \in Vectors
    PROVE  /\ Len(vec) \in 1 .. 3 /\ Len(vec) # IdLength
           /\ vec \in Seq(Floats) /\ DOMAIN vec = 1 .. Len(vec)
           /\ \A n \in DOMAIN vec : vec[n] \in Floats
<1>1. PICK n \in 1 .. MaxDim : vec \in [1 .. n -> Floats]
    BY DEF Vectors
<1>2. n \in Nat /\ n \in 1 .. 3
    BY <1>1, Constants
<1>3. vec \in Seq(Floats) /\ Len(vec) = n
    BY <1>1, <1>2
<1>4. n # IdLength
    BY <1>2 DEF IdLength
<1> QED
    BY <1>1, <1>2, <1>3, <1>4

LEMMA Joined ==
    ASSUME NEW S, NEW s \in Seq(S), NEW t \in Seq(S)
    PROVE  s \o t \in Seq(S) /\ Len(s \o t) = Len(s) + Len(t)
OBVIOUS

LEMMA JoinedAt ==
    ASSUME NEW S, NEW s \in Seq(S), NEW t \in Seq(S), NEW i \in 1 .. Len(s) + Len(t)
    PROVE  (s \o t)[i] = IF i <= Len(s) THEN s[i] ELSE t[i - Len(s)]
OBVIOUS

LEMMA RecordIs ==
    ASSUME NEW id \in Ids, NEW vec \in Vectors
    PROVE  /\ Len(Record(id, vec)) = Len(vec) + 5
           /\ Record(id, vec)[1] = IdLength
           /\ Record(id, vec)[2] = id
           /\ Record(id, vec)[3] = Len(vec)
           /\ \A n \in DOMAIN vec : Record(id, vec)[n + 3] = vec[n]
           /\ \A i \in 2 .. Len(vec) + 5 : Record(id, vec)[i] # IdLength
<1> DEFINE All == Ids \cup Floats \cup {Stamp} \cup Nat
           head == <<IdLength, id, Len(vec)>>
           tail == <<Stamp, Stamp>>
           front == head \o vec
<1>1. /\ Len(vec) \in 1 .. 3 /\ Len(vec) # IdLength /\ vec \in Seq(All)
      /\ DOMAIN vec = 1 .. Len(vec) /\ \A n \in DOMAIN vec : vec[n] \in Floats
    BY VectorIs
<1>2. head \in Seq(All) /\ Len(head) = 3 /\ head[1] = IdLength /\ head[2] = id /\ head[3] = Len(vec)
    BY <1>1 DEF IdLength
<1>3. tail \in Seq(All) /\ Len(tail) = 2 /\ tail[1] = Stamp /\ tail[2] = Stamp
    OBVIOUS
<1>4. Record(id, vec) = front \o tail
    BY DEF Record
<1>5. front = head \o vec
    OBVIOUS
<1> HIDE DEF All, head, tail, front
<1>6. head \o vec \in Seq(All) /\ Len(head \o vec) = Len(head) + Len(vec)
    BY <1>1, <1>2, Joined
<1>7. front \in Seq(All) /\ Len(front) = Len(vec) + 3
    BY <1>1, <1>2, <1>5, <1>6
<1>8. Len(Record(id, vec)) = Len(vec) + 5
    <2>1. Len(front \o tail) = Len(front) + Len(tail)
        BY <1>3, <1>7, Joined
    <2> QED
        BY <1>1, <1>3, <1>4, <1>7, <2>1
<1>9. ASSUME NEW i \in 1 .. Len(vec) + 5
      PROVE  Record(id, vec)[i] = IF i <= 3 THEN head[i]
                                  ELSE IF i <= Len(vec) + 3 THEN vec[i - 3] ELSE Stamp
    <2>1. CASE i <= Len(vec) + 3
        <3>1. i \in 1 .. Len(front) + Len(tail) /\ i \in 1 .. Len(head) + Len(vec) /\ i <= Len(front)
            BY <1>1, <1>2, <1>3, <1>7, <2>1
        <3>2. (front \o tail)[i] = front[i]
            BY <1>3, <1>7, <3>1, JoinedAt
        <3>3. (head \o vec)[i] = IF i <= Len(head) THEN head[i] ELSE vec[i - Len(head)]
            BY <1>1, <1>2, <3>1, JoinedAt
        <3> QED
            BY <1>1, <1>2, <1>4, <1>5, <2>1, <3>2, <3>3
    <2>2. CASE ~(i <= Len(vec) + 3)
        <3>1. /\ i \in 1 .. Len(front) + Len(tail) /\ ~(i <= Len(front)) /\ ~(i <= 3)
              /\ i - Len(front) = 1 \/ i - Len(front) = 2
            BY <1>1, <1>3, <1>7, <2>2
        <3>2. (front \o tail)[i] = tail[i - Len(front)]
            BY <1>3, <1>7, <3>1, JoinedAt
        <3> QED
            BY <1>3, <1>4, <2>2, <3>1, <3>2
    <2> QED
        BY <2>1, <2>2
<1>10. /\ Record(id, vec)[1] = IdLength /\ Record(id, vec)[2] = id /\ Record(id, vec)[3] = Len(vec)
    BY <1>1, <1>2, <1>9
<1>11. ASSUME NEW n \in DOMAIN vec PROVE Record(id, vec)[n + 3] = vec[n]
    <2>1. /\ n + 3 \in 1 .. Len(vec) + 5 /\ ~(n + 3 <= 3) /\ n + 3 <= Len(vec) + 3
          /\ (n + 3) - 3 = n
        BY <1>1
    <2> QED
        BY <1>9, <2>1
<1>12. ASSUME NEW i \in 2 .. Len(vec) + 5 PROVE Record(id, vec)[i] # IdLength
    <2>1. /\ id # IdLength /\ Stamp # IdLength /\ \A n \in DOMAIN vec : vec[n] # IdLength
        BY <1>1, Constants
    <2>2. CASE i <= 3
        <3>1. i = 2 \/ i = 3
            BY <1>1, <2>2
        <3> QED
            BY <1>1, <1>10, <2>1, <3>1
    <2>3. CASE i > 3 /\ i <= Len(vec) + 3
        <3>1. i - 3 \in DOMAIN vec /\ i \in 1 .. Len(vec) + 5 /\ ~(i <= 3)
            BY <1>1, <2>3
        <3>2. Record(id, vec)[i] = vec[i - 3]
            BY <1>9, <2>3, <3>1
        <3> QED
            BY <2>1, <3>1, <3>2
    <2>4. CASE i > Len(vec) + 3
        <3>1. i \in 1 .. Len(vec) + 5 /\ ~(i <= 3) /\ ~(i <= Len(vec) + 3)
            BY <1>1, <2>4
        <3>2. Record(id, vec)[i] = Stamp
            BY <1>9, <3>1
        <3> QED
            BY <2>1, <3>2
    <2> QED
        BY <1>1, <2>2, <2>3, <2>4
<1> QED
    BY <1>8, <1>10, <1>11, <1>12

LEMMA SizeIs == ASSUME NEW file, NEW n, HasWords(file, n) PROVE Size(file) = n
<1>1. Cardinality(0 .. n - 1) = n
    BY FS_Interval DEF HasWords
<1> QED
    BY <1>1 DEF HasWords, Size

LEMMA TruncateIs ==
    ASSUME NEW file, NEW n, NEW size \in Nat, HasWords(file, n)
    PROVE  /\ HasWords(Truncate(file, size), size) /\ Size(Truncate(file, size)) = size
           /\ \A o \in 0 .. size - 1 :
                 Truncate(file, size)[o] = IF o \in DOMAIN file THEN file[o] ELSE 0
<1>1. HasWords(Truncate(file, size), size)
    BY DEF HasWords, Truncate
<1> QED
    BY <1>1, SizeIs DEF Truncate

(* A mapped file only grows, by zeros.                                     *)
LEMMA GrownMapped ==
    ASSUME StoreType, NEW vec \in Vectors, state = "mapped"
    PROVE  /\ IsFile(Grown(vec)) /\ DOMAIN words \subseteq DOMAIN Grown(vec)
           /\ DOMAIN Grown(vec) = 0 .. Size(Grown(vec)) - 1 /\ Size(Grown(vec)) \in Nat
           /\ \A o \in DOMAIN words : Grown(vec)[o] = words[o]
           /\ \A o \in DOMAIN Grown(vec) : o \in DOMAIN words \/ Grown(vec)[o] = 0
<1>1. PICK n \in Nat : HasWords(words, n)
    BY DEF StoreType, IsFile
<1>2. Size(words) = n
    BY <1>1, SizeIs
<1>3. CASE Grown(vec) = words
    BY <1>1, <1>2, <1>3 DEF IsFile, HasWords
<1>4. CASE Grown(vec) = Truncate(words, Size(words) + RecordSize(vec) + Page)
    <2> DEFINE m == n + RecordSize(vec) + Page
    <2>1. m \in Nat /\ m >= n /\ Grown(vec) = Truncate(words, m)
        BY <1>2, <1>4, VectorIs, Constants DEF RecordSize
    <2> HIDE DEF m
    <2>2. /\ HasWords(Grown(vec), m) /\ Size(Grown(vec)) = m
          /\ \A o \in 0 .. m - 1 : Grown(vec)[o] = IF o \in DOMAIN words THEN words[o] ELSE 0
        BY <1>1, <2>1, TruncateIs
    <2> QED
        BY <1>1, <2>1, <2>2 DEF IsFile, HasWords
<1> QED
    BY <1>3, <1>4 DEF Grown

LEMMA GrownUnmapped ==
    ASSUME StoreType, NEW vec \in Vectors, state = "unmapped"
    PROVE  IsFile(Grown(vec)) /\ Size(Grown(vec)) = Len(vec) + 4
<1>1. PICK n \in Nat : HasWords(words, n)
    BY DEF StoreType, IsFile
<1>2. RecordSize(vec) \in Nat /\ RecordSize(vec) = Len(vec) + 4
    BY VectorIs DEF RecordSize
<1>3. Grown(vec) = Truncate(words, RecordSize(vec))
    BY DEF Grown
<1> QED
    BY <1>1, <1>2, <1>3, TruncateIs DEF IsFile

LEMMA WriteWordsIsFile ==
    ASSUME NEW file, NEW record, NEW k, IsFile(file)
    PROVE  IsFile(WriteWords(file, record, k))
BY DEF IsFile, HasWords, WriteWords

(* A record is read from the words behind its offset only, and these words *)
(* may stand in a longer file.                                             *)
LEMMA ReadsAsStable ==
    ASSUME StoreType, NEW o \in Nat, NEW vec \in Vectors, ReadsAs(o, vec),
           \A p \in DOMAIN words : p >= o /\ p <= o + 2 + Len(vec) =>
               p \in DOMAIN words' /\ words'[p] = words[p]
    PROVE  ReadsAs(o, vec)'
<1>1. PICK n \in Nat : DOMAIN words = 0 .. n - 1
    BY DEF StoreType, IsFile, HasWords
<1>2. Len(vec) \in 1 .. 3 /\ DOMAIN vec = 1 .. Len(vec)
    BY VectorIs
<1>3. /\ o + 2 + Len(vec) \in DOMAIN words /\ words[o + 2] = Len(vec)
      /\ \A i \in DOMAIN vec : words[o + 2 + i] = vec[i]
    BY DEF ReadsAs
<1>4. o + 2 + Len(vec) \in DOMAIN words'
    BY <1>2, <1>3
<1>5. words'[o + 2] = Len(vec)
    <2>1. o + 2 \in DOMAIN words /\ o + 2 <= o + 2 + Len(vec)
        BY <1>1, <1>2, <1>3
    <2> QED
        BY <1>3, <2>1
<1>6. ASSUME NEW i \in DOMAIN vec PROVE words'[o + 2 + i] = vec[i]
    <2>1. o + 2 + i \in DOMAIN words /\ o + 2 + i <= o + 2 + Len(vec) /\ o + 2 + i >= o
        BY <1>1, <1>2, <1>3
    <2> QED
        BY <1>3, <2>1
<1> QED
    BY <1>4, <1>5, <1>6 DEF ReadsAs

-----------------------------------------------------------------------------
(* Each action preserves the invariant.                                    *)

LEMMA IInvInit == Init => IInv
<1> SUFFICES ASSUME Init PROVE IInv
    OBVIOUS
<1> USE DEF Init
<1>1. IsFile(words)
    <2>1. DOMAIN words = 0 .. 0 - 1 /\ 0 \in Nat
        BY DEF Empty
    <2> QED
        BY <2>1 DEF IsFile, HasWords
<1>2. StoreType
    <2>1. DOMAIN session = {}
        BY DEF Empty
    <2> QED
        BY <1>1, <2>1 DEF StoreType
<1>3. Intact /\ Before /\ InSession /\ ReopenedIsOld
    <2>1. DOMAIN words = {} /\ DOMAIN session = {} /\ DOMAIN index = {}
        BY DEF Empty
    <2> QED
        BY <2>1 DEF Intact, Before, InSession, ReopenedIsOld
<1> QED
    BY <1>2, <1>3 DEF IInv

(* The process ends, whatever happened to the file before.                 *)
LEMMA DownKeeps ==
    ASSUME IInv, Down, IsFile(words)', Intact', torn' \in BOOLEAN, UNCHANGED ever
    PROVE  IInv'
<1>1. /\ state' = "down" /\ offset' = 0 /\ session' = Empty /\ index' = Empty
    BY DEF Down
<1>2. DOMAIN session' = {}
    BY <1>1 DEF Empty
<1>3. StoreType'
    BY <1>1, <1>2 DEF IInv, StoreType
<1>4. Before' /\ InSession' /\ ReopenedIsOld'
    BY <1>1 DEF Before, InSession, ReopenedIsOld
<1> QED
    BY <1>3, <1>4 DEF IInv

(* As long as the words and what was put stay, so do the records.          *)
LEMMA IntactStable ==
    ASSUME Intact, UNCHANGED <<words, ever>>, torn' = torn PROVE Intact'
BY DEF Intact, WholeRecord, ReadsAs

LEMMA CloseKeeps == ASSUME IInv, Close \/ TouchPanics PROVE IInv'
<1>1. Down /\ UNCHANGED <<words, ever, torn>>
    BY DEF Close, TouchPanics
<1>2. IsFile(words)' /\ torn' \in BOOLEAN
    BY <1>1 DEF IInv, StoreType, IsFile, HasWords
<1>3. Intact'
    BY <1>1, IntactStable DEF IInv
<1> QED
    BY <1>1, <1>2, <1>3, DownKeeps

LEMMA WriteBreaksOffKeeps ==
    ASSUME IInv, NEW id \in Ids, NEW vec \in Vectors, WriteBreaksOff(id, vec)
    PROVE  IInv'
<1>1. PICK k \in 0 .. Len(vec) + 3 : words' = WriteWords(Grown(vec), Record(id, vec), k)
    BY DEF WriteBreaksOff
<1>2. Down /\ torn' = TRUE /\ UNCHANGED ever /\ state \in {"mapped", "unmapped"}
    BY DEF WriteBreaksOff
<1>3. IsFile(Grown(vec))
    BY <1>2, GrownMapped, GrownUnmapped DEF IInv
<1>4. IsFile(WriteWords(Grown(vec), Record(id, vec), k))
    BY <1>3, WriteWordsIsFile
<1>5. IsFile(words)'
    BY <1>1, <1>4 DEF IsFile, HasWords
<1>6. Intact'
    BY <1>2 DEF Intact
<1> QED
    BY <1>2, <1>5, <1>6, DownKeeps

LEMMA DeleteKeeps == ASSUME IInv, NEW id \in Ids, Delete(id) PROVE IInv'
<1>1. /\ UNCHANGED <<words, state, offset, ever, torn>> /\ state = "mapped"
      /\ index' = Without(index, id) /\ session' = Without(session, id)
    BY DEF Delete
<1>2. /\ DOMAIN index' = DOMAIN index \ {id} /\ \A i \in DOMAIN index' : index'[i] = index[i]
      /\ DOMAIN session' = DOMAIN session \ {id}
      /\ \A i \in DOMAIN session' : session'[i] = session[i]
    BY <1>1 DEF Without
<1>3. StoreType'
    BY <1>1, <1>2 DEF IInv, StoreType, IsFile, HasWords
<1>4. Intact'
    BY <1>1, IntactStable DEF IInv
<1>5. Before'
    BY <1>1 DEF IInv, Before, EndsBefore
<1>6. InSession'
    BY <1>1, <1>2 DEF IInv, InSession, Stored, ReadsAs, RecordSize
<1>7. ReopenedIsOld'
    BY <1>1, <1>2 DEF IInv, ReopenedIsOld, Holds, ReadsAs
<1> QED
    BY <1>3, <1>4, <1>5, <1>6, <1>7 DEF IInv

(* Zeros behind the file are no records, and the records are where they    *)
(* were.                                                                   *)
LEMMA GrownIsIntact ==
    ASSUME IInv, state = "mapped", NEW vec \in Vectors, words' = Grown(vec), UNCHANGED <<ever, torn>>
    PROVE  Intact'
<1> SUFFICES ASSUME ~torn, NEW o \in DOMAIN words', words'[o] = IdLength
             PROVE  WholeRecord(o)'
    BY DEF Intact
<1>1. /\ DOMAIN words \subseteq DOMAIN words'
      /\ \A p \in DOMAIN words : words'[p] = words[p]
      /\ \A p \in DOMAIN words' : p \in DOMAIN words \/ words'[p] = 0
    BY GrownMapped DEF IInv
<1>2. o \in DOMAIN words /\ words[o] = IdLength /\ o \in Nat
    BY <1>1 DEF IdLength, IInv, StoreType, IsFile, HasWords
<1>3. WholeRecord(o)
    BY <1>2 DEF IInv, Intact
<1>4. PICK old \in ever[words[o + 1]] : ReadsAs(o, old)
    BY <1>3 DEF WholeRecord
<1>5. o + 1 \in DOMAIN words /\ words[o + 1] \in Ids /\ old \in Vectors
    BY <1>3, <1>4 DEF WholeRecord, IInv, StoreType
<1>6. ReadsAs(o, old)'
    BY <1>1, <1>2, <1>4, <1>5, ReadsAsStable DEF IInv
<1> QED
    BY <1>1, <1>4, <1>5, <1>6 DEF WholeRecord

LEMMA GrowFailsKeeps == ASSUME IInv, NEW vec \in Vectors, GrowFails(vec) PROVE IInv'
<1>1. state \in {"mapped", "unmapped"} /\ UNCHANGED <<index, offset, session, ever>>
    BY DEF GrowFails
<1>2. Before' /\ InSession' /\ ReopenedIsOld'
    BY DEF GrowFails, Before, InSession, ReopenedIsOld
<1>3. CASE state' = "stuck" /\ UNCHANGED <<words, torn>>
    <2>1. StoreType'
        BY <1>1, <1>3 DEF IInv, StoreType, IsFile, HasWords
    <2>2. Intact'
        BY <1>1, <1>3, IntactStable DEF IInv
    <2> QED
        BY <1>2, <2>1, <2>2 DEF IInv
<1>4. CASE state' = "unmapped" /\ words' = Grown(vec) /\ torn' = (torn \/ state = "unmapped")
    <2>1. IsFile(words)'
        BY <1>1, <1>4, GrownMapped, GrownUnmapped DEF IInv, IsFile, HasWords
    <2>2. StoreType'
        BY <1>1, <1>4, <2>1 DEF IInv, StoreType
    <2>3. CASE state = "mapped"
        <3>1. torn' = torn
            BY <1>4, <2>3 DEF IInv, StoreType
        <3> QED
            BY <1>1, <1>2, <1>4, <2>2, <2>3, <3>1, GrownIsIntact DEF IInv
    <2>4. CASE state = "unmapped"
        <3>1. Intact'
            BY <1>4, <2>4 DEF Intact
        <3> QED
            BY <1>2, <2>2, <3>1 DEF IInv
    <2> QED
        BY <1>1, <2>3, <2>4
<1> QED
    BY <1>3, <1>4 DEF GrowFails

(* Whoever opens the file finds whole records only.                        *)
LEMMA OpenKeeps == ASSUME IInv, Open PROVE IInv'
<1>1. /\ state = "down" /\ state' = "mapped" /\ offset' = 0
      /\ index' = RebuiltIndex(words) /\ UNCHANGED <<words, session, ever, torn>>
    BY DEF Open
<1>2. DOMAIN session = {} /\ DOMAIN session' = {}
    BY <1>1 DEF IInv, StoreType, Empty
<1>3. StoreType'
    BY <1>1, <1>2 DEF IInv, StoreType, IsFile, HasWords
<1>4. Intact'
    BY <1>1, IntactStable DEF IInv
<1>5. Before'
    <2>1. \A o \in DOMAIN words : ~(o < 0)
        BY DEF IInv, StoreType, IsFile, HasWords
    <2> QED
        BY <1>1, <2>1 DEF Before, EndsBefore
<1>6. InSession'
    BY <1>2 DEF InSession
<1>7. ReopenedIsOld'
    <2> SUFFICES ASSUME ~torn, NEW id \in DOMAIN index'
                 PROVE  \E vec \in ever'[id] : Holds(id, vec)'
        BY <1>1 DEF ReopenedIsOld
    <2>1. PICK n \in Nat : HasWords(words, n) /\ Size(words) = n
        BY SizeIs DEF IInv, StoreType, IsFile
    <2> DEFINE Mine == {o \in RecordsOf(words) : words[o + 1] = id}
    <2>2. Mine # {}
        BY <1>1 DEF RebuiltIndex
    <2>3. Mine \in SUBSET (0 .. n)
        BY <2>1 DEF RecordsOf
    <2>4. PICK last \in Mine : \A o \in Mine : last >= o
        <3> HIDE DEF Mine
        <3> QED
            BY <2>1, <2>2, <2>3, GreatestElement
    <2>5. /\ last \in RecordsOf(words) /\ words[last + 1] = id
          /\ \A p \in RecordsOf(words) : words[p + 1] = id => p <= last
        BY <2>3, <2>4
    <2>6. index'[id] \in RecordsOf(words) /\ words[index'[id] + 1] = id
        BY <1>1, <2>5 DEF RebuiltIndex
    <2>7. index'[id] \in DOMAIN words /\ words[index'[id]] = IdLength
        BY <2>1, <2>6 DEF RecordsOf, IsRecord, HasWords
    <2>8. PICK vec \in ever[id] : ReadsAs(index'[id], vec)
        BY <2>6, <2>7 DEF IInv, Intact, WholeRecord
    <2> QED
        BY <1>1, <2>8 DEF Holds, ReadsAs
<1> QED
    BY <1>3, <1>4, <1>5, <1>6, <1>7 DEF IInv

(* What is on the file after a write: the record, and behind and before it *)
(* what was there.  A record starts at the offset, or did before.          *)
Apart(o, vec) == o < offset \/ o >= offset + Len(vec) + 5

LEMMA WriteIs ==
    ASSUME IInv, NEW id \in Ids, NEW vec \in Vectors, Write(id, vec)
    PROVE  /\ state = "mapped" /\ IsFile(words)'
           /\ \A o \in DOMAIN words :
                 o \in DOMAIN words' /\ (Apart(o, vec) => words'[o] = words[o])
           /\ \A o \in DOMAIN words' :
                 words'[o] = IdLength =>
                     o = offset \/ (o \in DOMAIN words /\ words[o] = IdLength /\ Apart(o, vec))
           /\ offset + 1 \in DOMAIN words' /\ words'[offset + 1] = id
           /\ words'[offset + 2] = Len(vec)
           /\ \A o \in Nat : o = offset => ReadsAs(o, vec)'
<1>1. /\ state \in {"mapped", "unmapped"} /\ offset + Len(Record(id, vec)) <= Size(Grown(vec))
      /\ words' = WriteWords(Grown(vec), Record(id, vec), Len(Record(id, vec)))
    BY DEF Write
<1>2. /\ Len(Record(id, vec)) = Len(vec) + 5 /\ Record(id, vec)[1] = IdLength
      /\ Record(id, vec)[2] = id /\ Record(id, vec)[3] = Len(vec)
      /\ \A n \in DOMAIN vec : Record(id, vec)[n + 3] = vec[n]
      /\ \A i \in 2 .. Len(vec) + 5 : Record(id, vec)[i] # IdLength
    BY RecordIs
<1>3. Len(vec) \in 1 .. 3 /\ DOMAIN vec = 1 .. Len(vec) /\ offset \in Nat
    BY VectorIs DEF IInv, StoreType
<1>4. state = "mapped"
    <2> SUFFICES ASSUME state = "unmapped" PROVE FALSE
        BY <1>1
    <2>1. Size(Grown(vec)) = Len(vec) + 4
        BY GrownUnmapped DEF IInv
    <2> QED
        BY <1>1, <1>2, <1>3, <2>1
<1> DEFINE G == Grown(vec)
           R == Record(id, vec)
<1>5. /\ IsFile(G) /\ DOMAIN words \subseteq DOMAIN G
      /\ DOMAIN G = 0 .. Size(G) - 1 /\ Size(G) \in Nat
      /\ \A o \in DOMAIN words : G[o] = words[o]
      /\ \A o \in DOMAIN G : o \in DOMAIN words \/ G[o] = 0
    BY <1>4, GrownMapped DEF IInv
<1>6. IsFile(WriteWords(G, R, Len(R)))
    BY <1>5, WriteWordsIsFile
<1>7. /\ DOMAIN words' = DOMAIN G
      /\ \A o \in DOMAIN G :
            words'[o] = IF o - offset \in 0 .. Len(R) - 1 THEN R[o - offset + 1] ELSE G[o]
    BY <1>1 DEF WriteWords
<1>8. IsFile(words)'
    BY <1>1, <1>6 DEF IsFile, HasWords
<1>9. offset + Len(vec) + 5 <= Size(G) /\ Len(R) = Len(vec) + 5
    BY <1>1, <1>2, <1>3
<1> HIDE DEF G, R
<1>10. \A o \in DOMAIN words : o \in DOMAIN words' /\ (Apart(o, vec) => words'[o] = words[o])
    <2> SUFFICES ASSUME NEW o \in DOMAIN words
                 PROVE  o \in DOMAIN words' /\ (Apart(o, vec) => words'[o] = words[o])
        OBVIOUS
    <2>1. o \in DOMAIN G /\ o \in Nat /\ G[o] = words[o]
        BY <1>5
    <2>2. Apart(o, vec) => ~(o - offset \in 0 .. Len(R) - 1)
        BY <1>3, <1>9, <2>1 DEF Apart
    <2> QED
        BY <1>7, <2>1, <2>2
<1>11. ASSUME NEW i \in 1 .. Len(vec) + 5
       PROVE  offset + i - 1 \in DOMAIN words' /\ words'[offset + i - 1] = R[i]
    <2>1. /\ offset + i - 1 \in DOMAIN G /\ (offset + i - 1) - offset \in 0 .. Len(R) - 1
          /\ (offset + i - 1) - offset + 1 = i
        BY <1>3, <1>5, <1>9
    <2> QED
        BY <1>7, <2>1
<1>12. ASSUME NEW o \in DOMAIN words', words'[o] = IdLength, o # offset
       PROVE  o \in DOMAIN words /\ words[o] = IdLength /\ Apart(o, vec)
    <2>1. o \in DOMAIN G /\ o \in Nat
        BY <1>5, <1>7
    <2>2. CASE o - offset \in 0 .. Len(R) - 1
        <3>1. o - offset + 1 \in 2 .. Len(vec) + 5 /\ words'[o] = R[o - offset + 1]
            BY <1>3, <1>7, <1>9, <1>12, <2>1, <2>2
        <3> QED
            BY <1>2, <1>12, <3>1 DEF R
    <2>3. CASE ~(o - offset \in 0 .. Len(R) - 1)
        <3>1. Apart(o, vec) /\ G[o] = IdLength
            BY <1>3, <1>7, <1>9, <1>12, <2>1, <2>3 DEF Apart
        <3>2. IdLength # 0
            BY DEF IdLength
        <3> QED
            BY <1>5, <2>1, <3>1, <3>2
    <2> QED
        BY <2>2, <2>3
<1>13. offset + 1 \in DOMAIN words' /\ words'[offset + 1] = id /\ words'[offset + 2] = Len(vec)
    <2>1. /\ 2 \in 1 .. Len(vec) + 5 /\ 3 \in 1 .. Len(vec) + 5
          /\ offset + 2 - 1 = offset + 1 /\ offset + 3 - 1 = offset + 2
        BY <1>3
    <2> QED
        BY <1>2, <1>11, <2>1 DEF R
<1>14. ASSUME NEW o \in Nat, o = offset PROVE ReadsAs(o, vec)'
    <2>1. offset + 2 + Len(vec) \in DOMAIN words'
        <3>1. Len(vec) + 3 \in 1 .. Len(vec) + 5 /\ offset + (Len(vec) + 3) - 1 = offset + 2 + Len(vec)
            BY <1>3
        <3> QED
            BY <1>11, <3>1
    <2>2. ASSUME NEW n \in DOMAIN vec PROVE words'[offset + 2 + n] = vec[n]
        <3>1. n + 3 \in 1 .. Len(vec) + 5 /\ offset + (n + 3) - 1 = offset + 2 + n
            BY <1>3
        <3> QED
            BY <1>2, <1>11, <3>1 DEF R
    <2> QED
        BY <1>13, <1>14, <2>1, <2>2 DEF ReadsAs
<1> QED
    BY <1>4, <1>8, <1>10, <1>12, <1>13, <1>14

LEMMA WriteKeeps ==
    ASSUME IInv, NEW id \in Ids, NEW vec \in Vectors, Write(id, vec)
    PROVE  IInv'
<1>1. /\ index' = Assign(index, id, offset) /\ offset' = offset + RecordSize(vec)
      /\ state' = "mapped" /\ session' = Assign(session, id, vec)
      /\ ever' = [ever EXCEPT ![id] = @ \cup {vec}] /\ torn' = torn
    BY DEF Write
<1>2. Len(vec) \in 1 .. 3 /\ offset \in Nat /\ offset' = offset + Len(vec) + 4
    BY <1>1, VectorIs DEF IInv, StoreType, RecordSize
<1>3. /\ DOMAIN index' = DOMAIN index \cup {id} /\ index'[id] = offset
      /\ \A i \in DOMAIN index : i # id => index'[i] = index[i]
      /\ DOMAIN session' = DOMAIN session \cup {id} /\ session'[id] = vec
      /\ \A i \in DOMAIN session : i # id => session'[i] = session[i]
    BY <1>1 DEF Assign
<1>4. /\ ever' \in [Ids -> SUBSET Vectors] /\ vec \in ever'[id]
      /\ \A i \in Ids : ever[i] \subseteq ever'[i]
    BY <1>1 DEF IInv, StoreType
<1>5. /\ state = "mapped" /\ IsFile(words)'
      /\ \A o \in DOMAIN words :
            o \in DOMAIN words' /\ (Apart(o, vec) => words'[o] = words[o])
      /\ \A o \in DOMAIN words' :
            words'[o] = IdLength =>
                o = offset \/ (o \in DOMAIN words /\ words[o] = IdLength /\ Apart(o, vec))
      /\ offset + 1 \in DOMAIN words' /\ words'[offset + 1] = id
      /\ words'[offset + 2] = Len(vec)
      /\ \A o \in Nat : o = offset => ReadsAs(o, vec)'
    BY WriteIs
<1>6. \A o \in DOMAIN words : o \in Nat
    BY DEF IInv, StoreType, IsFile, HasWords
<1>7. StoreType'
    BY <1>1, <1>2, <1>3, <1>4, <1>5 DEF IInv, StoreType
<1>8. ASSUME ~torn, NEW o \in DOMAIN words, words[o] = IdLength, Apart(o, vec)
      PROVE  WholeRecord(o)' /\ (o < offset => o + 4 + words'[o + 2] <= offset)
    <2>1. WholeRecord(o) /\ EndsBefore(o)
        BY <1>5, <1>8 DEF IInv, Intact, Before
    <2>2. PICK old \in ever[words[o + 1]] : ReadsAs(o, old)
        BY <2>1 DEF WholeRecord
    <2>3. o + 1 \in DOMAIN words /\ words[o + 1] \in Ids /\ old \in Vectors
        BY <2>1, <2>2 DEF WholeRecord, IInv, StoreType
    <2>4. words[o + 2] = Len(old) /\ o + 2 + Len(old) \in DOMAIN words /\ Len(old) \in 1 .. 3
        BY <2>2, <2>3, VectorIs DEF ReadsAs
    <2>5. o + 2 \in DOMAIN words
        BY <1>6, <2>4 DEF IInv, StoreType, IsFile, HasWords
    <2>6. o < offset => o + 4 + Len(old) <= offset
        BY <2>1, <2>4 DEF EndsBefore
    <2>7. ASSUME NEW p \in DOMAIN words, p >= o, p <= o + 2 + Len(old) PROVE Apart(p, vec)
        BY <1>2, <1>6, <1>8, <2>4, <2>6, <2>7 DEF Apart
    <2>8. \A p \in DOMAIN words : p >= o /\ p <= o + 2 + Len(old) =>
              p \in DOMAIN words' /\ words'[p] = words[p]
        BY <1>5, <2>7
    <2>9. ReadsAs(o, old)'
        BY <1>6, <2>2, <2>3, <2>8, ReadsAsStable DEF IInv
    <2>10. o + 1 \in DOMAIN words' /\ words'[o + 1] = words[o + 1] /\ words'[o + 2] = words[o + 2]
        BY <1>6, <2>3, <2>4, <2>5, <2>8
    <2>11. WholeRecord(o)'
        BY <1>4, <2>3, <2>9, <2>10 DEF WholeRecord
    <2> QED
        BY <2>1, <2>10, <2>11 DEF EndsBefore
<1>9. Intact'
    <2> SUFFICES ASSUME ~torn, NEW o \in DOMAIN words', words'[o] = IdLength
                 PROVE  WholeRecord(o)'
        BY <1>1 DEF Intact
    <2>1. CASE o = offset
        <3>1. ReadsAs(o, vec)' /\ o + 1 \in DOMAIN words' /\ words'[o + 1] = id
            BY <1>2, <1>5, <2>1
        <3> QED
            BY <1>4, <3>1 DEF WholeRecord
    <2>2. CASE o # offset
        BY <1>5, <1>8, <2>2
    <2> QED
        BY <2>1, <2>2
<1>10. Before'
    <2> SUFFICES ASSUME ~torn, NEW o \in DOMAIN words', words'[o] = IdLength, o < offset'
                 PROVE  o + 4 + words'[o + 2] <= offset'
        BY <1>1 DEF Before, EndsBefore
    <2>1. CASE o = offset
        BY <1>2, <1>5, <2>1
    <2>2. CASE o # offset
        <3>1. o \in DOMAIN words /\ words[o] = IdLength /\ Apart(o, vec) /\ o \in Nat
            BY <1>5, <1>6, <2>2
        <3>2. o < offset
            BY <1>2, <3>1 DEF Apart
        <3>3. o + 4 + words'[o + 2] <= offset
            BY <1>8, <3>1, <3>2
        <3>4. WholeRecord(o)'
            BY <1>8, <3>1
        <3>5. words'[o + 2] \in Nat
            BY <1>7, <3>4, VectorIs DEF WholeRecord, ReadsAs, StoreType
        <3> QED
            BY <1>2, <3>1, <3>3, <3>5
    <2> QED
        BY <2>1, <2>2
<1>11. InSession'
    <2> SUFFICES ASSUME NEW i \in DOMAIN session' PROVE Stored(i)'
        BY DEF InSession
    <2>1. CASE i = id
        <3>1. PICK o \in Nat : o = offset
            BY <1>2
        <3>2. ReadsAs(o, vec)' /\ index'[id] = o /\ session'[id] = vec
            BY <1>3, <1>5, <3>1
        <3>3. ReadsAs(index[id], session[id])'
            BY <3>2 DEF ReadsAs
        <3>4. id \in DOMAIN index' /\ index'[id] \in Nat
            BY <1>3, <3>2
        <3>5. index'[id] + RecordSize(session'[id]) <= offset'
            BY <1>2, <3>1, <3>2 DEF RecordSize
        <3> QED
            BY <2>1, <3>3, <3>4, <3>5 DEF Stored
    <2>2. CASE i # id
        <3>1. i \in DOMAIN session /\ session'[i] = session[i] /\ Stored(i) /\ session[i] \in Vectors
            BY <1>3, <1>5, <2>2 DEF IInv, InSession, StoreType
        <3>2. i \in DOMAIN index' /\ index'[i] = index[i] /\ index[i] \in Nat
            BY <1>3, <2>2, <3>1 DEF Stored
        <3>3. Len(session[i]) \in 1 .. 3 /\ index[i] + Len(session[i]) + 4 <= offset
            BY <3>1, <3>2, VectorIs DEF Stored, RecordSize
        <3>4. \A p \in DOMAIN words : p >= index[i] /\ p <= index[i] + 2 + Len(session[i]) =>
                  p \in DOMAIN words' /\ words'[p] = words[p]
            <4>1. PICK y \in Nat : y = index[i]
                BY <3>2
            <4>2. PICK k \in 1 .. 3 : k = Len(session[i])
                BY <3>3
            <4>3. y + k + 4 <= offset
                BY <3>3, <4>1, <4>2
            <4>4. \A p \in Nat : p <= y + 2 + k => p < offset
                BY <1>2, <4>3
            <4>5. \A p \in DOMAIN words : p >= y /\ p <= y + 2 + k => Apart(p, vec)
                BY <1>6, <4>4 DEF Apart
            <4>6. \A p \in DOMAIN words : p >= y /\ p <= y + 2 + k =>
                      p \in DOMAIN words' /\ words'[p] = words[p]
                BY <1>5, <4>5
            <4> QED
                BY <4>1, <4>2, <4>6
        <3>5. ReadsAs(index[i], session[i])
            BY <3>1 DEF Stored
        <3>6. ReadsAs(index[i], session[i])'
            <4>1. PICK y \in Nat, x \in Vectors : y = index[i] /\ x = session[i]
                BY <3>1, <3>2
            <4>2. ReadsAs(y, x)'
                BY <3>4, <3>5, <4>1, ReadsAsStable DEF IInv
            <4>3. index'[i] = y /\ session'[i] = x
                BY <3>1, <3>2, <4>1
            <4> QED
                BY <4>2, <4>3 DEF ReadsAs
        <3>7. index'[i] + RecordSize(session'[i]) <= offset'
            BY <1>2, <3>1, <3>2, <3>3 DEF RecordSize
        <3> QED
            BY <3>1, <3>2, <3>6, <3>7 DEF Stored
    <2> QED
        BY <2>1, <2>2
<1>12. ReopenedIsOld'
    <2>1. offset' # 0
        BY <1>2
    <2> QED
        BY <2>1 DEF ReopenedIsOld
<1> QED
    BY <1>7, <1>9, <1>10, <1>11, <1>12 DEF IInv

LEMMA IInvNext == IInv /\ [Next]_vars => IInv'
<1> SUFFICES ASSUME IInv, [Next]_vars PROVE IInv'
    OBVIOUS
<1>1. CASE UNCHANGED vars
    <2>1. UNCHANGED <<words, state, index, offset, session, ever, torn>>
        BY <1>1 DEF vars, memory, history
    <2>2. StoreType'
        BY <2>1 DEF IInv, StoreType, IsFile, HasWords
    <2>3. Intact'
        BY <2>1, IntactStable DEF IInv
    <2>4. Before' /\ InSession'
        BY <2>1 DEF IInv, Before, EndsBefore, InSession, Stored, ReadsAs, RecordSize
    <2>5. ReopenedIsOld'
        BY <2>1 DEF IInv, ReopenedIsOld, Holds, ReadsAs
    <2> QED
        BY <2>2, <2>3, <2>4, <2>5 DEF IInv
<1>2. ASSUME NEW id \in Ids, NEW vec \in Vectors, Write(id, vec) PROVE IInv'
    BY <1>2, WriteKeeps
<1>3. ASSUME NEW id \in Ids, NEW vec \in Vectors, WriteBreaksOff(id, vec) PROVE IInv'
    BY <1>3, WriteBreaksOffKeeps
<1>4. ASSUME NEW vec \in Vectors, GrowFails(vec) PROVE IInv'
    BY <1>4, GrowFailsKeeps
<1>5. ASSUME NEW id \in Ids, Delete(id) PROVE IInv'
    BY <1>5, DeleteKeeps
<1>6. CASE TouchPanics \/ Close
    BY <1>6, CloseKeeps
<1>7. CASE Open
    BY <1>7, OpenKeeps
<1> QED
    BY <1>1, <1>2, <1>3, <1>4, <1>5, <1>6, <1>7 DEF Next

LEMMA IInvCorrect == Spec => []IInv
<1>1. Init => IInv
    BY IInvInit
<1>2. IInv /\ [Next]_vars => IInv'
    BY IInvNext
<1> QED
    BY <1>1, <1>2, PTL DEF Spec

-----------------------------------------------------------------------------
(* A vector that was put since the storage was opened is read as it was    *)
(* put, whatever records overlap and whatever older sessions, broken       *)
(* writes and failed growths left on the file.                             *)
THEOREM SessionReadsCorrect == Spec => []SessionReads
<1>1. IInv => SessionReads
    BY DEF IInv, InSession, Stored, SessionReads, Holds
<1> QED
    BY <1>1, IInvCorrect, PTL

(* As long as no write broke off and no failed growth cut the file, a file *)
(* that was just opened shows no id with a vector it never had: the scan   *)
(* of rebuildIndex, which steps further than Write does, loses records but *)
(* never takes the inside of one for another.                              *)
THEOREM ReopenedIsOldCorrect == Spec => []ReopenedIsOld
<1>1. IInv => ReopenedIsOld
    BY DEF IInv
<1> QED
    BY <1>1, IInvCorrect, PTL
=============================================================================
