----------------------- MODULE IncrementalBM25_proofs -----------------------
(***************************************************************************)
(* Theorems about IncrementalBM25, for any words and documents, any number *)
(* of threads, any limits of the vocabulary, and any bounds.               *)
(***************************************************************************)
EXTENDS IncrementalBM25, FiniteSetTheorems, WellFoundedInduction, TLAPS

-----------------------------------------------------------------------------
(* Numbers.                                                                *)

LEMMA LeastElement ==
    ASSUME NEW S \in SUBSET Nat, S # {}
    PROVE  \E x \in S : \A y \in S : x <= y
<1> DEFINE Below(n) == 0 .. n - 1
           Family == {Below(n) : n \in S}
<1>1. Family \subseteq FiniteSubsetsOf(Nat) /\ Family # {}
    <2>1. \A n \in S : IsFiniteSet(Below(n)) /\ Below(n) \in SUBSET Nat
        BY FS_Interval
    <2> QED
        BY <2>1 DEF FiniteSubsetsOf
<1>2. PICK least \in Family : \A b \in Family : <<b, least>> \notin StrictSubsetOrdering(Nat)
    <2> HIDE DEF Family
    <2> QED
        BY <1>1, WFMin, FS_StrictSubsetOrderingWellFounded
<1>3. PICK x \in S : least = Below(x)
    OBVIOUS
<1>4. ASSUME NEW y \in S, ~(x <= y) PROVE FALSE
    <2>1. Below(y) \subseteq Below(x) /\ y \in Below(x) /\ y \notin Below(y)
        BY <1>4
    <2>2. <<Below(y), Below(x)>> \in StrictSubsetOrdering(Nat)
        BY <2>1 DEF StrictSubsetOrdering
    <2> QED
        BY <1>2, <1>3, <2>2
<1> QED
    BY <1>4

(* Induction, for a set of numbers.                                        *)
LEMMA Induction ==
    ASSUME NEW S \in SUBSET Nat, 0 \in S, \A n \in S : n + 1 \in S
    PROVE  S = Nat
<1>1. SUFFICES ASSUME Nat \ S # {} PROVE FALSE
    OBVIOUS
<1>2. PICK x \in Nat \ S : \A y \in Nat \ S : x <= y
    BY <1>1, LeastElement
<1>3. x - 1 \in Nat /\ x - 1 \in S
    BY <1>2
<1> QED
    BY <1>2, <1>3

-----------------------------------------------------------------------------
(* The total length of documents.                                          *)

Sums(docs) ==
    CHOOSE sum : sum = [n \in 0 .. Len(docs) |->
                           IF n = 0 THEN 0 ELSE sum[n - 1] + Cardinality(docs[n])]

LEMMA DocumentIsFinite ==
    ASSUME NEW doc \in Documents
    PROVE  IsFiniteSet(doc) /\ Cardinality(doc) \in Nat /\ doc \subseteq Words
<1>1. doc \in SUBSET Words
    BY BM25Assumption
<1> QED
    BY <1>1, FS_Subset, FS_CardinalityType, BM25Assumption

LEMMA SumExists ==
    ASSUME NEW docs \in Seq(Documents)
    PROVE  \E sum : sum = [n \in 0 .. Len(docs) |->
                              IF n = 0 THEN 0 ELSE sum[n - 1] + Cardinality(docs[n])]
<1> DEFINE IsSum(sum, m) == sum = [n \in 0 .. m |->
                                      IF n = 0 THEN 0 ELSE sum[n - 1] + Cardinality(docs[n])]
           Summed == {m \in Nat : \E sum : IsSum(sum, m)}
<1>1. 0 \in Summed
    <2>1. IsSum([n \in 0 .. 0 |-> 0], 0)
        OBVIOUS
    <2> QED
        BY <2>1
<1>2. ASSUME NEW m \in Summed PROVE m + 1 \in Summed
    <2>1. PICK sum : IsSum(sum, m)
        OBVIOUS
    <2> DEFINE longer == [n \in 0 .. m + 1 |-> IF n = m + 1 THEN sum[m] + Cardinality(docs[m + 1])
                                                            ELSE sum[n]]
    <2>2. \A n \in 0 .. m : longer[n] = sum[n]
        OBVIOUS
    <2>3. ASSUME NEW n \in 0 .. m + 1
          PROVE  longer[n] = IF n = 0 THEN 0 ELSE longer[n - 1] + Cardinality(docs[n])
        <3>1. CASE n = m + 1
            BY <2>2, <3>1
        <3>2. CASE n \in 1 .. m
            <4>1. longer[n] = sum[n] /\ longer[n - 1] = sum[n - 1]
                BY <2>2, <3>2
            <4>2. sum[n] = sum[n - 1] + Cardinality(docs[n])
                BY <2>1, <3>2
            <4> QED
                BY <3>2, <4>1, <4>2
        <3>3. CASE n = 0
            BY <2>1, <2>2, <3>3
        <3> QED
            BY <3>1, <3>2, <3>3
    <2>4. IsSum(longer, m + 1)
        <3>1. longer = [n \in 0 .. m + 1 |-> longer[n]]
            OBVIOUS
        <3> HIDE DEF longer
        <3> QED
            BY <2>3, <3>1
    <2>5. m + 1 \in Nat
        OBVIOUS
    <2> HIDE DEF longer, IsSum
    <2> QED
        BY <2>4, <2>5
<1>3. Summed = Nat
    <2> HIDE DEF Summed
    <2>1. Summed \in SUBSET Nat
        BY DEF Summed
    <2> QED
        BY <1>1, <1>2, <2>1, Induction
<1>4. Len(docs) \in Summed
    BY <1>3
<1> QED
    BY <1>4

LEMMA SumsAre ==
    ASSUME NEW docs \in Seq(Documents)
    PROVE  /\ Length(docs) = Sums(docs)[Len(docs)]
           /\ Sums(docs)[0] = 0
           /\ \A n \in 1 .. Len(docs) : Sums(docs)[n] = Sums(docs)[n - 1] + Cardinality(docs[n])
           /\ \A n \in 0 .. Len(docs) : Sums(docs)[n] \in Nat
<1>1. Sums(docs) = [n \in 0 .. Len(docs) |->
                       IF n = 0 THEN 0 ELSE Sums(docs)[n - 1] + Cardinality(docs[n])]
    BY SumExists DEF Sums
<1>2. Length(docs) = Sums(docs)[Len(docs)]
    BY DEF Length, Sums
<1> DEFINE sums == Sums(docs)
<1> HIDE DEF sums
<1>3. /\ sums[0] = 0
      /\ \A n \in 1 .. Len(docs) : sums[n] = sums[n - 1] + Cardinality(docs[n])
    <2>1. sums = [n \in 0 .. Len(docs) |->
                       IF n = 0 THEN 0 ELSE sums[n - 1] + Cardinality(docs[n])]
        BY <1>1 DEF sums
    <2>2. \A n \in 0 .. Len(docs) : sums[n] = IF n = 0 THEN 0 ELSE sums[n - 1] + Cardinality(docs[n])
        BY <2>1
    <2> QED
        BY <2>2
<1>4. \A n \in 0 .. Len(docs) : sums[n] \in Nat
    <2> DEFINE Good == {n \in Nat : n <= Len(docs) => sums[n] \in Nat}
    <2>1. 0 \in Good
        BY <1>3
    <2>2. ASSUME NEW n \in Good PROVE n + 1 \in Good
        <3>1. SUFFICES ASSUME n + 1 <= Len(docs) PROVE sums[n + 1] \in Nat
            OBVIOUS
        <3>2. n + 1 \in 1 .. Len(docs) /\ sums[n] \in Nat /\ docs[n + 1] \in Documents
            BY <3>1
        <3>3. sums[n + 1] = sums[n] + Cardinality(docs[n + 1])
            BY <1>3, <3>2
        <3> QED
            BY <3>2, <3>3, DocumentIsFinite
    <2>3. Good = Nat
        <3> HIDE DEF Good
        <3>1. Good \in SUBSET Nat
            BY DEF Good
        <3> QED
            BY <2>1, <2>2, <3>1, Induction
    <2> QED
        BY <2>3
<1> QED
    BY <1>2, <1>3, <1>4 DEF sums

LEMMA LengthType ==
    ASSUME NEW docs \in Seq(Documents)
    PROVE  Length(docs) \in Nat /\ (docs = <<>> => Length(docs) = 0)
<1>1. Len(docs) \in 0 .. Len(docs) /\ (docs = <<>> => Len(docs) = 0)
    OBVIOUS
<1> QED
    BY <1>1, SumsAre

(* The length of all documents is that of the old ones and of the new.     *)
LEMMA LengthOfBoth ==
    ASSUME NEW old \in Seq(Documents), NEW new \in Seq(Documents)
    PROVE  Length(old \o new) = Length(new) + Length(old)
<1> DEFINE all == old \o new
           a == Sums(old)
           b == Sums(new)
           c == Sums(all)
<1>1. /\ all \in Seq(Documents) /\ Len(all) = Len(old) + Len(new)
      /\ Len(old) \in Nat /\ Len(new) \in Nat
      /\ \A n \in 1 .. Len(old) : all[n] = old[n]
      /\ \A n \in 1 .. Len(new) : all[Len(old) + n] = new[n]
    OBVIOUS
<1> HIDE DEF all
<1>2. /\ a[0] = 0 /\ b[0] = 0 /\ c[0] = 0
      /\ \A n \in 1 .. Len(old) : a[n] = a[n - 1] + Cardinality(old[n])
      /\ \A n \in 1 .. Len(new) : b[n] = b[n - 1] + Cardinality(new[n])
      /\ \A n \in 1 .. Len(all) : c[n] = c[n - 1] + Cardinality(all[n])
    BY <1>1, SumsAre
<1>3. /\ Length(old) = a[Len(old)] /\ Length(new) = b[Len(new)] /\ Length(all) = c[Len(all)]
      /\ a[Len(old)] \in Nat /\ \A n \in 0 .. Len(new) : b[n] \in Nat
    <2>1. Len(old) \in 0 .. Len(old)
        BY <1>1
    <2>2. \A n \in 0 .. Len(old) : a[n] \in Nat
        BY SumsAre
    <2>3. \A n \in 0 .. Len(new) : b[n] \in Nat
        BY SumsAre
    <2>4. Length(old) = a[Len(old)] /\ Length(new) = b[Len(new)] /\ Length(all) = c[Len(all)]
        BY <1>1, SumsAre
    <2> QED
        BY <2>1, <2>2, <2>3, <2>4
<1> HIDE DEF a, b, c
<1> DEFINE First == {n \in Nat : n <= Len(old) => c[n] = a[n]}
           Second == {n \in Nat : n <= Len(new) => c[Len(old) + n] = a[Len(old)] + b[n]}
<1>4. First = Nat
    <2>1. 0 \in First
        BY <1>2
    <2>2. ASSUME NEW n \in First PROVE n + 1 \in First
        <3>1. SUFFICES ASSUME n + 1 <= Len(old) PROVE c[n + 1] = a[n + 1]
            OBVIOUS
        <3>2. n + 1 \in 1 .. Len(old) /\ n + 1 \in 1 .. Len(all) /\ n \in Nat /\ (n + 1) - 1 = n
            BY <1>1, <3>1
        <3>4. c[n] = a[n]
            BY <1>1, <3>1
        <3>3. c[n + 1] = c[n] + Cardinality(all[n + 1]) /\ a[n + 1] = a[n] + Cardinality(old[n + 1])
            BY <1>2, <3>2
        <3> QED
            BY <1>1, <3>2, <3>3, <3>4
    <2> HIDE DEF First
    <2>3. First \in SUBSET Nat
        BY DEF First
    <2> QED
        BY <2>1, <2>2, <2>3, Induction
<1>5. c[Len(old)] = a[Len(old)]
    BY <1>1, <1>4
<1>6. Second = Nat
    <2>1. 0 \in Second
        BY <1>1, <1>2, <1>3, <1>5
    <2>2. ASSUME NEW n \in Second PROVE n + 1 \in Second
        <3>1. SUFFICES ASSUME n + 1 <= Len(new)
                       PROVE  c[Len(old) + (n + 1)] = a[Len(old)] + b[n + 1]
            OBVIOUS
        <3>2. /\ n + 1 \in 1 .. Len(new) /\ Len(old) + (n + 1) \in 1 .. Len(all)
              /\ n \in Nat /\ (n + 1) - 1 = n /\ (Len(old) + (n + 1)) - 1 = Len(old) + n
            BY <1>1, <3>1
        <3>6. c[Len(old) + n] = a[Len(old)] + b[n]
            BY <1>1, <3>1
        <3>3. /\ c[Len(old) + (n + 1)] = c[Len(old) + n] + Cardinality(all[Len(old) + (n + 1)])
              /\ b[n + 1] = b[n] + Cardinality(new[n + 1])
            BY <1>2, <3>2
        <3>4. /\ all[Len(old) + (n + 1)] = new[n + 1] /\ new[n + 1] \in Documents
              /\ b[n] \in Nat /\ a[Len(old)] \in Nat
            BY <1>1, <1>3, <3>2
        <3>5. Cardinality(new[n + 1]) \in Nat
            BY <3>4, DocumentIsFinite
        <3> QED
            BY <3>2, <3>3, <3>4, <3>5, <3>6
    <2> HIDE DEF Second
    <2>3. Second \in SUBSET Nat
        BY DEF Second
    <2> QED
        BY <2>1, <2>2, <2>3, Induction
<1>7. c[Len(old) + Len(new)] = a[Len(old)] + b[Len(new)]
    BY <1>1, <1>6
<1>8. Length(all) = Length(new) + Length(old)
    BY <1>1, <1>3, <1>7
<1> QED
    BY <1>8 DEF all
-----------------------------------------------------------------------------
(* Removal: the n-th document that is kept exists.                         *)

LEMMA WithoutType ==
    ASSUME NEW docs \in Seq(Documents), NEW indices
    PROVE  Without(docs, indices) \in Seq(Documents) /\ Len(Without(docs, indices)) <= Len(docs)
<1> DEFINE kept == DOMAIN docs \ indices
           Upto(i) == {j \in kept : j <= i}
           Rank(i) == Cardinality(Upto(i))
<1>1. kept \subseteq 1 .. Len(docs) /\ Len(docs) \in Nat
    OBVIOUS
<1>2. IsFiniteSet(1 .. Len(docs)) /\ Cardinality(1 .. Len(docs)) = Len(docs)
    BY <1>1, FS_Interval
<1>3. IsFiniteSet(kept) /\ Cardinality(kept) \in Nat /\ Cardinality(kept) <= Len(docs)
    BY <1>1, <1>2, FS_Subset, FS_CardinalityType
<1>4. \A i \in kept : i \in Nat /\ docs[i] \in Documents
    OBVIOUS
<1> HIDE DEF kept
<1>5. ASSUME NEW i \in kept
      PROVE  /\ Upto(i) \in SUBSET kept /\ IsFiniteSet(Upto(i)) /\ i \in Upto(i)
             /\ Rank(i) \in 1 .. Cardinality(kept)
    <2>1. Upto(i) \in SUBSET kept /\ i \in Upto(i)
        BY <1>4
    <2> HIDE DEF Upto
    <2>2. /\ IsFiniteSet(Upto(i)) /\ Rank(i) \in Nat /\ Rank(i) <= Cardinality(kept)
        BY <1>3, <2>1, FS_Subset, FS_CardinalityType
    <2>3. Rank(i) # 0
        BY <2>1, <2>2, FS_EmptySet
    <2> HIDE DEF Rank
    <2>4. Rank(i) \in 1 .. Cardinality(kept)
        BY <1>3, <2>2, <2>3
    <2> QED
        BY <2>1, <2>2, <2>4
<1>6. ASSUME NEW i \in kept, NEW j \in kept, Rank(i) = Rank(j), i < j PROVE FALSE
    <2>1. Upto(i) \in SUBSET Upto(j) /\ j \in Upto(j) /\ j \notin Upto(i)
        BY <1>4, <1>6
    <2>2. IsFiniteSet(Upto(j))
        BY <1>5
    <2>3. Cardinality(Upto(i)) = Cardinality(Upto(j))
        BY <1>6
    <2> HIDE DEF Upto
    <2> QED
        BY <2>1, <2>2, <2>3, FS_Subset
<1> DEFINE rank == [i \in kept |-> Rank(i)]
           range == 1 .. Cardinality(kept)
<1>7. rank \in Injection(kept, range)
    <2>1. rank \in [kept -> range]
        BY <1>5
    <2>2. ASSUME NEW i \in kept, NEW j \in kept, rank[i] = rank[j] PROVE i = j
        <3>1. Rank(i) = Rank(j)
            BY <2>2
        <3> HIDE DEF Rank
        <3> QED
            BY <1>4, <1>6, <3>1
    <2> HIDE DEF rank
    <2> QED
        BY <2>1, <2>2 DEF Injection, IsInjective
<1>8. rank \in Surjection(kept, range)
    <2>1. IsFiniteSet(range) /\ Cardinality(range) = Cardinality(kept)
        BY <1>3, FS_Interval
    <2> HIDE DEF rank, range
    <2> QED
        BY <1>7, <2>1, FS_Injection
<1>9. \A n \in range : \E i \in kept : Rank(i) = n
    <2>1. \A n \in range : \E i \in kept : rank[i] = n
        <3> HIDE DEF rank, range
        <3> QED
            BY <1>8 DEF Surjection
    <2> HIDE DEF Rank
    <2> QED
        BY <2>1
<1>10. Without(docs, indices) = [n \in range |-> docs[CHOOSE i \in kept : Rank(i) = n]]
    BY DEF Without, kept
<1>11. \A n \in range : docs[CHOOSE i \in kept : Rank(i) = n] \in Documents
    <2> HIDE DEF Rank
    <2> QED
        BY <1>4, <1>9
<1> HIDE DEF Rank
<1>12. Without(docs, indices) \in [range -> Documents]
    BY <1>10, <1>11
<1> QED
    BY <1>3, <1>12

-----------------------------------------------------------------------------
(* Document frequencies.                                                   *)

LEMMA DocFreqType ==
    ASSUME NEW docs \in Seq(Documents), NEW word
    PROVE  /\ DocFreq(docs, word) \in 0 .. Len(docs)
           /\ word \in Occurring(docs) => DocFreq(docs, word) > 0
<1> DEFINE those == {i \in DOMAIN docs : word \in docs[i]}
<1>1. those \in SUBSET (1 .. Len(docs)) /\ Len(docs) \in Nat
    OBVIOUS
<1>2. word \in Occurring(docs) => those # {}
    BY DEF Occurring, ToSet
<1>3. IsFiniteSet(1 .. Len(docs)) /\ Cardinality(1 .. Len(docs)) = Len(docs)
    BY <1>1, FS_Interval
<1>4. DocFreq(docs, word) = Cardinality(those)
    BY DEF DocFreq
<1> HIDE DEF those
<1>5. IsFiniteSet(those) /\ Cardinality(those) \in Nat /\ Cardinality(those) <= Len(docs)
    BY <1>1, <1>3, FS_Subset, FS_CardinalityType
<1> QED
    BY <1>1, <1>2, <1>4, <1>5, FS_EmptySet

LEMMA IdfType ==
    ASSUME NEW docs \in Seq(Documents), Len(docs) <= MaxDocs, NEW word
    PROVE  Idf(docs, word) \in Frequency
<1>1. Len(docs) \in 0 .. MaxDocs /\ DocFreq(docs, word) \in 0 .. MaxDocs
    BY DocFreqType, BM25Assumption
<1> QED
    BY <1>1 DEF Idf, Frequency

LEMMA OccurringType ==
    ASSUME NEW docs \in Seq(Documents)
    PROVE  Occurring(docs) \subseteq Words
<1>1. \A i \in DOMAIN docs : docs[i] \in Documents
    OBVIOUS
<1> QED
    BY <1>1, BM25Assumption DEF Occurring, ToSet

-----------------------------------------------------------------------------
(* Numbering.                                                              *)

(* The first `many` words of a sequence without repetitions: each has its  *)
(* place, and there are as many as places.                                 *)
First(order, many) == {order[n] : n \in 1 .. many}
Place(order, many, w) == CHOOSE n \in 1 .. many : order[n] = w

LEMMA Places ==
    ASSUME NEW many \in Nat, NEW order,
           \A m, n \in 1 .. many : order[m] = order[n] => m = n
    PROVE  /\ IsFiniteSet(First(order, many))
           /\ Cardinality(First(order, many)) = many
           /\ \A n \in 1 .. many : Place(order, many, order[n]) = n
<1> DEFINE words == {order[n] : n \in 1 .. many}
           first == [n \in 1 .. many |-> order[n]]
<1>1. first \in Bijection(1 .. many, words)
    <2>1. first \in [1 .. many -> words]
        OBVIOUS
    <2>2. \A w \in words : \E n \in 1 .. many : first[n] = w
        OBVIOUS
    <2>3. \A m, n \in 1 .. many : first[m] = first[n] => m = n
        OBVIOUS
    <2> HIDE DEF first, words
    <2> QED
        BY <2>1, <2>2, <2>3 DEF Bijection, Injection, Surjection, IsInjective
<1>2. IsFiniteSet(1 .. many) /\ Cardinality(1 .. many) = many
    BY FS_Interval
<1>3. IsFiniteSet(words) /\ Cardinality(words) = many
    <2> HIDE DEF first, words
    <2> QED
        BY <1>1, <1>2, FS_Bijection DEF ExistsBijection
<1>4. \A n \in 1 .. many : Place(order, many, order[n]) = n
    BY DEF Place
<1> QED
    BY <1>3, <1>4 DEF First

(* Words numbered from `size` on, in the order of their places.            *)
InTheirPlaces(numbers, words, order, many, size) ==
    /\ \A n \in 1 .. many : order[n] \in words /\ numbers[order[n]] = size + n - 1
    /\ \A w \in words : \E n \in 1 .. many : order[n] = w

Dense(numbers, words, many, size) ==
    /\ \A w \in words : numbers[w] \in size .. size + many - 1
    /\ \A i \in size .. size + many - 1 : \E w \in words : numbers[w] = i

LEMMA NumbersAreDense ==
    ASSUME NEW many \in Nat, NEW order, NEW size \in Nat, NEW numbers, NEW words,
           InTheirPlaces(numbers, words, order, many, size)
    PROVE  Dense(numbers, words, many, size)
<1>1. ASSUME NEW i \in size .. size + many - 1
      PROVE  \E w \in words : numbers[w] = i
    <2> DEFINE n == i - size + 1
    <2>1. n \in 1 .. many /\ size + n - 1 = i
        OBVIOUS
    <2> HIDE DEF n
    <2>2. numbers[order[n]] = i
        BY <2>1 DEF InTheirPlaces
    <2> QED
        BY <2>1, <2>2 DEF InTheirPlaces
<1>2. ASSUME NEW n \in 1 .. many PROVE numbers[order[n]] \in size .. size + many - 1
    BY DEF InTheirPlaces
<1> QED
    BY <1>1, <1>2 DEF InTheirPlaces, Dense

-----------------------------------------------------------------------------
(* The invariant.                                                          *)

Scorings == UNION {[coordinates -> Frequency] : coordinates \in SUBSET Nat}
Job == [doc : SUBSET Words, size : Nat, left : SUBSET Words, tf : SUBSET Words,
        avg : Average, scores : Scorings]

StatisticsType ==
    /\ docTokens \in Seq(Documents) /\ Len(docTokens) <= MaxDocs
    /\ DOMAIN vocabulary \subseteq Words /\ vocabulary \in [DOMAIN vocabulary -> Nat]
    /\ idf \in [DOMAIN vocabulary -> Frequency] /\ VocabularyDense
    /\ avgDocLength \in Average /\ updates \in 0 .. MaxUpdates

CacheType ==
    /\ cacheEnabled \in BOOLEAN /\ DOMAIN cache \subseteq Documents /\ late \subseteq DOMAIN cache
    /\ \A doc \in DOMAIN cache : DOMAIN cache[doc].scores \subseteq 0 .. cache[doc].size - 1

TransformType ==
    /\ pc \in [Threads -> {"idle", "lookup", "count", "score", "store", "panicked"}]
    /\ job \in [Threads -> Job] /\ disturbed \subseteq Threads

(* What a Transform holds, whether or not an update overlapped it.         *)
LocalsFit(t) ==
    /\ job[t].left \cup job[t].tf \subseteq job[t].doc
    /\ pc[t] # "idle" => job[t].doc \in Documents
    /\ pc[t] = "store" => DOMAIN job[t].scores \subseteq 0 .. job[t].size - 1

(* How far a Transform has come that no update overlapped.                 *)
Progress(t) ==
    /\ pc[t] # "panicked"
    /\ pc[t] # "idle" => job[t].size = Cardinality(DOMAIN vocabulary)
    /\ pc[t] = "lookup" => job[t].left = job[t].doc /\ job[t].tf = {}
    /\ pc[t] = "count" => job[t].tf = (job[t].doc \ job[t].left) \cap DOMAIN vocabulary
    /\ pc[t] \in {"score", "store"} => /\ job[t].tf = job[t].doc \cap DOMAIN vocabulary
                                       /\ job[t].avg = avgDocLength
    /\ pc[t] = "store" => job[t].scores = Scores(job[t].doc)

IInv ==
    /\ StatisticsType /\ StatisticsCurrent
    /\ CacheType /\ CachedIsCurrent
    /\ TransformType
    /\ \A t \in Threads : LocalsFit(t)
    /\ \A t \in Threads \ disturbed : Progress(t)

LEMMA NothingYet ==
    /\ Empty \in [{} -> Nat] /\ Empty \in [{} -> Frequency] /\ Empty \in Scorings
    /\ DOMAIN Empty = {} /\ Range(Empty) = {}
    /\ NoAverage \in Average /\ Idle \in Job
    /\ Idle.doc = {} /\ Idle.left = {} /\ Idle.tf = {}
<1>1. /\ Empty \in [{} -> Nat] /\ Empty \in [{} -> Frequency] /\ DOMAIN Empty = {}
      /\ Range(Empty) = {}
    BY DEF Empty, Range
<1>2. Empty \in Scorings
    BY <1>1 DEF Scorings
<1>3. NoAverage \in Average
    BY BM25Assumption DEF NoAverage, Average
<1>4. Idle \in Job
    BY <1>2, <1>3 DEF Idle, Job
<1> QED
    BY <1>1, <1>2, <1>3, <1>4 DEF Idle

LEMMA IInvInit == Init => IInv
<1> SUFFICES ASSUME Init PROVE IInv
    OBVIOUS
<1>1. StatisticsType
    <2>1. VocabularyDense
        BY NothingYet, FS_EmptySet, BM25Assumption DEF Init, VocabularyDense
    <2>2. docTokens \in Seq(Documents) /\ Len(docTokens) <= MaxDocs /\ updates \in 0 .. MaxUpdates
        BY BM25Assumption DEF Init
    <2> QED
        BY <2>1, <2>2, NothingYet DEF Init, StatisticsType
<1>2. StatisticsCurrent
    BY NothingYet DEF Init, StatisticsCurrent
<1>3. CacheType /\ CachedIsCurrent
    BY NothingYet DEF Init, CacheType, CachedIsCurrent
<1>4. TransformType
    BY NothingYet DEF Init, TransformType
<1>5. \A t \in Threads : LocalsFit(t) /\ Progress(t)
    BY NothingYet DEF Init, LocalsFit, Progress
<1> QED
    BY <1>1, <1>2, <1>3, <1>4, <1>5 DEF IInv

-----------------------------------------------------------------------------
(* Updates.                                                                *)

LEMMA BatchType ==
    ASSUME NEW batch \in Batches
    PROVE  batch \in Seq(Documents) /\ Len(batch) \in 1 .. MaxDocs
BY BM25Assumption DEF Batches

(* An update leaves nothing in the cache and nobody undisturbed.           *)
LEMMA EndUpdateKeeps ==
    ASSUME IInv, StatisticsType', StatisticsCurrent', EndUpdate
    PROVE  IInv'
<1> USE DEF IInv
<1>1. /\ cache' = Empty /\ late' = {} /\ disturbed' = {t \in Threads : pc[t] # "idle"}
      /\ UNCHANGED <<cacheEnabled, pc, job>>
    BY DEF EndUpdate
<1>2. CacheType' /\ CachedIsCurrent'
    BY <1>1, NothingYet DEF CacheType, CachedIsCurrent
<1>3. TransformType'
    BY <1>1 DEF TransformType
<1>4. \A t \in Threads : LocalsFit(t)'
    BY <1>1 DEF LocalsFit
<1>5. \A t \in Threads \ disturbed' : Progress(t)'
    BY <1>1 DEF Progress
<1> QED
    BY <1>2, <1>3, <1>4, <1>5

(* The statistics after an update that counts everything again.            *)
LEMMA AllCounted ==
    ASSUME docTokens' \in Seq(Documents), Len(docTokens') <= MaxDocs, docTokens' # <<>>,
           avgDocLength' = [sum |-> Length(docTokens'), docs |-> Len(docTokens')],
           DOMAIN vocabulary' \subseteq Words, vocabulary' \in [DOMAIN vocabulary' -> Nat],
           idf' = [w \in DOMAIN vocabulary' |-> Idf(docTokens', w)],
           Range(vocabulary') = 0 .. Cardinality(DOMAIN vocabulary') - 1,
           Cardinality(DOMAIN vocabulary') <= MaxVocabSize,
           updates \in 0 .. MaxUpdates, updates < MaxUpdates, EndUpdate
    PROVE  StatisticsType' /\ StatisticsCurrent'
<1>1. avgDocLength' \in Average
    BY LengthType, BM25Assumption DEF Average
<1>2. updates' \in 0 .. MaxUpdates
    BY BM25Assumption DEF EndUpdate
<1>3. idf' \in [DOMAIN vocabulary' -> Frequency]
    BY IdfType
<1>4. StatisticsType'
    BY <1>1, <1>2, <1>3 DEF StatisticsType, VocabularyDense
<1>5. StatisticsCurrent'
    BY DEF StatisticsCurrent, docCount
<1> QED
    BY <1>4, <1>5

LEMMA FitKeeps ==
    ASSUME IInv, NEW batch \in Batches, Fit(batch)
    PROVE  IInv'
<1> DEFINE words == {w \in Occurring(batch) : Passes(batch, w, Len(batch))}
<1>1. batch \in Seq(Documents) /\ Len(batch) \in 1 .. MaxDocs
    BY BatchType
<1>2. words \subseteq Words /\ IsFiniteSet(words)
    <2>1. words \subseteq Words
        BY <1>1, OccurringType
    <2> HIDE DEF words
    <2> QED
        BY <2>1, FS_Subset, BM25Assumption
<1>3. PICK order \in SetToSeqs(words) :
          vocabulary' = [w \in {order[n] : n \in {n \in DOMAIN order : n <= MaxVocabSize}} |->
              (CHOOSE n \in {n \in DOMAIN order : n <= MaxVocabSize} : order[n] = w) - 1]
    BY DEF Fit
<1> DEFINE total == Cardinality(words)
           many == IF total <= MaxVocabSize THEN total ELSE MaxVocabSize
<1> HIDE DEF words
<1>4. total \in Nat /\ MaxVocabSize \in Nat
    BY <1>2, FS_CardinalityType, BM25Assumption
<1>5. order \in [1 .. total -> words] /\ \A m, n \in 1 .. total : order[m] = order[n] => m = n
    BY <1>3 DEF SetToSeqs
<1> HIDE DEF total
<1>6. {n \in DOMAIN order : n <= MaxVocabSize} = 1 .. many
    BY <1>4, <1>5
<1>7. many \in Nat /\ many <= MaxVocabSize /\ many <= total
    BY <1>4
<1> HIDE DEF many
<1> DEFINE chosen == First(order, many)
<1>8. /\ vocabulary' = [w \in chosen |-> (CHOOSE n \in 1 .. many : order[n] = w) - 1]
      /\ \A m, n \in 1 .. many : order[m] = order[n] => m = n
      /\ chosen \subseteq words
    BY <1>3, <1>4, <1>5, <1>6, <1>7 DEF First
<1>9. DOMAIN vocabulary' = chosen /\ Cardinality(chosen) = many
    <2>1. Cardinality(chosen) = many
        BY <1>7, <1>8, Places
    <2> HIDE DEF chosen
    <2> QED
        BY <1>8, <2>1
<1>10. {vocabulary'[w] : w \in chosen} = 0 .. 0 + many - 1
    <2>1. ASSUME NEW n \in 1 .. many
          PROVE  vocabulary'[order[n]] = 0 + n - 1
        <3>1. Place(order, many, order[n]) = n
            BY <1>7, <1>8, Places
        <3>2. order[n] \in chosen
            BY DEF First
        <3>3. vocabulary'[order[n]] = Place(order, many, order[n]) - 1
            <4> HIDE DEF chosen
            <4> QED
                BY <1>8, <3>2 DEF Place
        <3> QED
            BY <1>7, <3>1, <3>3
    <2>2. /\ 0 \in Nat /\ \A n \in 1 .. many : order[n] \in chosen
          /\ \A w \in chosen : \E n \in 1 .. many : order[n] = w
        BY DEF First
    <2>4. InTheirPlaces(vocabulary', chosen, order, many, 0)
        BY <2>1, <2>2 DEF InTheirPlaces
    <2> HIDE DEF chosen
    <2>3. Dense(vocabulary', chosen, many, 0)
        BY <1>7, <2>4, NumbersAreDense
    <2> QED
        BY <2>3 DEF Dense
<1> HIDE DEF chosen
<1>11. /\ Range(vocabulary') = 0 .. Cardinality(DOMAIN vocabulary') - 1
       /\ Cardinality(DOMAIN vocabulary') <= MaxVocabSize
       /\ DOMAIN vocabulary' \subseteq Words /\ vocabulary' \in [DOMAIN vocabulary' -> Nat]
    <2>1. Range(vocabulary') = 0 .. many - 1
        BY <1>7, <1>9, <1>10 DEF Range
    <2>2. \A w \in chosen : vocabulary'[w] \in Nat
        BY <1>7, <1>10
    <2>3. vocabulary' = [w \in chosen |-> vocabulary'[w]]
        BY <1>8
    <2> QED
        BY <1>2, <1>7, <1>8, <1>9, <2>1, <2>2, <2>3
<1>12. /\ docTokens' = batch /\ batch # <<>> /\ updates < MaxUpdates /\ EndUpdate
       /\ avgDocLength' = [sum |-> Length(batch), docs |-> Len(batch)]
       /\ idf' = [w \in DOMAIN vocabulary' |-> Idf(batch, w)]
    BY DEF Fit
<1>13. StatisticsType' /\ StatisticsCurrent'
    BY <1>1, <1>11, <1>12, AllCounted DEF IInv, StatisticsType
<1> QED
    BY <1>12, <1>13, EndUpdateKeeps

LEMMA AddDocumentsKeeps ==
    ASSUME IInv, NEW batch \in Batches, AddDocuments(batch)
    PROVE  IInv'
<1> USE DEF IInv
<1> DEFINE size == Cardinality(DOMAIN vocabulary)
           room == MaxVocabSize - size
           new == {w \in Occurring(batch) \ DOMAIN vocabulary : Passes(batch, w, Len(docTokens'))}
<1>1. batch \in Seq(Documents) /\ Len(batch) \in 1 .. MaxDocs
    BY BatchType
<1>2. /\ new \subseteq Words /\ new \cap DOMAIN vocabulary = {} /\ IsFiniteSet(new)
    <2>1. new \subseteq Words /\ new \cap DOMAIN vocabulary = {}
        BY <1>1, OccurringType
    <2> HIDE DEF new
    <2> QED
        BY <2>1, FS_Subset, BM25Assumption
<1>3. PICK order \in Numbered(new, room) :
          vocabulary' = [w \in DOMAIN vocabulary \cup ToSet(order) |->
                            IF w \in DOMAIN vocabulary THEN vocabulary[w]
                            ELSE size + (CHOOSE n \in DOMAIN order : order[n] = w) - 1]
    BY DEF AddDocuments
<1> HIDE DEF new
<1>4. /\ IsFiniteSet(DOMAIN vocabulary) /\ size \in Nat /\ room \in Nat /\ MaxVocabSize \in Nat
      /\ Range(vocabulary) = 0 .. size - 1 /\ DOMAIN vocabulary \subseteq Words
      /\ vocabulary \in [DOMAIN vocabulary -> Nat] /\ room = MaxVocabSize - size
    <2>1. DOMAIN vocabulary \subseteq Words /\ size <= MaxVocabSize
        BY DEF StatisticsType, VocabularyDense
    <2>2. IsFiniteSet(DOMAIN vocabulary) /\ size \in Nat
        BY <2>1, FS_Subset, FS_CardinalityType, BM25Assumption
    <2> QED
        BY <2>1, <2>2, BM25Assumption DEF StatisticsType, VocabularyDense
<1> HIDE DEF size, room
<1> DEFINE total == Cardinality(new)
           many == IF total > room THEN room ELSE total
<1>5. PICK all \in SetToSeqs(new) :
          order = SubSeq(all, 1, IF Len(all) > room THEN room ELSE Len(all))
    BY <1>3 DEF Numbered
<1>6. total \in Nat
    BY <1>2, FS_CardinalityType
<1>7. all \in [1 .. total -> new] /\ \A m, n \in 1 .. total : all[m] = all[n] => m = n
    BY <1>5 DEF SetToSeqs
<1> HIDE DEF total
<1>8. many \in Nat /\ many <= room /\ many <= total
    BY <1>4, <1>6
<1>9. Len(all) = total /\ order = SubSeq(all, 1, many) /\ all \in Seq(new)
    <2>1. all \in Seq(new) /\ Len(all) = total
        BY <1>6, <1>7
    <2> QED
        BY <1>5, <2>1
<1> HIDE DEF many
<1>10. DOMAIN order = 1 .. many /\ \A n \in 1 .. many : order[n] = all[n] /\ order[n] \in new
    BY <1>6, <1>7, <1>8, <1>9
<1> DEFINE added == First(order, many)
<1>11. /\ ToSet(order) = added /\ added \subseteq new
       /\ \A m, n \in 1 .. many : order[m] = order[n] => m = n
    BY <1>6, <1>7, <1>8, <1>10 DEF ToSet, First
<1>12. IsFiniteSet(added) /\ Cardinality(added) = many
    BY <1>8, <1>11, Places
<1>13. {vocabulary'[w] : w \in added} = size .. size + many - 1
    <2>1. ASSUME NEW n \in 1 .. many
          PROVE  vocabulary'[order[n]] = size + n - 1
        <3>1. order[n] \in added /\ order[n] \notin DOMAIN vocabulary
            BY <1>2, <1>11 DEF First
        <3>2. Place(order, many, order[n]) = n
            BY <1>8, <1>11, Places
        <3> HIDE DEF added
        <3>3. vocabulary'[order[n]] = size + Place(order, many, order[n]) - 1
            BY <1>3, <1>10, <1>11, <3>1 DEF Place
        <3> QED
            BY <3>2, <3>3
    <2>2. /\ \A n \in 1 .. many : order[n] \in added
          /\ \A w \in added : \E n \in 1 .. many : order[n] = w
        BY DEF First
    <2>4. InTheirPlaces(vocabulary', added, order, many, size)
        BY <2>1, <2>2 DEF InTheirPlaces
    <2>5. size \in Nat /\ many \in Nat
        BY <1>4, <1>8
    <2> HIDE DEF added
    <2>3. Dense(vocabulary', added, many, size)
        BY <2>4, <2>5, NumbersAreDense
    <2> QED
        BY <2>3 DEF Dense
<1> HIDE DEF added
<1>14. DOMAIN vocabulary' = DOMAIN vocabulary \cup added
    BY <1>3, <1>11
<1>15. Cardinality(DOMAIN vocabulary') = size + many
    <2>1. DOMAIN vocabulary \cap added = {}
        BY <1>2, <1>11
    <2>2. Cardinality(DOMAIN vocabulary \cap added) = 0
        BY <2>1, FS_EmptySet
    <2>3. Cardinality(DOMAIN vocabulary \cup added) =
              Cardinality(DOMAIN vocabulary) + Cardinality(added) - Cardinality(DOMAIN vocabulary \cap added)
        BY <1>4, <1>12, FS_Union
    <2> QED
        BY <1>4, <1>8, <1>12, <1>14, <2>2, <2>3 DEF size
<1>16. \A w \in DOMAIN vocabulary : vocabulary'[w] = vocabulary[w]
    BY <1>3
<1>17. Range(vocabulary') = 0 .. size + many - 1
    <2>1. {vocabulary'[w] : w \in DOMAIN vocabulary} = 0 .. size - 1
        BY <1>4, <1>16 DEF Range
    <2>2. Range(vocabulary') = {vocabulary'[w] : w \in DOMAIN vocabulary} \cup {vocabulary'[w] : w \in added}
        BY <1>14 DEF Range
    <2>3. (0 .. size - 1) \cup (size .. size + many - 1) = 0 .. size + many - 1
        BY <1>4, <1>8
    <2> QED
        BY <1>13, <2>1, <2>2, <2>3
<1>18. /\ Range(vocabulary') = 0 .. Cardinality(DOMAIN vocabulary') - 1
       /\ Cardinality(DOMAIN vocabulary') <= MaxVocabSize
       /\ DOMAIN vocabulary' \subseteq Words /\ vocabulary' \in [DOMAIN vocabulary' -> Nat]
    <2>1. \A w \in DOMAIN vocabulary' : vocabulary'[w] \in Nat
        BY <1>4, <1>8, <1>17 DEF Range
    <2>2. vocabulary' = [w \in DOMAIN vocabulary' |-> vocabulary'[w]]
        BY <1>3
    <2>3. size + many <= MaxVocabSize
        BY <1>4, <1>8
    <2>4. DOMAIN vocabulary' \subseteq Words
        BY <1>2, <1>4, <1>11, <1>14
    <2>5. vocabulary' \in [DOMAIN vocabulary' -> Nat]
        BY <2>1, <2>2
    <2>6. Range(vocabulary') = 0 .. Cardinality(DOMAIN vocabulary') - 1
        BY <1>4, <1>8, <1>15, <1>17
    <2>7. Cardinality(DOMAIN vocabulary') <= MaxVocabSize
        BY <1>15, <2>3
    <2> QED
        BY <2>4, <2>5, <2>6, <2>7
<1>19. /\ docTokens' = docTokens \o batch /\ updates < MaxUpdates /\ EndUpdate
       /\ docCount + Len(batch) <= MaxDocs
       /\ avgDocLength' = [sum |-> Length(batch) + (IF docCount = 0 THEN 0 ELSE avgDocLength.sum),
                           docs |-> Len(docTokens')]
       /\ idf' = [w \in DOMAIN vocabulary' |-> Idf(docTokens', w)]
    BY DEF AddDocuments
<1>20. /\ docTokens' \in Seq(Documents) /\ Len(docTokens') <= MaxDocs /\ docTokens' # <<>>
       /\ updates \in 0 .. MaxUpdates
    BY <1>1, <1>19, BM25Assumption DEF StatisticsType, docCount
<1>21. Length(batch) + (IF docCount = 0 THEN 0 ELSE avgDocLength.sum) = Length(docTokens')
    <2>1. docTokens \in Seq(Documents) /\ (docCount = 0 <=> docTokens = <<>>)
        BY DEF StatisticsType, docCount
    <2>2. Length(docTokens') = Length(batch) + Length(docTokens)
        BY <1>1, <1>19, <2>1, LengthOfBoth
    <2>3. docTokens # <<>> => avgDocLength.sum = Length(docTokens)
        BY DEF StatisticsCurrent
    <2> QED
        BY <2>1, <2>2, <2>3, LengthType
<1>22. StatisticsType' /\ StatisticsCurrent'
    BY <1>18, <1>19, <1>20, <1>21, AllCounted
<1> QED
    BY <1>19, <1>22, EndUpdateKeeps

LEMMA RemoveDocumentsKeeps ==
    ASSUME IInv, NEW indices, RemoveDocuments(indices)
    PROVE  IInv'
<1> USE DEF IInv
<1>1. /\ docTokens' = Without(docTokens, indices) /\ updates < MaxUpdates /\ EndUpdate
      /\ avgDocLength' = IF docTokens' = <<>> THEN avgDocLength
                         ELSE [sum |-> Length(docTokens'), docs |-> Len(docTokens')]
      /\ idf' = [w \in DOMAIN idf |->
                    IF DocFreq(docTokens', w) > 0 THEN Idf(docTokens', w) ELSE idf[w]]
      /\ vocabulary' = vocabulary
    BY DEF RemoveDocuments
<1>2. docTokens' \in Seq(Documents) /\ Len(docTokens') <= MaxDocs
    <2>1. docTokens \in Seq(Documents) /\ Len(docTokens) <= MaxDocs /\ Len(docTokens) \in Nat
        BY DEF StatisticsType
    <2>2. docTokens' \in Seq(Documents) /\ Len(docTokens') <= Len(docTokens)
        BY <1>1, <2>1, WithoutType
    <2>3. Len(docTokens') \in Nat
        BY <2>2
    <2> QED
        BY <2>1, <2>2, <2>3, BM25Assumption
<1>3. avgDocLength' \in Average
    <2>1. Length(docTokens') \in Nat /\ Len(docTokens') \in 0 .. MaxDocs
        BY <1>2, LengthType, BM25Assumption
    <2> QED
        BY <1>1, <2>1 DEF Average, StatisticsType
<1>4. idf' \in [DOMAIN vocabulary' -> Frequency]
    <2>1. \A w : Idf(docTokens', w) \in Frequency
        BY <1>2, IdfType
    <2> QED
        BY <1>1, <2>1 DEF StatisticsType
<1>5. updates' \in 0 .. MaxUpdates
    BY <1>1, BM25Assumption DEF EndUpdate, StatisticsType
<1>6. StatisticsType'
    BY <1>1, <1>2, <1>3, <1>4, <1>5 DEF StatisticsType, VocabularyDense
<1>7. StatisticsCurrent'
    <2>1. ASSUME NEW w \in DOMAIN idf', w \in Occurring(docTokens') PROVE idf'[w] = Idf(docTokens', w)
        <3>1. DocFreq(docTokens', w) > 0
            BY <1>2, <2>1, DocFreqType
        <3>2. w \in DOMAIN idf
            BY <1>1
        <3> QED
            BY <1>1, <3>1, <3>2
    <2> QED
        BY <1>1, <2>1 DEF StatisticsCurrent, docCount
<1> QED
    BY <1>1, <1>6, <1>7, EndUpdateKeeps
-----------------------------------------------------------------------------
(* Transform.                                                              *)

LEMMA ScoresType ==
    ASSUME StatisticsType, NEW tf
    PROVE  /\ Scores(tf) \in Scorings
           /\ DOMAIN Scores(tf) \subseteq 0 .. Cardinality(DOMAIN vocabulary) - 1
           /\ Scores(tf \cap DOMAIN vocabulary) = Scores(tf)
<1> DEFINE known == tf \cap DOMAIN vocabulary
           coordinates == {vocabulary[w] : w \in known}
<1>1. Scores(tf) = [n \in coordinates |-> idf[CHOOSE w \in known : vocabulary[w] = n]]
    BY DEF Scores
<1>2. /\ coordinates \in SUBSET Nat
      /\ coordinates \subseteq 0 .. Cardinality(DOMAIN vocabulary) - 1
    BY DEF StatisticsType, VocabularyDense, Range
<1>3. \A n \in coordinates : idf[CHOOSE w \in known : vocabulary[w] = n] \in Frequency
    <2>1. \A n \in coordinates : \E w \in known : vocabulary[w] = n
        OBVIOUS
    <2>2. \A w \in known : idf[w] \in Frequency
        BY DEF StatisticsType
    <2> HIDE DEF known, coordinates
    <2> QED
        BY <2>1, <2>2
<1>4. Scores(tf) \in [coordinates -> Frequency] /\ DOMAIN Scores(tf) = coordinates
    <2> HIDE DEF coordinates, known
    <2> QED
        BY <1>1, <1>3
<1>5. Scores(tf) \in Scorings
    <2> HIDE DEF coordinates
    <2> QED
        BY <1>2, <1>4 DEF Scorings
<1>6. Scores(tf \cap DOMAIN vocabulary) = Scores(tf)
    <2>1. (tf \cap DOMAIN vocabulary) \cap DOMAIN vocabulary = tf \cap DOMAIN vocabulary
        OBVIOUS
    <2> DEFINE ScoresOf(some) == [n \in {vocabulary[w] : w \in some} |->
                                     idf[CHOOSE w \in some : vocabulary[w] = n]]
    <2>2. \A any : Scores(any) = ScoresOf(any \cap DOMAIN vocabulary)
        BY DEF Scores
    <2> HIDE DEF ScoresOf
    <2> QED
        BY <2>1, <2>2
<1> QED
    BY <1>2, <1>4, <1>5, <1>6

(* A step of one Transform, that of t.                                     *)
LEMMA TransformKeeps ==
    ASSUME IInv, NEW t \in Threads,
           NEW next \in {"idle", "lookup", "count", "score", "store", "panicked"}, NEW locals \in Job,
           Continue(t, next, locals), UNCHANGED statistics, CacheType', CachedIsCurrent',
           disturbed' = disturbed \/ (disturbed' = disturbed \ {t} /\ next = "idle"),
           locals.left \cup locals.tf \subseteq locals.doc,
           next # "idle" => locals.doc \in Documents,
           next = "store" => DOMAIN locals.scores \subseteq 0 .. locals.size - 1,
           t \notin disturbed /\ next # "idle" => Progress(t)'
    PROVE  IInv'
<1> USE DEF IInv
<1>1. /\ pc'[t] = next /\ job'[t] = locals
      /\ \A r \in Threads \ {t} : pc'[r] = pc[r] /\ job'[r] = job[r]
    BY DEF Continue, TransformType
<1>2. UNCHANGED <<docTokens, vocabulary, idf, avgDocLength, updates>>
    BY DEF statistics
<1>3. StatisticsType' /\ StatisticsCurrent'
    BY <1>2 DEF StatisticsType, StatisticsCurrent, VocabularyDense, docCount
<1>4. TransformType'
    BY DEF Continue, TransformType
<1>5. \A r \in Threads : LocalsFit(r)'
    BY <1>1 DEF LocalsFit
<1>6. \A r \in Threads \ disturbed' : Progress(r)'
    <2>1. CASE next = "idle"
        <3>1. ASSUME NEW r \in Threads \ disturbed', r # t PROVE Progress(r)'
            <4>1. Progress(r) /\ pc'[r] = pc[r] /\ job'[r] = job[r]
                BY <1>1, <3>1
            <4> QED
                BY <1>2, <4>1 DEF Progress, Scores
        <3>2. Progress(t)'
            BY <1>1, <2>1 DEF Progress
        <3> QED
            BY <3>1, <3>2
    <2>2. CASE next # "idle"
        <3>1. ASSUME NEW r \in Threads \ disturbed', r # t PROVE Progress(r)'
            <4>1. Progress(r) /\ pc'[r] = pc[r] /\ job'[r] = job[r]
                BY <1>1, <2>2, <3>1
            <4> QED
                BY <1>2, <4>1 DEF Progress, Scores
        <3> QED
            BY <2>2, <3>1
    <2> QED
        BY <2>1, <2>2
<1> QED
    BY <1>3, <1>4, <1>5, <1>6

(* The cache and what an exact vector is do not change.                    *)
LEMMA CacheStays ==
    ASSUME IInv, UNCHANGED statistics, UNCHANGED caching
    PROVE  CacheType' /\ CachedIsCurrent'
<1>1. /\ UNCHANGED <<docTokens, vocabulary, idf, avgDocLength, updates>>
      /\ UNCHANGED <<cache, cacheEnabled, late>>
    BY DEF statistics, caching
<1>2. CacheType'
    BY <1>1 DEF IInv, CacheType
<1>3. \A doc : Exact(doc)' = Exact(doc)
    BY <1>1 DEF Exact, Scores
<1> QED
    BY <1>1, <1>2, <1>3 DEF IInv, CachedIsCurrent

LEMMA SizeType ==
    ASSUME IInv
    PROVE  Cardinality(DOMAIN vocabulary) \in Nat
<1>1. DOMAIN vocabulary \in SUBSET Words
    BY DEF IInv, StatisticsType
<1> QED
    BY <1>1, FS_Subset, FS_CardinalityType, BM25Assumption

LEMMA StartTransformKeeps ==
    ASSUME IInv, NEW t \in Threads, NEW doc \in Documents, StartTransform(t, doc)
    PROVE  IInv'
<1> DEFINE locals == [Idle EXCEPT !.doc = doc, !.left = doc, !.size = Cardinality(DOMAIN vocabulary)]
<1>1. Continue(t, "lookup", locals) /\ UNCHANGED <<statistics, caching, disturbed>>
    BY DEF StartTransform
<1>2. /\ locals \in Job /\ locals.doc = doc /\ locals.left = doc /\ locals.tf = {}
      /\ locals.size = Cardinality(DOMAIN vocabulary)
    BY NothingYet, SizeType, BM25Assumption DEF Job, Idle
<1> HIDE DEF locals
<1>3. Progress(t)'
    <2>1. pc'[t] = "lookup" /\ job'[t] = locals
        BY <1>1 DEF Continue, IInv, TransformType
    <2>2. vocabulary' = vocabulary
        BY <1>1 DEF statistics
    <2> QED
        BY <1>2, <2>1, <2>2 DEF Progress
<1> QED
    BY <1>1, <1>2, <1>3, CacheStays, TransformKeeps

LEMMA LookUpKeeps == ASSUME IInv, NEW t \in Threads, LookUp(t) PROVE IInv'
<1>1. pc[t] = "lookup" /\ job[t] \in Job /\ LocalsFit(t) /\ UNCHANGED <<statistics, caching>>
    BY DEF LookUp, IInv, TransformType
<1>2. CASE Continue(t, "idle", Idle) /\ disturbed' = disturbed \ {t}
    BY <1>1, <1>2, NothingYet, CacheStays, TransformKeeps
<1>3. CASE Continue(t, "count", job[t]) /\ UNCHANGED disturbed
    <2>1. ASSUME t \notin disturbed PROVE Progress(t)'
        <3>1. pc'[t] = "count" /\ job'[t] = job[t] /\ vocabulary' = vocabulary
            BY <1>1, <1>3 DEF Continue, IInv, TransformType, statistics
        <3>2. Progress(t)
            BY <2>1 DEF IInv
        <3> QED
            BY <1>1, <3>1, <3>2 DEF Progress
    <2> QED
        BY <1>1, <1>3, <2>1, CacheStays, TransformKeeps DEF LocalsFit
<1> QED
    BY <1>2, <1>3 DEF LookUp

LEMMA CountWordKeeps == ASSUME IInv, NEW t \in Threads, CountWord(t) PROVE IInv'
<1>1. /\ pc[t] = "count" /\ job[t] \in Job /\ LocalsFit(t)
      /\ UNCHANGED <<statistics, caching, disturbed>>
    BY DEF CountWord, IInv, TransformType
<1>2. PICK word \in job[t].left :
          Continue(t, "count", [job[t] EXCEPT !.left = @ \ {word},
                                              !.tf = @ \cup ({word} \cap DOMAIN vocabulary)])
    BY DEF CountWord
<1> DEFINE locals == [job[t] EXCEPT !.left = @ \ {word},
                                    !.tf = @ \cup ({word} \cap DOMAIN vocabulary)]
<1>3. /\ locals \in Job /\ locals.doc = job[t].doc /\ locals.size = job[t].size
      /\ locals.left = job[t].left \ {word}
      /\ locals.tf = job[t].tf \cup ({word} \cap DOMAIN vocabulary)
    BY <1>1 DEF Job
<1>4. Continue(t, "count", locals)
    BY <1>2
<1> HIDE DEF locals
<1>5. /\ word \in job[t].doc /\ locals.left \cup locals.tf \subseteq locals.doc
      /\ locals.doc \in Documents
    BY <1>1, <1>3 DEF LocalsFit
<1>6. ASSUME t \notin disturbed PROVE Progress(t)'
    <2>1. pc'[t] = "count" /\ job'[t] = locals /\ vocabulary' = vocabulary
        BY <1>1, <1>4 DEF Continue, IInv, TransformType, statistics
    <2>2. /\ job[t].tf = (job[t].doc \ job[t].left) \cap DOMAIN vocabulary
          /\ job[t].size = Cardinality(DOMAIN vocabulary)
        BY <1>1, <1>6 DEF Progress, IInv
    <2>3. locals.tf = (locals.doc \ locals.left) \cap DOMAIN vocabulary
        BY <1>3, <1>5, <2>2
    <2> QED
        BY <1>3, <2>1, <2>2, <2>3 DEF Progress
<1> QED
    BY <1>1, <1>3, <1>4, <1>5, <1>6, CacheStays, TransformKeeps

LEMMA ReadAverageKeeps == ASSUME IInv, NEW t \in Threads, ReadAverage(t) PROVE IInv'
<1> DEFINE locals == [job[t] EXCEPT !.avg = avgDocLength]
<1>1. /\ pc[t] = "count" /\ job[t].left = {} /\ job[t] \in Job /\ LocalsFit(t)
      /\ Continue(t, "score", locals) /\ UNCHANGED <<statistics, caching, disturbed>>
    BY DEF ReadAverage, IInv, TransformType
<1>2. /\ locals \in Job /\ locals.doc = job[t].doc /\ locals.size = job[t].size
      /\ locals.left = {} /\ locals.tf = job[t].tf /\ locals.avg = avgDocLength
    BY <1>1 DEF Job, IInv, StatisticsType
<1> HIDE DEF locals
<1>3. locals.left \cup locals.tf \subseteq locals.doc /\ locals.doc \in Documents
    BY <1>1, <1>2 DEF LocalsFit
<1>4. ASSUME t \notin disturbed PROVE Progress(t)'
    <2>1. /\ pc'[t] = "score" /\ job'[t] = locals
          /\ vocabulary' = vocabulary /\ avgDocLength' = avgDocLength
        BY <1>1 DEF Continue, IInv, TransformType, statistics
    <2>2. /\ job[t].tf = (job[t].doc \ job[t].left) \cap DOMAIN vocabulary
          /\ job[t].size = Cardinality(DOMAIN vocabulary)
        BY <1>1, <1>4 DEF Progress, IInv
    <2>3. locals.tf = locals.doc \cap DOMAIN vocabulary
        BY <1>1, <1>2, <2>2
    <2> QED
        BY <1>2, <2>1, <2>2, <2>3 DEF Progress
<1> QED
    BY <1>1, <1>2, <1>3, <1>4, CacheStays, TransformKeeps

(* Without an update in between, every coordinate is within the vector.    *)
LEMMA ScoreKeeps == ASSUME IInv, NEW t \in Threads, Score(t) PROVE IInv'
<1> DEFINE scores == Scores(job[t].tf)
           locals == [job[t] EXCEPT !.scores = scores]
<1>1. /\ pc[t] = "score" /\ job[t] \in Job /\ LocalsFit(t) /\ StatisticsType
      /\ UNCHANGED <<statistics, caching, disturbed>>
    BY DEF Score, IInv, TransformType
<1>2. /\ UNCHANGED <<vocabulary, avgDocLength>> /\ \A doc : Scores(doc)' = Scores(doc)
    BY <1>1 DEF statistics, Scores
<1>3. scores \in Scorings /\ DOMAIN scores \subseteq 0 .. Cardinality(DOMAIN vocabulary) - 1
    BY <1>1, ScoresType
<1>4. t \notin disturbed => Progress(t)
    BY DEF IInv
<1>5. Cardinality(DOMAIN vocabulary) \in Nat
    BY SizeType
<1> HIDE DEF scores
<1>6. CASE (\A n \in DOMAIN scores : n < job[t].size) /\ Continue(t, "store", locals)
    <2>1. /\ locals \in Job /\ locals.doc = job[t].doc /\ locals.size = job[t].size
          /\ locals.left = job[t].left /\ locals.tf = job[t].tf /\ locals.avg = job[t].avg
          /\ locals.scores = scores /\ locals.size \in Nat
        BY <1>1, <1>3 DEF Job
    <2>2. Continue(t, "store", locals)
        BY <1>6
    <2> HIDE DEF locals
    <2>3. DOMAIN locals.scores \subseteq 0 .. locals.size - 1
        BY <1>3, <1>5, <1>6, <2>1
    <2>4. locals.left \cup locals.tf \subseteq locals.doc /\ locals.doc \in Documents
        BY <1>1, <2>1 DEF LocalsFit
    <2>5. ASSUME t \notin disturbed PROVE Progress(t)'
        <3>1. pc'[t] = "store" /\ job'[t] = locals
            BY <1>1, <2>2 DEF Continue, IInv, TransformType
        <3>2. locals.scores = Scores(locals.doc)
            BY <1>1, <1>4, <2>1, <2>5, ScoresType DEF Progress, scores
        <3> QED
            BY <1>1, <1>2, <1>4, <2>1, <2>5, <3>1, <3>2 DEF Progress
    <2> QED
        BY <1>1, <2>1, <2>2, <2>3, <2>4, <2>5, CacheStays, TransformKeeps
<1>7. CASE ~(\A n \in DOMAIN scores : n < job[t].size) /\ Continue(t, "panicked", job[t])
    <2>1. t \in disturbed
        BY <1>1, <1>3, <1>4, <1>5, <1>7 DEF Progress
    <2> QED
        BY <1>1, <1>7, <2>1, CacheStays, TransformKeeps DEF LocalsFit
<1> QED
    BY <1>6, <1>7 DEF Score, scores

LEMMA StoreKeeps == ASSUME IInv, NEW t \in Threads, Store(t) PROVE IInv'
<1>1. /\ pc[t] = "store" /\ job[t] \in Job /\ LocalsFit(t) /\ StatisticsType
      /\ Continue(t, "idle", Idle) /\ disturbed' = disturbed \ {t}
      /\ UNCHANGED statistics /\ cacheEnabled' = cacheEnabled /\ CacheType /\ CachedIsCurrent
    BY DEF Store, IInv, TransformType
<1>2. \A doc : Exact(doc)' = Exact(doc)
    BY <1>1 DEF statistics, Exact, Scores
<1>3. CacheType' /\ CachedIsCurrent'
    <2>1. CASE ~cacheEnabled
        BY <1>1, <2>1, CacheStays DEF Store, caching
    <2>2. CASE cacheEnabled
        <3> DEFINE doc == job[t].doc
        <3>1. /\ cache' = [d \in DOMAIN cache \cup {doc} |->
                              IF d = doc THEN Vector(job[t]) ELSE cache[d]]
              /\ late' = IF t \in disturbed THEN late \cup {doc} ELSE late \ {doc}
            BY <2>2 DEF Store
        <3>2. doc \in Documents
            BY <1>1 DEF LocalsFit
        <3> DEFINE vector == Vector(job[t])
        <3>3. DOMAIN vector.scores \subseteq 0 .. vector.size - 1
            BY <1>1 DEF LocalsFit, Vector
        <3>4. ASSUME t \notin disturbed PROVE vector = Exact(doc)
            <4>1. Progress(t)
                BY <3>4 DEF IInv
            <4> QED
                BY <1>1, <4>1 DEF Progress, Vector, Exact
        <3> HIDE DEF doc, vector
        <3>5. /\ DOMAIN cache' = DOMAIN cache \cup {doc} /\ cache'[doc] = vector
              /\ \A d \in DOMAIN cache \ {doc} : cache'[d] = cache[d]
            BY <3>1 DEF vector
        <3>6. CacheType'
            BY <1>1, <3>1, <3>2, <3>3, <3>5 DEF CacheType
        <3>7. CachedIsCurrent'
            BY <1>1, <1>2, <3>1, <3>4, <3>5 DEF CachedIsCurrent
        <3> QED
            BY <3>6, <3>7
    <2> QED
        BY <2>1, <2>2
<1> QED
    BY <1>1, <1>3, NothingYet, TransformKeeps

(* The cache switch changes nothing but the cache.                         *)
LEMMA SwitchKeeps ==
    ASSUME IInv, EnableCache \/ DisableCache \/ ClearCache
    PROVE  IInv'
<1> USE DEF IInv
<1>1. /\ UNCHANGED <<docTokens, vocabulary, idf, avgDocLength, updates, pc, job, disturbed>>
      /\ cacheEnabled' \in {cacheEnabled, TRUE, FALSE}
      /\ UNCHANGED <<cache, late>> \/ (cache' = Empty /\ late' = {})
    BY DEF EnableCache, DisableCache, ClearCache, statistics
<1>2. StatisticsType' /\ StatisticsCurrent'
    BY <1>1 DEF StatisticsType, StatisticsCurrent, VocabularyDense, docCount
<1>3. CacheType'
    <2>1. cacheEnabled' \in BOOLEAN
        BY <1>1 DEF CacheType
    <2> QED
        BY <1>1, <2>1, NothingYet DEF CacheType
<1>4. CachedIsCurrent'
    <2>1. \A doc : Exact(doc)' = Exact(doc)
        BY <1>1 DEF Exact, Scores
    <2> QED
        BY <1>1, <2>1, NothingYet DEF CachedIsCurrent
<1>5. TransformType' /\ \A t \in Threads : LocalsFit(t)'
    BY <1>1 DEF TransformType, LocalsFit
<1>6. \A t \in Threads \ disturbed' : Progress(t)'
    BY <1>1 DEF Progress, Scores
<1> QED
    BY <1>2, <1>3, <1>4, <1>5, <1>6

-----------------------------------------------------------------------------
LEMMA IInvNext == IInv /\ [Next]_vars => IInv'
<1> SUFFICES ASSUME IInv, [Next]_vars PROVE IInv'
    OBVIOUS
<1>1. ASSUME NEW batch \in Batches, Fit(batch) PROVE IInv'
    BY <1>1, FitKeeps
<1>2. ASSUME NEW batch \in Batches, AddDocuments(batch) PROVE IInv'
    BY <1>2, AddDocumentsKeeps
<1>3. ASSUME NEW indices \in SUBSET DOMAIN docTokens, RemoveDocuments(indices) PROVE IInv'
    BY <1>3, RemoveDocumentsKeeps
<1>4. CASE EnableCache \/ DisableCache \/ ClearCache
    BY <1>4, SwitchKeeps
<1>5. ASSUME NEW t \in Threads, NEW document \in Documents, StartTransform(t, document) PROVE IInv'
    BY <1>5, StartTransformKeeps
<1>6. ASSUME NEW t \in Threads,
             LookUp(t) \/ CountWord(t) \/ ReadAverage(t) \/ Score(t) \/ Store(t)
      PROVE  IInv'
    BY <1>6, LookUpKeeps, CountWordKeeps, ReadAverageKeeps, ScoreKeeps, StoreKeeps
<1>7. CASE UNCHANGED vars
    <2>1. /\ UNCHANGED <<docTokens, vocabulary, idf, avgDocLength, updates>>
          /\ UNCHANGED <<cache, cacheEnabled, late, pc, job, disturbed>>
        BY <1>7 DEF vars, statistics, caching
    <2>2. StatisticsType' /\ StatisticsCurrent'
        BY <2>1 DEF IInv, StatisticsType, StatisticsCurrent, VocabularyDense, docCount
    <2>3. CacheType' /\ CachedIsCurrent'
        BY <1>7, CacheStays DEF vars
    <2>4. TransformType' /\ \A t \in Threads : LocalsFit(t)'
        BY <2>1 DEF IInv, TransformType, LocalsFit
    <2>5. \A t \in Threads \ disturbed' : Progress(t)'
        BY <2>1 DEF IInv, Progress, Scores
    <2> QED
        BY <2>2, <2>3, <2>4, <2>5 DEF IInv
<1> QED
    BY <1>1, <1>2, <1>3, <1>4, <1>5, <1>6, <1>7 DEF Next

LEMMA IInvCorrect == Spec => []IInv
<1> QED
    BY IInvInit, IInvNext, PTL DEF Spec

-----------------------------------------------------------------------------
(* The variables keep their types; the coordinates of the vocabulary have  *)
(* no gaps and no repetitions and are at most MaxVocabSize, whatever is    *)
(* fitted, added and removed; and a cached vector has room for its scores. *)
THEOREM TypeCorrect == Spec => []TypeOK
<1>1. IInv => TypeOK
    <2> SUFFICES ASSUME IInv PROVE TypeOK
        OBVIOUS
    <2>1. docTokens \in UNION {[1 .. n -> Documents] : n \in 0 .. MaxDocs}
        <3>1. docTokens \in [1 .. Len(docTokens) -> Documents] /\ Len(docTokens) \in 0 .. MaxDocs
            BY BM25Assumption DEF IInv, StatisticsType
        <3> QED
            BY <3>1
    <2>2. Range(idf) \subseteq Frequency
        BY DEF IInv, StatisticsType, Range
    <2> QED
        BY <2>1, <2>2 DEF IInv, StatisticsType, CacheType, TransformType, LocalsFit, TypeOK
<1> QED
    BY <1>1, IInvCorrect, PTL

(* After any updates the average length and the frequencies are what       *)
(* counting the remaining documents from nothing would give.               *)
THEOREM StatisticsCorrect == Spec => []StatisticsCurrent
<1>1. IInv => StatisticsCurrent
    BY DEF IInv
<1> QED
    BY <1>1, IInvCorrect, PTL

(* A Transform that no update overlaps returns the vector of the present   *)
(* statistics, and its coordinates lie within it.                          *)
THEOREM UndisturbedCorrect == Spec => []UndisturbedIsExact
<1>1. IInv => UndisturbedIsExact
    BY DEF IInv, UndisturbedIsExact, Progress, Vector, Exact
<1> QED
    BY <1>1, IInvCorrect, PTL

(* The cache answers as Transform would, but for the documents whose       *)
(* Transform an update overlapped.                                         *)
THEOREM CachedCorrect == Spec => []CachedIsCurrent
<1>1. IInv => CachedIsCurrent
    BY DEF IInv
<1> QED
    BY <1>1, IInvCorrect, PTL
=============================================================================
