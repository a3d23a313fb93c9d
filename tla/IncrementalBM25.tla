-------------------------- MODULE IncrementalBM25 --------------------------
(***************************************************************************)
(* The incremental BM25 vectorizer of embedding/bm25_incremental.go.  Fit, *)
(* AddDocuments and RemoveDocuments rebuild the statistics under v.mu from *)
(* their first line to their last and empty the cache; each is one step.   *)
(* Transform holds no lock throughout: it takes v.mu or cacheMu anew for   *)
(* each of its reads, so the updates of other goroutines come in between.  *)
(*                                                                         *)
(* A document is the set of its words; how often a word occurs in it is    *)
(* left out, and so the order by frequency of Fit's vocabulary is any      *)
(* order.  A number computed from statistics is the statistics themselves: *)
(* the IDF of a word is the pair of its document frequency and the number  *)
(* of documents, the average length a pair of a sum and a count.           *)
(***************************************************************************)
EXTENDS Naturals, FiniteSets, SequencesExt

CONSTANTS
    Words, Threads,
    Documents,                  \* those that are fitted, added or transformed
    MaxVocabSize, MinDocFreq,   \* BM25Config
    MaxDocPercent,              \* MaxDocFreq, in percent
    MaxDocs, MaxUpdates         \* bounds on the corpus and on the updates

ASSUME BM25Assumption ==
    /\ MaxVocabSize \in Nat \ {0} /\ MinDocFreq \in Nat \ {0}
    /\ MaxDocPercent \in 1 .. 100
    /\ IsFiniteSet(Words) /\ Documents \subseteq SUBSET Words
    /\ MaxDocs \in Nat /\ MaxUpdates \in Nat

VARIABLES
    docTokens,      \* the documents; docCount and docLengths follow them
    vocabulary,     \* the coordinate of each word
    idf,            \* a pair [df, docs] for each word
    avgDocLength,   \* a pair [sum, docs]
    cache, cacheEnabled,
    updates,        \* lastFitVersion
    pc,             \* where each Transform is
    job,            \* its document and the local variables it has filled
    disturbed,      \* history: the threads whose Transform an update overlapped
    late            \* history: the cached documents whose Transform was
                    \* disturbed before it wrote them

statistics == <<docTokens, vocabulary, idf, avgDocLength, updates>>
caching == <<cache, cacheEnabled, late>>
vars == <<statistics, caching, pc, job, disturbed>>

Empty == [x \in {} |-> x]
NoAverage == [sum |-> 0, docs |-> 0]
Idle == [doc |-> {}, size |-> 0, left |-> {}, tf |-> {}, avg |-> NoAverage, scores |-> Empty]
docCount == Len(docTokens)

Init ==
    /\ docTokens = <<>> /\ vocabulary = Empty /\ idf = Empty
    /\ avgDocLength = NoAverage
    /\ cache = Empty /\ cacheEnabled = FALSE /\ updates = 0
    /\ pc = [t \in Threads |-> "idle"] /\ job = [t \in Threads |-> Idle]
    /\ disturbed = {} /\ late = {}

-----------------------------------------------------------------------------
(* Statistics.                                                             *)

DocFreq(docs, word) == Cardinality({i \in DOMAIN docs : word \in docs[i]})
Idf(docs, word) == [df |-> DocFreq(docs, word), docs |-> Len(docs)]
Occurring(docs) == UNION ToSet(docs)
Length(docs) ==
    LET sum[n \in 0 .. Len(docs)] == IF n = 0 THEN 0 ELSE sum[n - 1] + Cardinality(docs[n])
    IN  sum[Len(docs)]

(* The documents at the other indices, in their order: the n-th of them is *)
(* the one that n of these indices do not exceed.                          *)
Without(docs, indices) ==
    LET kept == DOMAIN docs \ indices
        Rank(i) == Cardinality({j \in kept : j <= i})
    IN  [n \in 1 .. Cardinality(kept) |-> docs[CHOOSE i \in kept : Rank(i) = n]]

(* The frequency filter, with the document frequencies of one batch and    *)
(* the size of the whole corpus.                                           *)
Passes(batch, word, total) ==
    LET df == DocFreq(batch, word)
    IN  df >= MinDocFreq /\ 100 * df <= MaxDocPercent * total

(* Mutant: an update leaves the cache as it is.                            *)
EndUpdateKeepsCache ==
    /\ updates' = updates + 1
    /\ disturbed' = {t \in Threads : pc[t] # "idle"}
    /\ UNCHANGED <<caching, pc, job>>

(* The end of every update: the cache is emptied and the version counted.  *)
EndUpdate ==
    /\ cache' = Empty /\ late' = {}
    /\ updates' = updates + 1
    /\ disturbed' = {t \in Threads : pc[t] # "idle"}
    /\ UNCHANGED <<cacheEnabled, pc, job>>

Fit(documents) ==
    /\ updates < MaxUpdates /\ documents # <<>>
    /\ docTokens' = documents
    /\ avgDocLength' = [sum |-> Length(documents), docs |-> Len(documents)]
    /\ LET words == {w \in Occurring(documents) : Passes(documents, w, Len(documents))}
       IN  \E order \in SetToSeqs(words) :
               LET kept == {n \in DOMAIN order : n <= MaxVocabSize}
               IN  vocabulary' = [w \in {order[n] : n \in kept} |->
                                     (CHOOSE n \in kept : order[n] = w) - 1]
    /\ idf' = [w \in DOMAIN vocabulary' |-> Idf(documents, w)]
    /\ EndUpdate

(* Mutant: one word more than there is room for.                           *)
NumberedPastLimit(words, room) ==
    {SubSeq(order, 1, IF Len(order) > room + 1 THEN room + 1 ELSE Len(order)) : order \in SetToSeqs(words)}

(* New words are numbered in the order of a map while there is room.  Then *)
(* every IDF is counted again over all documents.                          *)
Numbered(words, room) ==
    {SubSeq(order, 1, IF Len(order) > room THEN room ELSE Len(order)) : order \in SetToSeqs(words)}

AddDocuments(batch) ==
    /\ updates < MaxUpdates /\ batch # <<>> /\ docCount + Len(batch) <= MaxDocs
    /\ docTokens' = docTokens \o batch
    /\ avgDocLength' = [sum  |-> Length(batch) + (IF docCount = 0 THEN 0 ELSE avgDocLength.sum),
                        docs |-> Len(docTokens')]
    /\ LET size == Cardinality(DOMAIN vocabulary)
           new  == {w \in Occurring(batch) \ DOMAIN vocabulary : Passes(batch, w, Len(docTokens'))}
       IN  \E order \in Numbered(new, MaxVocabSize - size) :
               vocabulary' = [w \in DOMAIN vocabulary \cup ToSet(order) |->
                                 IF w \in DOMAIN vocabulary THEN vocabulary[w]
                                 ELSE size + (CHOOSE n \in DOMAIN order : order[n] = w) - 1]
    /\ idf' = [w \in DOMAIN vocabulary' |-> Idf(docTokens', w)]
    /\ EndUpdate

(* Mutant: the IDF of the remaining documents is not counted again.        *)
RemoveDocumentsKeepsIdf(indices) ==
    /\ updates < MaxUpdates
    /\ docTokens' = Without(docTokens, indices)
    /\ avgDocLength' = IF docTokens' = <<>> THEN avgDocLength
                       ELSE [sum |-> Length(docTokens'), docs |-> Len(docTokens')]
    /\ UNCHANGED <<vocabulary, idf>>
    /\ EndUpdate

(* Indices outside the corpus are dropped, so `indices` may be empty.      *)
(* Words that no document has any more keep their place and their IDF; an  *)
(* empty corpus keeps its average length.                                  *)
RemoveDocuments(indices) ==
    /\ updates < MaxUpdates
    /\ docTokens' = Without(docTokens, indices)
    /\ avgDocLength' = IF docTokens' = <<>> THEN avgDocLength
                       ELSE [sum |-> Length(docTokens'), docs |-> Len(docTokens')]
    /\ idf' = [w \in DOMAIN idf |->
                  IF DocFreq(docTokens', w) > 0 THEN Idf(docTokens', w) ELSE idf[w]]
    /\ UNCHANGED vocabulary
    /\ EndUpdate

-----------------------------------------------------------------------------
(* The cache switch; a Transform reads it without cacheMu.                 *)

EnableCache ==
    /\ cacheEnabled' = TRUE
    /\ UNCHANGED <<statistics, cache, late, pc, job, disturbed>>

DisableCache ==
    /\ cacheEnabled' = FALSE /\ cache' = Empty /\ late' = {}
    /\ UNCHANGED <<statistics, pc, job, disturbed>>

ClearCache ==
    /\ cache' = Empty /\ late' = {}
    /\ UNCHANGED <<statistics, cacheEnabled, pc, job, disturbed>>

-----------------------------------------------------------------------------
(* Transform.                                                              *)

(* Thread t goes on at `next` with the local variables `locals`.           *)
Continue(t, next, locals) ==
    /\ pc' = [pc EXCEPT ![t] = next]
    /\ job' = [job EXCEPT ![t] = locals]

(* The size of the vector is read first; without a vocabulary the empty    *)
(* vector is returned at once.                                             *)
StartTransform(t, document) ==
    /\ pc[t] = "idle" /\ vocabulary # Empty
    /\ Continue(t, "lookup", [Idle EXCEPT !.doc = document, !.left = document,
                                          !.size = Cardinality(DOMAIN vocabulary)])
    /\ UNCHANGED <<statistics, caching, disturbed>>

LookUp(t) ==
    /\ pc[t] = "lookup"
    /\ IF cacheEnabled /\ job[t].doc \in DOMAIN cache
       THEN Continue(t, "idle", Idle) /\ disturbed' = disturbed \ {t}
       ELSE Continue(t, "count", job[t]) /\ UNCHANGED disturbed
    /\ UNCHANGED <<statistics, caching>>

(* Mutant: the first word without a coordinate ends the count.             *)
CountWordStops(t) ==
    /\ pc[t] = "count"
    /\ \E word \in job[t].left :
           Continue(t, "count", IF word \in DOMAIN vocabulary
                                THEN [job[t] EXCEPT !.left = @ \ {word}, !.tf = @ \cup {word}]
                                ELSE [job[t] EXCEPT !.left = {}])
    /\ UNCHANGED <<statistics, caching, disturbed>>

CountWord(t) ==
    /\ pc[t] = "count"
    /\ \E word \in job[t].left :
           Continue(t, "count", [job[t] EXCEPT !.left = @ \ {word},
                                               !.tf = @ \cup ({word} \cap DOMAIN vocabulary)])
    /\ UNCHANGED <<statistics, caching, disturbed>>

ReadAverage(t) ==
    /\ pc[t] = "count" /\ job[t].left = {}
    /\ Continue(t, "score", [job[t] EXCEPT !.avg = avgDocLength])
    /\ UNCHANGED <<statistics, caching, disturbed>>

(* The coordinates that the words of `tf` have now, with their IDF.        *)
Scores(tf) ==
    LET known == tf \cap DOMAIN vocabulary
    IN  [n \in {vocabulary[w] : w \in known} |->
            idf[CHOOSE w \in known : vocabulary[w] = n]]

(* A coordinate beyond the vector panics, and with it the process ends.    *)
Score(t) ==
    /\ pc[t] = "score"
    /\ LET scores == Scores(job[t].tf)
       IN  IF \A n \in DOMAIN scores : n < job[t].size
           THEN Continue(t, "store", [job[t] EXCEPT !.scores = scores])
           ELSE Continue(t, "panicked", job[t])
    /\ UNCHANGED <<statistics, caching, disturbed>>

Vector(locals) == [size |-> locals.size, avg |-> locals.avg, scores |-> locals.scores]

Store(t) ==
    /\ pc[t] = "store"
    /\ IF cacheEnabled
       THEN LET doc == job[t].doc
            IN  /\ cache' = [d \in DOMAIN cache \cup {doc} |->
                                IF d = doc THEN Vector(job[t]) ELSE cache[d]]
                /\ late' = IF t \in disturbed THEN late \cup {doc} ELSE late \ {doc}
       ELSE UNCHANGED <<cache, late>>
    /\ Continue(t, "idle", Idle) /\ disturbed' = disturbed \ {t}
    /\ UNCHANGED <<statistics, cacheEnabled>>

-----------------------------------------------------------------------------
Batches == UNION {[1 .. n -> Documents] : n \in 1 .. MaxDocs}
Panicked == \E t \in Threads : pc[t] = "panicked"

Next ==
    /\ ~Panicked
    /\ \/ \E batch \in Batches : Fit(batch) \/ AddDocuments(batch)
       \/ \E indices \in SUBSET DOMAIN docTokens : RemoveDocuments(indices)
       \/ EnableCache \/ DisableCache \/ ClearCache
       \/ \E t \in Threads :
              \/ \E document \in Documents : StartTransform(t, document)
              \/ LookUp(t) \/ CountWord(t) \/ ReadAverage(t) \/ Score(t) \/ Store(t)

Spec == Init /\ [][Next]_vars

-----------------------------------------------------------------------------
(* Properties.                                                             *)

Average == [sum : Nat, docs : 0 .. MaxDocs]
Frequency == [df : 0 .. MaxDocs, docs : 0 .. MaxDocs]

(* No two words share a coordinate, the coordinates have no gaps, and the  *)
(* words that have one are the words that have an IDF, through any number  *)
(* of fits, additions and removals.                                        *)
VocabularyDense ==
    /\ Range(vocabulary) = 0 .. Cardinality(DOMAIN vocabulary) - 1
    /\ Cardinality(DOMAIN vocabulary) <= MaxVocabSize
    /\ DOMAIN idf = DOMAIN vocabulary

(* Every variable keeps its type and the vocabulary is dense; the          *)
(* statistics are those of documents, and a cached vector has a            *)
(* coordinate for each of its scores.                                      *)
TypeOK ==
    /\ docTokens \in UNION {[1 .. n -> Documents] : n \in 0 .. MaxDocs}
    /\ DOMAIN vocabulary \subseteq Words /\ Range(idf) \subseteq Frequency /\ VocabularyDense
    /\ avgDocLength \in Average /\ cacheEnabled \in BOOLEAN
    /\ updates \in 0 .. MaxUpdates
    /\ DOMAIN cache \subseteq Documents /\ late \subseteq DOMAIN cache
    /\ \A doc \in DOMAIN cache : DOMAIN cache[doc].scores \subseteq 0 .. cache[doc].size - 1
    /\ pc \in [Threads -> {"idle", "lookup", "count", "score", "store", "panicked"}]
    /\ \A t \in Threads : job[t].left \cup job[t].tf \subseteq job[t].doc
    /\ disturbed \subseteq Threads

(* The incremental statistics are those a count from nothing would give:   *)
(* of the average length while there are documents, of the IDF for every   *)
(* word of the vocabulary that some document still has.                    *)
StatisticsCurrent ==
    /\ docTokens # <<>> => avgDocLength = [sum |-> Length(docTokens), docs |-> docCount]
    /\ \A w \in DOMAIN idf \cap Occurring(docTokens) : idf[w] = Idf(docTokens, w)

(* What Transform returns when nothing comes in between.                   *)
Exact(document) ==
    [size |-> Cardinality(DOMAIN vocabulary), avg |-> avgDocLength, scores |-> Scores(document)]

(* A Transform that no update overlaps does not panic, and its vector is   *)
(* made of one version of the statistics.                                  *)
UndisturbedIsExact ==
    \A t \in Threads \ disturbed :
        /\ pc[t] # "panicked"
        /\ pc[t] = "store" => Vector(job[t]) = Exact(job[t].doc)

(* A cached vector is the one Transform would compute now, unless the      *)
(* Transform that cached it was overlapped by the update before it.        *)
CachedIsCurrent ==
    \A doc \in DOMAIN cache \ late : cache[doc] = Exact(doc)
=============================================================================
