----------------------------- MODULE FineIndex -----------------------------
(***************************************************************************)
(* The fine layer of indexes/hnsw/fine_index.go: the hot vectors in memory *)
(* with a count and a time of access per id, and an LRU list that names    *)
(* the vector to give up.  The operators work on a record f:               *)
(*   hot    the vectors                                                    *)
(*   count  accessMap; a count stops at FinePromoteThreshold, as nothing   *)
(*          compares it with more                                          *)
(*   lru    the keys of the LRU list, the most recent one first            *)
(* accessTime has the domain of accessMap.  Its values only matter when a  *)
(* search asks which are older than FineEvictThreshold: EvictCold is given *)
(* their ids.                                                              *)
(***************************************************************************)
EXTENDS Naturals, FiniteSets, SequencesExt

CONSTANTS
    FineMaxSize,            \* FineConfig.MaxSize
    FineLRUSize,            \* FineConfig.LRUSize
    FinePromoteThreshold    \* LayeredConfig.FinePromoteThreshold

ASSUME FineAssumption ==
    FineMaxSize \in Nat /\ FineLRUSize \in Nat /\ FinePromoteThreshold \in Nat

NewFineIndex == [hot |-> <<>>, count |-> <<>>, lru |-> <<>>]

Without(g, S) == [x \in DOMAIN g \ S |-> g[x]]
SetTo(g, x, v) == [y \in DOMAIN g \cup {x} |-> IF y = x THEN v ELSE g[y]]

(* The elements of s that are in S, in their order.                        *)
Among(s, S) ==
    LET kept[n \in 0 .. Len(s)] ==
            IF n = 0 THEN <<>>
            ELSE IF s[n] \in S THEN Append(kept[n - 1], s[n]) ELSE kept[n - 1]
    IN  kept[Len(s)]

LRURemove(lru, S) == Among(lru, ToSet(lru) \ S)
LRUPut(lru, id) ==
    <<id>> \o (IF Contains(lru, id) THEN LRURemove(lru, {id})
               ELSE IF Len(lru) >= FineLRUSize /\ lru # <<>> THEN Front(lru)
               ELSE lru)

(* Mutant: one vector too many.                                            *)
FineIsFullLate(f) == Cardinality(DOMAIN f.hot) > FineMaxSize

FineIsFull(f) == Cardinality(DOMAIN f.hot) >= FineMaxSize

FineInsert(f, id, vector) ==
    IF FineIsFull(f) THEN f
    ELSE [hot   |-> SetTo(f.hot, id, vector),
          count |-> SetTo(f.count, id, 0),
          lru   |-> LRUPut(f.lru, id)]

(* Accesses are counted for ids that are not in the layer, too.            *)
RecordAccess(f, id) ==
    LET n == IF id \in DOMAIN f.count THEN f.count[id] ELSE 0
    IN  [f EXCEPT !.count = SetTo(@, id, IF n < FinePromoteThreshold THEN n + 1 ELSE n),
                  !.lru = IF id \in DOMAIN f.hot THEN LRUPut(@, id) ELSE @]

RecordAccesses(f, ids) ==
    LET after[n \in 0 .. Len(ids)] ==
            IF n = 0 THEN f ELSE RecordAccess(after[n - 1], ids[n])
    IN  after[Len(ids)]

IsHotEnough(f, id) ==
    (IF id \in DOMAIN f.count THEN f.count[id] ELSE 0) >= FinePromoteThreshold

Forget(f, S) == [f EXCEPT !.hot = Without(@, S), !.count = Without(@, S)]

(* EvictOne leaves the key it took in the LRU list; Delete and EvictCold   *)
(* take theirs out.                                                        *)
EvictOne(f) == IF f.lru = <<>> THEN f ELSE Forget(f, {Last(f.lru)})

(* Mutant: Delete leaves its key in the LRU list, too.                     *)
FineDeleteKeepsKey(f, id) == Forget(f, {id})

FineDelete(f, id) == [Forget(f, {id}) EXCEPT !.lru = LRURemove(@, {id})]
EvictCold(f, cold) == [Forget(f, cold) EXCEPT !.lru = LRURemove(@, cold)]

(* The file has no LRU list: Load makes one in the order of a map.         *)
FineSaved(f) == [f EXCEPT !.lru = <<>>]
FineLoad(saved, order) ==
    LET after[n \in 0 .. Len(order)] ==
            IF n = 0 THEN <<>> ELSE LRUPut(after[n - 1], order[n])
    IN  [saved EXCEPT !.lru = after[Len(order)]]

(* The types, and that there are no more hot vectors than MaxSize.         *)
FineOK(f, ids, vectors) ==
    /\ Cardinality(DOMAIN f.hot) <= FineMaxSize
    /\ DOMAIN f.hot \subseteq ids /\ \A id \in DOMAIN f.hot : f.hot[id] \in vectors
    /\ DOMAIN f.count \subseteq ids
    /\ \A id \in DOMAIN f.count : f.count[id] \in 0 .. FinePromoteThreshold
    /\ f.lru \in Seq(ids) /\ IsInjective(f.lru)
=============================================================================
