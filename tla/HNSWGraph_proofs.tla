------------------------ MODULE HNSWGraph_proofs ------------------------
(***************************************************************************)
(* Theorems about HNSWGraph, for any nodes, vectors, goroutines and        *)
(* parameters; those about what can be reached are about graphs of two     *)
(* levels, or about insertions that do not overlap each other.             *)
(***************************************************************************)
EXTENDS HNSWGraph, FiniteSetTheorems, WellFoundedInduction, TLAPS

-----------------------------------------------------------------------------
(* Numbers and sequences.                                                  *)

LEMMA LeastElement ==
    ASSUME NEW S \in SUBSET Nat, S # {}
    PROVE  \E x \in S : \A y \in S : x <= y
<1> DEFINE Below(n) == 0 .. n - 1
           Family == {Below(n) : n \in S}
<1>1. Family \subseteq FiniteSubsetsOf(Nat) /\ Family # {}
    <2>1. \A n \in S : IsFiniteSet(Below(n)) /\ Below(n) \in SUBSET Nat
        BY FS_Interval
    <2> QED
        BY <2>1 DEF FiniteSubsetsOf
<1>2. PICK least \in Family : \A b \in Family : <<b, least>> \notin StrictSubsetOrdering(Nat)
    <2> HIDE DEF Family
    <2> QED
        BY <1>1, WFMin, FS_StrictSubsetOrderingWellFounded
<1>3. PICK x \in S : least = Below(x)
    OBVIOUS
<1>4. ASSUME NEW y \in S, ~(x <= y) PROVE FALSE
    <2>1. Below(y) \subseteq Below(x) /\ y \in Below(x) /\ y \notin Below(y)
        BY <1>4
    <2>2. <<Below(y), Below(x)>> \in StrictSubsetOrdering(Nat)
        BY <2>1 DEF StrictSubsetOrdering
    <2> QED
        BY <1>2, <1>3, <2>2
<1> QED
    BY <1>4

(* Induction, for a set of numbers.                                        *)
LEMMA Induction ==
    ASSUME NEW S \in SUBSET Nat, 0 \in S, \A n \in S : n + 1 \in S
    PROVE  S = Nat
<1>1. SUFFICES ASSUME Nat \ S # {} PROVE FALSE
    OBVIOUS
<1>2. PICK x \in Nat \ S : \A y \in Nat \ S : x <= y
    BY <1>1, LeastElement
<1>3. x - 1 \in Nat /\ x - 1 \in S
    BY <1>2
<1> QED
    BY <1>2, <1>3

LEMMA GreatestElement ==
    ASSUME NEW S \in SUBSET Nat, S # {}, IsFiniteSet(S)
    PROVE  \E x \in S : \A y \in S : y <= x
<1> DEFINE Above(n) == {m \in S : n < m}
           Family == {Above(n) : n \in S}
<1>1. Family \subseteq FiniteSubsetsOf(Nat) /\ Family # {}
    <2>1. \A n \in S : IsFiniteSet(Above(n)) /\ Above(n) \in SUBSET Nat
        BY FS_Subset
    <2> QED
        BY <2>1 DEF FiniteSubsetsOf
<1>2. PICK least \in Family : \A b \in Family : <<b, least>> \notin StrictSubsetOrdering(Nat)
    <2> HIDE DEF Family
    <2> QED
        BY <1>1, WFMin, FS_StrictSubsetOrderingWellFounded
<1>3. PICK x \in S : least = Above(x)
    OBVIOUS
<1>4. ASSUME NEW y \in S, ~(y <= x) PROVE FALSE
    <2>1. x \in Nat /\ y \in Nat /\ x < y
        BY <1>4
    <2>2. y \in Above(x) /\ y \notin Above(y) /\ \A m \in Above(y) : m \in Above(x)
        BY <2>1
    <2>3. Above(y) \subseteq Above(x) /\ Above(y) # Above(x)
        BY <2>2
    <2>4. <<Above(y), Above(x)>> \in StrictSubsetOrdering(Nat)
        BY <2>3 DEF StrictSubsetOrdering
    <2> QED
        BY <1>2, <1>3, <2>4
<1> QED
    BY <1>4

LEMMA RangeIs ==
    ASSUME NEW T, NEW s \in Seq(T)
    PROVE  /\ Range(s) \subseteq T /\ s \in Seq(Range(s))
           /\ Range(s) = {s[i] : i \in 1 .. Len(s)}
           /\ s = <<>> <=> Range(s) = {}
           /\ Len(s) = 0 <=> s = <<>>
<1>1. s \in [1 .. Len(s) -> T] /\ Len(s) \in Nat /\ DOMAIN s = 1 .. Len(s)
    OBVIOUS
<1>2. Range(s) = {s[i] : i \in 1 .. Len(s)}
    BY <1>1 DEF Range
<1>3. s = <<>> <=> Len(s) = 0
    OBVIOUS
<1>4. Len(s) # 0 => s[1] \in Range(s)
    BY <1>1, <1>2
<1>5. s \in [1 .. Len(s) -> Range(s)]
    BY <1>1, <1>2
<1>6. s \in Seq(Range(s))
    BY <1>1, <1>5
<1> QED
    BY <1>1, <1>2, <1>3, <1>4, <1>6

LEMMA EmptyRange == Range(<<>>) = {}
BY DEF Range

LEMMA AppendIs ==
    ASSUME NEW T, NEW s \in Seq(T), NEW e \in T
    PROVE  /\ Append(s, e) \in Seq(T) /\ Len(Append(s, e)) = Len(s) + 1
           /\ Range(Append(s, e)) = Range(s) \cup {e}
<1> DEFINE q == Append(s, e)
<1>1. q \in Seq(T) /\ Len(q) = Len(s) + 1 /\ Len(s) \in Nat
    OBVIOUS
<1>2. q[Len(s) + 1] = e /\ \A i \in 1 .. Len(s) : q[i] = s[i]
    OBVIOUS
<1>3. 1 .. Len(q) = 1 .. Len(s) \cup {Len(s) + 1}
    BY <1>1
<1> HIDE DEF q
<1>4. Range(q) = {q[i] : i \in 1 .. Len(q)} /\ Range(s) = {s[i] : i \in 1 .. Len(s)}
    BY <1>1, RangeIs
<1>5. Range(q) = Range(s) \cup {e}
    BY <1>2, <1>3, <1>4
<1> QED
    BY <1>1, <1>5 DEF q

LEMMA TailIs ==
    ASSUME NEW T, NEW s \in Seq(T), s # <<>>
    PROVE  /\ Head(s) \in T /\ Tail(s) \in Seq(T) /\ Head(s) \in Range(s)
           /\ Range(s) = {Head(s)} \cup Range(Tail(s))
<1>1. /\ Head(s) = s[1] /\ s[1] \in T /\ Tail(s) \in Seq(T) /\ Len(s) \in Nat \ {0}
      /\ Len(Tail(s)) = Len(s) - 1
      /\ \A i \in 1 .. Len(s) - 1 : Tail(s)[i] = s[i + 1]
    OBVIOUS
<1>2. /\ Range(s) = {s[i] : i \in 1 .. Len(s)}
      /\ Range(Tail(s)) = {Tail(s)[i] : i \in 1 .. Len(s) - 1}
    BY <1>1, RangeIs
<1>3. s[1] \in Range(s) /\ \A i \in 1 .. Len(s) - 1 : s[i + 1] \in Range(s)
    BY <1>1, <1>2
<1>4. ASSUME NEW i \in 1 .. Len(s), i # 1 PROVE s[i] \in Range(Tail(s))
    <2>1. i - 1 \in 1 .. Len(s) - 1 /\ (i - 1) + 1 = i
        BY <1>1, <1>4
    <2> QED
        BY <1>1, <1>2, <2>1
<1> QED
    BY <1>1, <1>2, <1>3, <1>4

LEMMA RemoveFirstIs ==
    ASSUME NEW T, NEW s \in Seq(T), NEW e
    PROVE  /\ RemoveFirst(s, e) \in Seq(T) /\ Len(RemoveFirst(s, e)) <= Len(s)
           /\ Range(RemoveFirst(s, e)) \subseteq Range(s)
<1>1. CASE ~\E i \in 1 .. Len(s) : s[i] = e
    BY <1>1 DEF RemoveFirst
<1>2. CASE \E i \in 1 .. Len(s) : s[i] = e
    <2> DEFINE At == {i \in 1 .. Len(s) : s[i] = e}
               k == SelectInSeq(s, LAMBDA v : v = e)
    <2>1. k = Min(At)
        BY <1>2 DEF SelectInSeq
    <2>2. Min(At) \in At
        <3>1. At \in SUBSET Nat /\ At # {}
            BY <1>2
        <3>2. \E x \in At : \A y \in At : x <= y
            <4> HIDE DEF At
            <4> QED
                BY <3>1, LeastElement
        <3> HIDE DEF At
        <3> QED
            BY <3>2 DEF Min
    <2>3. k \in 1 .. Len(s) /\ Len(s) \in Nat
        BY <2>1, <2>2
    <2>4. RemoveFirst(s, e) = SubSeq(s, 1, k - 1) \o SubSeq(s, k + 1, Len(s))
        BY <1>2 DEF RemoveFirst, RemoveAt
    <2> HIDE DEF k, At
    <2> DEFINE a == SubSeq(s, 1, k - 1)
               b == SubSeq(s, k + 1, Len(s))
    <2>5. s \in Seq(Range(s))
        BY RangeIs
    <2>6. a \in Seq(Range(s)) /\ Len(a) = k - 1
        BY <2>3, <2>5
    <2>7. b \in Seq(Range(s)) /\ Len(b) = Len(s) - k
        BY <2>3, <2>5
    <2> HIDE DEF a, b
    <2>8. /\ a \o b \in Seq(Range(s)) /\ Len(a \o b) = Len(a) + Len(b)
        BY <2>6, <2>7
    <2>9. Range(a \o b) \subseteq Range(s) /\ Range(s) \subseteq T
        BY <2>8, RangeIs
    <2>10. a \o b \in Seq(T)
        BY <2>8, <2>9
    <2>11. Len(a \o b) <= Len(s)
        BY <2>3, <2>6, <2>7, <2>8
    <2>12. RemoveFirst(s, e) = a \o b
        BY <2>4 DEF a, b
    <2> QED
        BY <2>9, <2>10, <2>11, <2>12
<1> QED
    BY <1>1, <1>2

(* What holds at 0 and is kept by every step holds at n.                   *)
LEMMA StaysIn ==
    ASSUME NEW S, NEW n \in Nat, NEW h, h[0] \in S,
           \A m \in 1 .. n : h[m - 1] \in S => h[m] \in S
    PROVE  \A m \in 0 .. n : h[m] \in S
<1> DEFINE Good == {m \in Nat : m <= n => h[m] \in S}
<1>1. 0 \in Good
    OBVIOUS
<1>2. ASSUME NEW m \in Good PROVE m + 1 \in Good
    <2>1. m + 1 \in Nat /\ (m + 1) - 1 = m
        OBVIOUS
    <2>2. m + 1 <= n => m + 1 \in 1 .. n /\ h[m] \in S
        BY <2>1
    <2>3. m + 1 <= n => h[m + 1] \in S
        BY <2>1, <2>2
    <2> QED
        BY <2>1, <2>3
<1>3. Good = Nat
    <2>1. Good \in SUBSET Nat
        OBVIOUS
    <2> HIDE DEF Good
    <2> QED
        BY <1>1, <1>2, <2>1, Induction
<1> QED
    BY <1>3

LEMMA Bounds ==
    /\ Ids \subseteq Nat /\ IsFiniteSet(Ids) /\ NoNode \notin Ids /\ NoThread \notin Threads
    /\ Vectors \in [Ids -> SUBSET Nat] /\ Queries \subseteq Nat
    /\ LevelCap \in Nat /\ Draws \in [Ids -> SUBSET (0 .. LevelCap)] /\ Deletable \subseteq Ids
    /\ Ms \subseteq Nat \ {0} /\ Ef \in Nat \ {0}
BY IdsAssumption, ThreadsAssumption, VectorsAssumption, DrawsAssumption, ParametersAssumption

IsFold(g, step, init, seq, m) ==
    g = [n \in 0 .. m |-> IF n = 0 THEN init ELSE step[<<g[n - 1], seq[n]>>]]

LEMMA FoldExists ==
    ASSUME NEW S, NEW T, NEW step \in [S \X T -> S], NEW init \in S, NEW seq \in Seq(T)
    PROVE  \E g \in [0 .. Len(seq) -> S] : IsFold(g, step, init, seq, Len(seq))
<1> DEFINE Folded == {m \in Nat : m <= Len(seq) =>
                                    \E g \in [0 .. m -> S] : IsFold(g, step, init, seq, m)}
<1>1. 0 \in Folded
    <2> DEFINE first == [n \in 0 .. 0 |-> init]
    <2>1. first \in [0 .. 0 -> S]
        OBVIOUS
    <2>2. IsFold(first, step, init, seq, 0)
        BY DEF IsFold
    <2> QED
        BY <2>1, <2>2
<1>2. ASSUME NEW m \in Folded PROVE m + 1 \in Folded
    <2> SUFFICES ASSUME m + 1 <= Len(seq)
                 PROVE  \E g \in [0 .. m + 1 -> S] : IsFold(g, step, init, seq, m + 1)
        OBVIOUS
    <2>1. PICK g \in [0 .. m -> S] : IsFold(g, step, init, seq, m)
        OBVIOUS
    <2>2. m \in Nat /\ m + 1 \in 1 .. Len(seq) /\ seq[m + 1] \in T /\ g[m] \in S
        BY <2>1
    <2> DEFINE next == step[<<g[m], seq[m + 1]>>]
               longer == [n \in 0 .. m + 1 |-> IF n = m + 1 THEN next ELSE g[n]]
    <2>3. next \in S
        BY <2>2
    <2>4. longer \in [0 .. m + 1 -> S]
        BY <2>1, <2>2, <2>3
    <2>5. ASSUME NEW n \in 0 .. m + 1
          PROVE  longer[n] = IF n = 0 THEN init ELSE step[<<longer[n - 1], seq[n]>>]
        <3>1. CASE n = m + 1
            <4>1. n - 1 = m /\ m \in 0 .. m + 1 /\ m # m + 1 /\ n # 0
                BY <2>2, <3>1
            <4>2. longer[n - 1] = g[m]
                BY <4>1
            <4> QED
                BY <3>1, <4>1, <4>2
        <3>2. CASE n # m + 1 /\ n # 0
            <4>1. n \in 0 .. m /\ n - 1 \in 0 .. m + 1 /\ n - 1 # m + 1
                BY <2>2, <3>2
            <4>2. longer[n] = g[n] /\ longer[n - 1] = g[n - 1]
                BY <3>2, <4>1
            <4>3. g[n] = step[<<g[n - 1], seq[n]>>]
                BY <2>1, <3>2, <4>1 DEF IsFold
            <4> QED
                BY <3>2, <4>2, <4>3
        <3>3. CASE n = 0
            <4>1. 0 \in 0 .. m /\ 0 # m + 1
                BY <2>2
            <4>2. g[0] = init
                BY <2>1, <4>1 DEF IsFold
            <4> QED
                BY <3>3, <4>1, <4>2
        <3> QED
            BY <2>2, <3>1, <3>2, <3>3
    <2>6. IsFold(longer, step, init, seq, m + 1)
        <3>1. longer = [n \in 0 .. m + 1 |-> longer[n]]
            OBVIOUS
        <3> HIDE DEF longer, next
        <3> QED
            BY <2>5, <3>1 DEF IsFold
    <2> HIDE DEF longer, next
    <2> QED
        BY <2>4, <2>6
<1>3. Folded = Nat
    <2>1. Folded \in SUBSET Nat
        OBVIOUS
    <2> HIDE DEF Folded
    <2> QED
        BY <1>1, <1>2, <2>1, Induction
<1>4. Len(seq) \in Folded
    <2>1. Len(seq) \in Nat
        OBVIOUS
    <2> HIDE DEF Folded
    <2> QED
        BY <1>3, <2>1
<1> QED
    BY <1>4

-----------------------------------------------------------------------------
(* What the operators of the graph return.                                 *)

LEMMA DistIs == \A a, b \in Nat : Dist(a, b) \in Nat
BY DEF Dist

(* The entry point of a level is the first node that has it.               *)
IsFirst(n, l) ==
    \E i \in 1 .. Len(nodes) :
        n = nodes[i] /\ level[n] >= l /\ \A h \in 1 .. i - 1 : level[nodes[h]] < l

LEMMA EntryPointForLevelIs ==
    ASSUME nodes \in Seq(Ids), level \in [Ids -> Nat], NEW l \in Nat,
           NEW n \in Range(nodes), level[n] >= l
    PROVE  IsFirst(EntryPointForLevel(l), l) /\ EntryPointForLevel(l) \in Range(nodes)
<1> DEFINE At == {i \in 1 .. Len(nodes) : level[nodes[i]] >= l}
           k == SelectInSeq(nodes, LAMBDA x : level[x] >= l)
<1>0. Len(nodes) \in Nat
    OBVIOUS
<1>1. Range(nodes) = {nodes[i] : i \in 1 .. Len(nodes)} /\ Len(nodes) \in Nat
    BY <1>0, RangeIs
<1>2. At # {} /\ At \in SUBSET Nat
    BY <1>1
<1>3. k = Min(At)
    BY <1>2 DEF SelectInSeq
<1>4. PICK least \in At : \A y \in At : least <= y
    <2> HIDE DEF At
    <2> QED
        BY <1>2, LeastElement
<1>5. k \in At /\ \A y \in At : k <= y
    <2> HIDE DEF At, k
    <2> QED
        BY <1>3, <1>4 DEF Min
<1>6. EntryPointForLevel(l) = nodes[k]
    BY DEF EntryPointForLevel
<1> HIDE DEF k
<1>7. k \in 1 .. Len(nodes) /\ level[nodes[k]] >= l
    BY <1>5
<1>8. ASSUME NEW h \in 1 .. k - 1 PROVE level[nodes[h]] < l
    <2>1. h \in 1 .. Len(nodes) /\ h < k /\ nodes[h] \in Ids
        BY <1>1, <1>7
    <2>2. h \notin At
        BY <1>5, <1>7, <2>1
    <2>3. level[nodes[h]] \in Nat
        BY <2>1
    <2> QED
        BY <2>1, <2>2, <2>3
<1> QED
    BY <1>1, <1>6, <1>7, <1>8 DEF IsFirst

HeuristicTable(order, limit) ==
    CHOOSE kept : kept = [n \in 0 .. Len(order) |->
        IF n = 0 THEN <<>>
        ELSE IF Keeps(kept[n - 1], order[n], limit) THEN Append(kept[n - 1], order[n].node)
        ELSE kept[n - 1]]

LEMMA HeuristicIs ==
    ASSUME NEW S, NEW T, \A r \in S : r.node \in T, NEW order \in Seq(S), NEW limit \in Nat
    PROVE  Heuristic(order, limit) \in Seq(T) /\ Len(Heuristic(order, limit)) <= limit
<1> DEFINE W == {s \in Seq(T) : Len(s) <= limit}
           step == [p \in W \X S |-> IF Keeps(p[1], p[2], limit) THEN Append(p[1], p[2].node) ELSE p[1]]
           Is(kept) == kept = [n \in 0 .. Len(order) |->
                IF n = 0 THEN <<>>
                ELSE IF Keeps(kept[n - 1], order[n], limit) THEN Append(kept[n - 1], order[n].node)
                ELSE kept[n - 1]]
<1>1. step \in [W \X S -> W] /\ <<>> \in W
    <2>1. ASSUME NEW s \in W, NEW r \in S, Keeps(s, r, limit) PROVE Append(s, r.node) \in W
        <3>1. s \in Seq(T) /\ Len(s) < limit /\ Len(s) \in Nat /\ r.node \in T
            BY <2>1 DEF Keeps
        <3>2. Append(s, r.node) \in Seq(T) /\ Len(Append(s, r.node)) = Len(s) + 1
            BY <3>1, AppendIs
        <3> QED
            BY <3>1, <3>2
    <2>2. <<>> \in W
        OBVIOUS
    <2> HIDE DEF W
    <2> QED
        BY <2>1, <2>2
<1>2. PICK g \in [0 .. Len(order) -> W] : IsFold(g, step, <<>>, order, Len(order))
    <2> HIDE DEF step, W
    <2> QED
        BY <1>1, FoldExists
<1>3. ASSUME NEW n \in 0 .. Len(order)
      PROVE  g[n] = IF n = 0 THEN <<>>
                    ELSE IF Keeps(g[n - 1], order[n], limit) THEN Append(g[n - 1], order[n].node)
                    ELSE g[n - 1]
    <2>1. g[n] = IF n = 0 THEN <<>> ELSE step[<<g[n - 1], order[n]>>]
        <3> HIDE DEF step, W
        <3> QED
            BY <1>2 DEF IsFold
    <2>2. CASE n # 0
        <3>1. n - 1 \in 0 .. Len(order) /\ n \in 1 .. Len(order)
            BY <2>2
        <3>2. g[n - 1] \in W /\ order[n] \in S
            <4> HIDE DEF W
            <4> QED
                BY <1>2, <3>1
        <3>3. step[<<g[n - 1], order[n]>>] =
                  IF Keeps(g[n - 1], order[n], limit) THEN Append(g[n - 1], order[n].node)
                  ELSE g[n - 1]
            <4> HIDE DEF W
            <4> QED
                BY <3>2
        <3> QED
            BY <2>1, <2>2, <3>3
    <2>3. CASE n = 0
        BY <2>1, <2>3
    <2> QED
        BY <2>2, <2>3
<1>4. g = [n \in 0 .. Len(order) |-> g[n]]
    <2> HIDE DEF W
    <2> QED
        BY <1>2
<1>5. \E kept : Is(kept)
    BY <1>3, <1>4
<1> DEFINE table == HeuristicTable(order, limit)
<1>6. Is(table)
    BY <1>5 DEF HeuristicTable
<1>7. Heuristic(order, limit) = table[Len(order)]
    BY DEF Heuristic, HeuristicTable
<1>8. Len(order) \in Nat
    OBVIOUS
<1> HIDE DEF table
<1>9. \A m \in 0 .. Len(order) :
          table[m] = IF m = 0 THEN <<>>
                     ELSE IF Keeps(table[m - 1], order[m], limit) THEN Append(table[m - 1], order[m].node)
                     ELSE table[m - 1]
    BY <1>6
<1>10. table[0] \in W
    <2>1. table[0] = <<>>
        BY <1>8, <1>9
    <2> QED
        BY <1>1, <2>1
<1>11. ASSUME NEW m \in 1 .. Len(order), table[m - 1] \in W PROVE table[m] \in W
    <2>1. order[m] \in S /\ m \in 0 .. Len(order) /\ m # 0
        BY <1>8
    <2>2. table[m] = IF Keeps(table[m - 1], order[m], limit) THEN Append(table[m - 1], order[m].node)
                     ELSE table[m - 1]
        BY <1>9, <2>1
    <2>3. step[<<table[m - 1], order[m]>>] = table[m]
        <3> HIDE DEF W
        <3> QED
            BY <1>11, <2>1, <2>2
    <2> HIDE DEF W, step
    <2> QED
        BY <1>1, <1>11, <2>1, <2>3
<1>12. table[Len(order)] \in W
    <2> HIDE DEF W, step, Is
    <2>1. \A m \in 0 .. Len(order) : table[m] \in W
        BY <1>8, <1>10, <1>11, StaysIn
    <2> QED
        BY <1>8, <2>1
<1> QED
    BY <1>7, <1>12

LEMMA NearestIs ==
    ASSUME NEW S, IsFiniteSet(S), NEW k \in Nat, NEW q \in Nearest(S, k)
    PROVE  q \in Seq(S) /\ Len(q) <= k /\ (S # {} /\ k # 0 => q # <<>>)
<1>1. PICK n \in 0 .. k : q \in [1 .. n -> S]
    BY DEF Nearest
<1>2. q \in Seq(S) /\ Len(q) = n /\ n \in Nat /\ n <= k
    BY <1>1
<1>3. Cardinality(S) \in Nat /\ (Cardinality(S) = 0 <=> S = {})
    BY FS_CardinalityType, FS_EmptySet
<1>4. Len(q) = IF Cardinality(S) < k THEN Cardinality(S) ELSE k
    BY DEF Nearest
<1>5. S # {} /\ k # 0 => Len(q) # 0
    BY <1>3, <1>4
<1> QED
    BY <1>2, <1>5

LEMMA ClosestIs ==
    ASSUME NEW old, NEW new, IsFiniteSet(old), IsFiniteSet(new), NEW ef \in Nat \ {0},
           NEW S \in Closest(old, new, ef), old # {}
    PROVE  S \subseteq old \cup new /\ IsFiniteSet(S) /\ S # {}
<1> DEFINE all == old \cup new
<1>1. IsFiniteSet(all)
    BY FS_Union
<1>2. S \in SUBSET all /\ Cardinality(S) = IF Cardinality(all) < ef THEN Cardinality(all) ELSE ef
    BY DEF Closest
<1> HIDE DEF all
<1>3. Cardinality(all) \in Nat /\ (Cardinality(all) = 0 <=> all = {})
    BY <1>1, FS_CardinalityType, FS_EmptySet
<1>4. IsFiniteSet(S) /\ (Cardinality(all) = Cardinality(S) => all = S)
    BY <1>1, <1>2, FS_Subset
<1>5. Cardinality(S) = 0 <=> S = {}
    BY <1>4, FS_EmptySet
<1>6. all # {} => S # {}
    BY <1>2, <1>3, <1>5
<1> QED
    BY <1>2, <1>4, <1>6 DEF all

(* With room for all of them, all of them.                                 *)
LEMMA ClosestAll ==
    ASSUME NEW old, NEW new, IsFiniteSet(old), IsFiniteSet(new), NEW ef \in Nat \ {0},
           NEW S \in Closest(old, new, ef), Cardinality(old \cup new) <= ef
    PROVE  S = old \cup new
<1> DEFINE all == old \cup new
<1>1. IsFiniteSet(all)
    BY FS_Union
<1>2. S \in SUBSET all /\ Cardinality(S) = IF Cardinality(all) < ef THEN Cardinality(all) ELSE ef
    BY DEF Closest
<1> HIDE DEF all
<1>3. Cardinality(all) \in Nat /\ (Cardinality(all) = 0 <=> all = {})
    BY <1>1, FS_CardinalityType, FS_EmptySet
<1>4. IsFiniteSet(S) /\ (Cardinality(all) = Cardinality(S) => all = S)
    BY <1>1, <1>2, FS_Subset
<1>5. Cardinality(all) <= ef
    BY DEF all
<1>6. S = all
    BY <1>2, <1>3, <1>4, <1>5
<1> QED
    BY <1>6 DEF all

(* A set of hits at the elements of a finite set.                          *)
LEMMA HitsFinite ==
    ASSUME NEW q, NEW S, IsFiniteSet(S)
    PROVE  IsFiniteSet({Hit(q, n) : n \in S})
<1> DEFINE T == {Hit(q, n) : n \in S}
           f == [n \in S |-> Hit(q, n)]
<1>1. f \in Surjection(S, T)
    BY DEF Surjection
<1> HIDE DEF f, T
<1>2. IsFiniteSet(T)
    BY <1>1, FS_Surjection
<1> QED
    BY <1>2 DEF T

-----------------------------------------------------------------------------
(* The invariants of types, and what each step does to its goroutine.      *)

HitNodes(S) == {r.node : r \in S}
HasLevel(S, l) == \A n \in S : n \in Range(nodes) /\ level[n] >= l
Linking == {"connect", "locking", "prune", "trim"}

JobFits(t) ==
    LET j == job[t]
    IN  /\ pc[t] \in {"descend", "gather"} =>
              /\ HasLevel(HitNodes(j.cand) \cup HitNodes(j.res), j.at)
              /\ j.id # NoNode => j.id \in Range(nodes)
              /\ pc[t] = "gather" /\ j.id # NoNode => j.at <= level[j.id]
              /\ j.prune = <<>> /\ j.res # {} /\ IsFiniteSet(j.res)
        /\ pc[t] \in Linking =>
              /\ j.id \in Range(nodes) /\ j.at <= level[j.id]
              /\ HasLevel(Range(j.todo), j.at) /\ j.id \notin Range(j.todo)
              /\ HasLevel(Range(j.prune), j.at)
        /\ pc[t] = "locking" => j.todo # <<>>
        /\ pc[t] = "trim" =>
              /\ j.prune # <<>> /\ Len(j.keep) <= MaxLinks(j.at)
              /\ HasLevel(Range(j.keep), j.at) /\ Head(j.prune) \notin Range(j.keep)
        /\ pc[t] = "delete" =>
              j.id \in Range(nodes) /\ j.at <= level[j.id] /\ Range(j.todo) \subseteq Range(nodes)

EntryFits ==
    /\ entryPoint = NoNode <=> nodes = <<>>
    /\ entryPoint # NoNode => level[entryPoint] >= maxLevel

Steps == {"idle", "descend", "gather", "connect", "locking", "prune", "trim", "delete"}
Locals == pc \in [Threads -> Steps] /\ job \in [Threads -> Jobs]
GraphFits ==
    /\ M \in Ms /\ nodes \in Seq(Ids) /\ IsInjective(nodes)
    /\ vec \in [Ids -> Nat] /\ level \in [Ids -> 0 .. LevelCap] /\ deleted \subseteq Range(nodes)
    /\ entryPoint \in Range(nodes) \cup {NoNode} /\ maxLevel \in 0 .. LevelCap
    /\ done \subseteq Range(nodes) /\ trimmed \in BOOLEAN
    /\ EntryFits
FriendsFit ==
    /\ DOMAIN friends = Ids
    /\ \A n \in Ids \ Range(nodes) : friends[n] = <<>>
    /\ \A n \in Range(nodes) : friends[n] \in [0 .. level[n] -> Seq(Range(nodes))]
    /\ LinksFit
LockTypes == mu \in Threads \cup {NoThread} /\ lock \in [Ids -> Threads \cup {NoThread}]
JobsFit == \A t \in Threads : JobFits(t)
TypeInv == GraphFits /\ FriendsFit /\ LockTypes /\ Locals /\ JobsFit

Only(t) ==
    /\ pc' \in [Threads -> Steps] /\ job' \in [Threads -> Jobs]
    /\ \A u \in Threads \ {t} : pc'[u] = pc[u] /\ job'[u] = job[u]

LEMMA Becomes ==
    ASSUME Locals, NEW t \in Threads, NEW p \in Steps, NEW k \in Jobs,
           pc' = [pc EXCEPT ![t] = p], job' = [job EXCEPT ![t] = k]
    PROVE  Only(t) /\ pc'[t] = p /\ job'[t] = k
BY DEF Locals, Only

LEMMA JobHas ==
    ASSUME Locals, NEW t \in Threads
    PROVE  /\ job[t] \in Jobs /\ pc[t] \in Steps
           /\ job[t].id \in Ids \cup {NoNode} /\ job[t].q \in Nat /\ job[t].at \in Nat
           /\ job[t].cand \in SUBSET Hits /\ job[t].seen \in SUBSET Ids /\ job[t].res \in SUBSET Hits
           /\ job[t].todo \in Seq(Ids) /\ job[t].prune \in Seq(Ids) /\ job[t].keep \in Seq(Ids)
           /\ job[t].known \in SUBSET Ids
<1>1. job[t] \in Jobs /\ pc[t] \in Steps
    BY DEF Locals
<1> QED
    BY <1>1 DEF Jobs

LEMMA NodesAre ==
    ASSUME GraphFits
    PROVE  /\ Range(nodes) \subseteq Ids /\ nodes \in Seq(Range(nodes)) /\ Len(nodes) \in Nat
           /\ Range(nodes) = {nodes[i] : i \in 1 .. Len(nodes)}
           /\ nodes # <<>> => nodes[1] \in Range(nodes)
           /\ Ids \subseteq Nat /\ NoNode \notin Ids /\ IsFiniteSet(Range(nodes))
           /\ \A n \in Ids : level[n] \in Nat /\ level[n] <= LevelCap
           /\ M \in Nat \ {0} /\ \A l \in Nat : MaxLinks(l) \in Nat \ {0}
<1>1. nodes \in Seq(Ids) /\ M \in Ms /\ level \in [Ids -> 0 .. LevelCap]
    BY DEF GraphFits
<1>2. /\ Range(nodes) \subseteq Ids /\ nodes \in Seq(Range(nodes))
      /\ Range(nodes) = {nodes[i] : i \in 1 .. Len(nodes)}
    BY <1>1, RangeIs
<1>3. Len(nodes) \in Nat /\ (nodes # <<>> => Len(nodes) # 0)
    BY <1>1
<1>4. nodes # <<>> => nodes[1] \in Range(nodes)
    BY <1>2, <1>3
<1>5. M \in Nat \ {0} /\ \A l \in Nat : MaxLinks(l) \in Nat \ {0}
    BY <1>1, Bounds DEF MaxLinks
<1>6. IsFiniteSet(Range(nodes))
    BY <1>2, Bounds, FS_Subset
<1>7. \A n \in Ids : level[n] \in Nat /\ level[n] <= LevelCap
    BY <1>1, Bounds
<1> QED
    BY <1>2, <1>3, <1>4, <1>5, <1>6, <1>7, Bounds

(* A link of level l of a node that has the level.                         *)
LEMMA FriendsAre ==
    ASSUME GraphFits, FriendsFit, NEW n \in Range(nodes), NEW l \in Nat, l <= level[n]
    PROVE  /\ l \in DOMAIN friends[n] /\ friends[n][l] \in Seq(Range(nodes))
           /\ friends[n][l] \in Seq(Ids) /\ Len(friends[n][l]) \in Nat
           /\ friends[n] \in [0 .. level[n] -> Seq(Range(nodes))]
           /\ Range(friends[n][l]) \subseteq Range(nodes)
           /\ n \notin Range(friends[n][l]) /\ HasLevel(Range(friends[n][l]), l)
           /\ n \in Ids
<1>1. friends[n] \in [0 .. level[n] -> Seq(Range(nodes))]
    BY DEF FriendsFit
<1>2. Range(nodes) \subseteq Ids /\ n \in Ids /\ level[n] \in Nat
    BY NodesAre
<1>3. l \in 0 .. level[n]
    BY <1>2
<1>4. l \in DOMAIN friends[n] /\ friends[n][l] \in Seq(Range(nodes))
    BY <1>1, <1>3
<1>5. Range(friends[n][l]) \subseteq Range(nodes)
    BY <1>4, RangeIs
<1>6. friends[n][l] \in Seq(Ids) /\ Len(friends[n][l]) \in Nat
    BY <1>2, <1>4
<1>7. \A i \in Range(friends[n][l]) : i # n /\ level[i] >= l
    BY <1>3 DEF FriendsFit, LinksFit
<1> QED
    BY <1>1, <1>2, <1>4, <1>5, <1>6, <1>7 DEF HasLevel

(* The search of a layer begins at e.                                      *)
Starts(k, e, l) ==
    /\ k.at = l /\ k.seen = {e} /\ k.prune = <<>>
    /\ \E h \in Hits : h.node = e /\ k.cand = {h} /\ k.res = {h}

LEMMA StartLayerIs ==
    ASSUME GraphFits, NEW j \in Jobs, j.prune = <<>>, NEW e \in Ids, NEW l \in Nat
    PROVE  /\ StartLayer(j, e, l) \in Jobs /\ Starts(StartLayer(j, e, l), e, l)
           /\ StartLayer(j, e, l).id = j.id /\ StartLayer(j, e, l).known = j.known
<1> DEFINE h == Hit(j.q, e)
           k == [j EXCEPT !.at = l, !.cand = {h}, !.seen = {e}, !.res = {h}]
<1>1. h \in Hits /\ h.node = e
    <2>1. vec[e] \in Nat /\ j.q \in Nat
        BY DEF GraphFits, Jobs
    <2>2. Dist(j.q, vec[e]) \in Nat
        BY <2>1, DistIs
    <2> QED
        BY <2>2 DEF Hit, Hits
<1>2. StartLayer(j, e, l) = k
    BY DEF StartLayer
<1> HIDE DEF h
<1>3. /\ k \in Jobs /\ k.at = l /\ k.cand = {h} /\ k.seen = {e} /\ k.res = {h}
      /\ k.id = j.id /\ k.known = j.known /\ k.prune = <<>>
    BY <1>1 DEF Jobs
<1> HIDE DEF k
<1> QED
    BY <1>1, <1>2, <1>3 DEF Starts

LEMMA StartsHas ==
    ASSUME NEW k, NEW e, NEW l, Starts(k, e, l)
    PROVE  /\ k.at = l /\ k.seen = {e} /\ k.prune = <<>> /\ HitNodes(k.cand) = {e} /\ HitNodes(k.res) = {e}
           /\ k.res # {} /\ IsFiniteSet(k.res)
           /\ \A r, s \in k.res : r = s
<1>1. PICK h \in Hits : h.node = e /\ k.cand = {h} /\ k.res = {h}
    BY DEF Starts
<1>2. k.at = l /\ k.seen = {e} /\ k.prune = <<>>
    BY DEF Starts
<1>3. IsFiniteSet(k.res)
    BY <1>1, FS_Singleton
<1> QED
    BY <1>1, <1>2, <1>3 DEF HitNodes

LEMMA NoJobIs ==
    /\ NoJob \in Jobs /\ NoJob.id = NoNode /\ NoJob.known = {} /\ NoJob.prune = <<>>
BY DEF NoJob, Jobs, Hits

-----------------------------------------------------------------------------
(* The effect of each step on its goroutine.                               *)

ExpandTo(t, c, next) ==
    /\ c \in job[t].cand /\ c.node \in Range(nodes) /\ level[c.node] >= job[t].at
    /\ next \in Neighbours(c.node, job[t].at, job[t].seen)
    /\ next \subseteq Range(friends[c.node][job[t].at]) \ job[t].seen
    /\ job'[t].cand = (job[t].cand \ {c}) \cup {Hit(job[t].q, n) : n \in next}
    /\ job'[t].seen = job[t].seen \cup next
    /\ job'[t].res \in Closest(job[t].res, {Hit(job[t].q, n) : n \in next}, Width(t))
ExpandDoes(t) ==
    /\ Only(t) /\ pc[t] \in {"descend", "gather"} /\ pc'[t] = pc[t]
    /\ job'[t].id = job[t].id /\ job'[t].at = job[t].at /\ job'[t].known = job[t].known
    /\ job'[t].prune = job[t].prune
    /\ \E c, next : ExpandTo(t, c, next)

LEMMA ExpandStep ==
    ASSUME TypeInv, NEW t \in Threads, Expand(t) PROVE ExpandDoes(t)
<1> DEFINE j == job[t]
<1>1. GraphFits /\ FriendsFit /\ Locals /\ JobFits(t)
    BY DEF TypeInv, JobsFit
<1>2. pc[t] \in {"descend", "gather"} /\ pc' = pc
    BY DEF Expand
<1>3. PICK c \in j.cand : \E next \in Neighbours(c.node, j.at, j.seen) :
              \E S \in Closest(j.res, {Hit(j.q, n) : n \in next}, Width(t)) :
                   job' = [job EXCEPT ![t].cand = (@ \ {c}) \cup {Hit(j.q, n) : n \in next},
                                      ![t].seen = @ \cup next, ![t].res = S]
    BY DEF Expand
<1>4. PICK next \in Neighbours(c.node, j.at, j.seen) :
              \E S \in Closest(j.res, {Hit(j.q, n) : n \in next}, Width(t)) :
                   job' = [job EXCEPT ![t].cand = (@ \ {c}) \cup {Hit(j.q, n) : n \in next},
                                      ![t].seen = @ \cup next, ![t].res = S]
    BY <1>3
<1> DEFINE new == {Hit(j.q, n) : n \in next}
           cand == (j.cand \ {c}) \cup new
           seen == j.seen \cup next
<1>5. PICK S \in Closest(j.res, new, Width(t)) :
              job' = [job EXCEPT ![t].cand = (@ \ {c}) \cup new, ![t].seen = @ \cup next, ![t].res = S]
    BY <1>4
<1>6. j \in Jobs /\ j.q \in Nat /\ j.at \in Nat /\ j.cand \in SUBSET Hits /\ j.seen \in SUBSET Ids
      /\ j.res \in SUBSET Hits
    BY <1>1, JobHas
<1>7. HasLevel(HitNodes(j.cand), j.at)
    BY <1>1, <1>2 DEF JobFits, HasLevel
<1>8. c.node \in Range(nodes) /\ level[c.node] >= j.at
    BY <1>3, <1>7 DEF HasLevel, HitNodes
<1>9. next \subseteq Range(friends[c.node][j.at]) \ j.seen
    <2>1. j.at \in DOMAIN friends[c.node]
        BY <1>1, <1>6, <1>8, NodesAre, FriendsAre
    <2> QED
        BY <1>4, <2>1 DEF Neighbours
<1>10. next \subseteq Ids
    BY <1>1, <1>6, <1>8, <1>9, NodesAre, FriendsAre
<1>11. new \subseteq Hits
    <2>1. ASSUME NEW n \in next PROVE Hit(j.q, n) \in Hits
        <3>1. vec[n] \in Nat /\ n \in Ids
            BY <1>1, <1>10 DEF GraphFits
        <3> QED
            BY <1>6, <3>1, DistIs DEF Hit, Hits
    <2> QED
        BY <2>1
<1> HIDE DEF new
<1>12. S \subseteq Hits
    BY <1>5, <1>6, <1>11 DEF Closest
<1>13. cand \subseteq Hits /\ seen \subseteq Ids
    BY <1>6, <1>10, <1>11
<1>14. job' = [job EXCEPT ![t] = [j EXCEPT !.cand = cand, !.seen = seen, !.res = S]]
    BY <1>5
<1> HIDE DEF cand, seen
<1> DEFINE k == [j EXCEPT !.cand = cand, !.seen = seen, !.res = S]
<1>15. k \in Jobs /\ k.cand = cand /\ k.seen = seen /\ k.res = S /\ k.id = j.id /\ k.at = j.at
       /\ k.known = j.known /\ k.prune = j.prune
    BY <1>6, <1>12, <1>13 DEF Jobs
<1> HIDE DEF k
<1>16. pc' = [pc EXCEPT ![t] = pc[t]] /\ pc[t] \in Steps
    BY <1>1, <1>2 DEF Locals
<1>17. Only(t) /\ pc'[t] = pc[t] /\ job'[t] = k
    BY <1>1, <1>14, <1>15, <1>16, Becomes DEF k
<1>18. ExpandTo(t, c, next)
    BY <1>3, <1>4, <1>5, <1>8, <1>9, <1>15, <1>17 DEF ExpandTo, cand, seen, new
<1> QED
    BY <1>2, <1>15, <1>17, <1>18 DEF ExpandDoes

InsertNewDoes(t, id, l) ==
    /\ pc[t] = "idle" /\ Only(t) /\ id \notin Range(nodes) /\ l \in 0 .. LevelCap
    /\ entryPoint = NoNode => pc' = pc /\ job' = job
    /\ entryPoint # NoNode =>
          /\ pc'[t] = "descend" /\ job'[t].id = id /\ job'[t].known = {}
          /\ Starts(job'[t], entryPoint, maxLevel)

LEMMA InsertNewStep ==
    ASSUME TypeInv, NEW t \in Threads, NEW id \in Ids, NEW v \in Vectors[id], NEW l \in Levels(id),
           InsertNew(t, id, v, l)
    PROVE  InsertNewDoes(t, id, l) /\ v \in Nat
<1>1. GraphFits /\ Locals
    BY DEF TypeInv
<1>2. pc[t] = "idle" /\ id \notin Range(nodes)
    BY DEF InsertNew, Exists
<1>3. l \in 0 .. LevelCap /\ v \in Nat
    <2>1. Draws[id] \subseteq 0 .. LevelCap /\ Vectors[id] \subseteq Nat /\ LevelCap \in Nat
        BY Bounds
    <2> QED
        BY <2>1 DEF Levels
<1>4. CASE entryPoint = NoNode
    <2>1. pc' = pc /\ job' = job
        BY <1>4 DEF InsertNew, threads
    <2>2. Only(t)
        BY <1>1, <2>1 DEF Only, Locals
    <2> QED
        BY <1>2, <1>3, <1>4, <2>1, <2>2 DEF InsertNewDoes
<1>5. CASE entryPoint # NoNode
    <2> DEFINE j == [NoJob EXCEPT !.id = id, !.q = v]
               k == StartLayer(j, entryPoint, maxLevel)
    <2>1. pc' = [pc EXCEPT ![t] = "descend"] /\ job' = [job EXCEPT ![t] = k]
        BY <1>5 DEF InsertNew
    <2>2. j \in Jobs /\ j.id = id /\ j.known = {} /\ j.prune = <<>>
        <3>1. NoJob \in Jobs /\ NoJob.known = {} /\ NoJob.prune = <<>>
            BY NoJobIs
        <3> QED
            BY <1>3, <3>1 DEF Jobs
    <2>3. entryPoint \in Ids /\ maxLevel \in Nat
        <3>1. entryPoint \in Range(nodes) /\ maxLevel \in 0 .. LevelCap
            BY <1>1, <1>5 DEF GraphFits
        <3> QED
            BY <1>1, <3>1, NodesAre
    <2> HIDE DEF j
    <2>4. k \in Jobs /\ Starts(k, entryPoint, maxLevel) /\ k.id = id /\ k.known = {}
        BY <1>1, <2>2, <2>3, StartLayerIs
    <2> HIDE DEF k
    <2>5. Only(t) /\ pc'[t] = "descend" /\ job'[t] = k
        BY <1>1, <2>1, <2>4, Becomes DEF Steps
    <2> QED
        BY <1>2, <1>3, <1>5, <2>4, <2>5 DEF InsertNewDoes
<1> QED
    BY <1>3, <1>4, <1>5

DescendDoes(t) ==
    LET last == IF job[t].id = NoNode THEN 1 ELSE 0
    IN  /\ Only(t) /\ pc[t] = "descend" /\ job'[t].id = job[t].id /\ job'[t].known = job[t].known
        /\ \E e \in HitNodes(job[t].res) :
              IF job[t].at > last
              THEN pc'[t] = "descend" /\ Starts(job'[t], e, job[t].at - 1)
              ELSE pc'[t] = "gather" /\ Starts(job'[t], e, 0)

LEMMA DescendStep ==
    ASSUME TypeInv, NEW t \in Threads, Descend(t) PROVE DescendDoes(t)
<1> DEFINE j == job[t]
           last == IF j.id = NoNode THEN 1 ELSE 0
           p == IF j.at > last THEN "descend" ELSE "gather"
           l == IF j.at > last THEN j.at - 1 ELSE 0
<1>1. GraphFits /\ Locals /\ JobFits(t) /\ pc[t] = "descend"
    BY DEF TypeInv, JobsFit, Descend
<1>2. PICK e \in j.res : pc' = [pc EXCEPT ![t] = p] /\ job' = [job EXCEPT ![t] = StartLayer(j, e.node, l)]
    BY DEF Descend
<1>3. j \in Jobs /\ j.at \in Nat /\ j.res \in SUBSET Hits /\ j.prune = <<>>
    BY <1>1, JobHas DEF JobFits
<1>4. e.node \in Ids /\ e.node \in HitNodes(j.res) /\ l \in Nat /\ p \in Steps
    BY <1>3 DEF Hits, HitNodes, Steps
<1> DEFINE k == StartLayer(j, e.node, l)
<1>5. k \in Jobs /\ Starts(k, e.node, l) /\ k.id = j.id /\ k.known = j.known
    BY <1>1, <1>3, <1>4, StartLayerIs
<1>6. job' = [job EXCEPT ![t] = k]
    BY <1>2
<1>7. Only(t) /\ pc'[t] = p /\ job'[t] = k
    <2> HIDE DEF k, p
    <2> QED
        BY <1>1, <1>2, <1>4, <1>5, <1>6, Becomes
<1> HIDE DEF k
<1>8. job'[t].id = j.id /\ job'[t].known = j.known /\ Starts(job'[t], e.node, l)
    BY <1>5, <1>7
<1>9. IF j.at > last THEN pc'[t] = "descend" /\ Starts(job'[t], e.node, j.at - 1)
      ELSE pc'[t] = "gather" /\ Starts(job'[t], e.node, 0)
    <2> HIDE DEF last
    <2> QED
        BY <1>7, <1>8
<1> QED
    BY <1>1, <1>4, <1>7, <1>8, <1>9 DEF DescendDoes

GatheredDoes(t) ==
    /\ Only(t) /\ pc[t] = "gather" /\ pc'[t] = "connect" /\ job[t].id # NoNode
    /\ job'[t].id = job[t].id /\ job'[t].at = job[t].at /\ job'[t].known = job[t].known
    /\ job'[t].prune = job[t].prune
    /\ \A n \in Range(job'[t].todo) : n \in HitNodes(job[t].res) /\ n # job[t].id
    /\ job'[t].todo = <<>> => HitNodes(job[t].res) \subseteq {job[t].id}

LEMMA GatheredStep ==
    ASSUME TypeInv, NEW t \in Threads, Gathered(t) PROVE GatheredDoes(t)
<1> DEFINE j == job[t]
           S == {r \in j.res : r.node # j.id}
<1>1. GraphFits /\ Locals /\ JobFits(t) /\ pc[t] = "gather" /\ pc' = [pc EXCEPT ![t] = "connect"]
      /\ j.id # NoNode
    BY DEF TypeInv, JobsFit, Gathered
<1>2. j \in Jobs /\ j.at \in Nat /\ j.res \in SUBSET Hits /\ IsFiniteSet(j.res)
    BY <1>1, JobHas DEF JobFits
<1>3. PICK q \in Nearest(S, MaxLinks(j.at)) : job' = [job EXCEPT ![t].todo = [i \in DOMAIN q |-> q[i].node]]
    BY DEF Gathered
<1>4. IsFiniteSet(S) /\ MaxLinks(j.at) \in Nat \ {0}
    <2>1. IsFiniteSet(S)
        BY <1>2, FS_Subset
    <2> QED
        BY <1>1, <1>2, <2>1, NodesAre
<1> DEFINE todo == [i \in DOMAIN q |-> q[i].node]
<1>5. q \in Seq(S) /\ (S # {} => q # <<>>)
    <2> HIDE DEF S
    <2> QED
        BY <1>3, <1>4, NearestIs
<1>6. DOMAIN q = 1 .. Len(q) /\ Len(q) \in Nat /\ \A i \in 1 .. Len(q) : q[i] \in S
    <2> HIDE DEF S
    <2> QED
        BY <1>5
<1>7. \A i \in 1 .. Len(q) : q[i].node \in Ids /\ q[i].node \in HitNodes(j.res) /\ q[i].node # j.id
    BY <1>2, <1>6 DEF Hits, HitNodes
<1>8. todo \in Seq(Ids) /\ Len(todo) = Len(q) /\ \A i \in 1 .. Len(q) : todo[i] = q[i].node
    BY <1>6, <1>7
<1>9. job' = [job EXCEPT ![t] = [j EXCEPT !.todo = todo]]
    BY <1>3
<1> HIDE DEF todo
<1> DEFINE k == [j EXCEPT !.todo = todo]
<1>10. k \in Jobs /\ k.todo = todo /\ k.id = j.id /\ k.at = j.at /\ k.known = j.known /\ k.prune = j.prune
    BY <1>2, <1>8 DEF Jobs
<1> HIDE DEF k
<1>11. Only(t) /\ pc'[t] = "connect" /\ job'[t] = k
    BY <1>1, <1>9, <1>10, Becomes DEF Steps, k
<1>12. \A n \in Range(todo) : n \in HitNodes(j.res) /\ n # j.id
    <2>1. Range(todo) = {todo[i] : i \in 1 .. Len(todo)}
        BY <1>8, RangeIs
    <2> QED
        BY <1>7, <1>8, <2>1
<1>13. todo = <<>> => HitNodes(j.res) \subseteq {j.id}
    <2>1. todo = <<>> => q = <<>>
        BY <1>5, <1>8
    <2>2. todo = <<>> => S = {}
        BY <1>5, <2>1
    <2> QED
        BY <2>2 DEF HitNodes
<1> QED
    BY <1>1, <1>10, <1>11, <1>12, <1>13 DEF GatheredDoes

LockFirstDoes(t) ==
    /\ Only(t) /\ pc[t] = "connect" /\ pc'[t] = "locking" /\ job'[t] = job[t] /\ job[t].todo # <<>>

LEMMA LockFirstStep ==
    ASSUME TypeInv, NEW t \in Threads, LockFirst(t) PROVE LockFirstDoes(t)
<1>1. Locals /\ pc[t] = "connect" /\ job[t].todo # <<>> /\ job' = job /\ pc' = [pc EXCEPT ![t] = "locking"]
    BY DEF TypeInv, LockFirst
<1>2. job' = [job EXCEPT ![t] = job[t]] /\ job[t] \in Jobs
    BY <1>1 DEF Locals
<1> QED
    BY <1>1, <1>2, Becomes DEF LockFirstDoes, Steps

LinkDoes(t) ==
    /\ Only(t) /\ pc[t] = "locking" /\ pc'[t] = "connect"
    /\ job'[t].id = job[t].id /\ job'[t].at = job[t].at /\ job'[t].known = job[t].known
    /\ job[t].todo # <<>> /\ Head(job[t].todo) \in Range(job[t].todo) /\ Head(job[t].todo) # job[t].id
    /\ Range(job[t].todo) = {Head(job[t].todo)} \cup Range(job'[t].todo)
    /\ Range(job'[t].prune) = Range(job[t].prune) \cup
           IF Len(friends'[Head(job[t].todo)][job[t].at]) > MaxLinks(job[t].at)
           THEN {Head(job[t].todo)} ELSE {}

LEMMA LinkStep ==
    ASSUME TypeInv, NEW t \in Threads, Link(t) PROVE LinkDoes(t)
<1> DEFINE j == job[t]
           rest == Tail(j.todo)
           longer == IF Len(friends'[Head(j.todo)][j.at]) > MaxLinks(j.at)
                     THEN Append(j.prune, Head(j.todo)) ELSE j.prune
<1>1. Locals /\ JobFits(t) /\ pc[t] = "locking"
    BY DEF TypeInv, JobsFit, Link
<1>2. j \in Jobs /\ j.todo \in Seq(Ids) /\ j.prune \in Seq(Ids) /\ j.todo # <<>> /\ j.id \notin Range(j.todo)
    BY <1>1, JobHas DEF JobFits, Linking
<1>3. /\ rest \in Seq(Ids) /\ Head(j.todo) \in Ids /\ Head(j.todo) \in Range(j.todo)
      /\ Range(j.todo) = {Head(j.todo)} \cup Range(rest)
    BY <1>2, TailIs
<1>4. longer \in Seq(Ids) /\ Range(longer) = Range(j.prune) \cup
          IF Len(friends'[Head(j.todo)][j.at]) > MaxLinks(j.at) THEN {Head(j.todo)} ELSE {}
    BY <1>2, <1>3, AppendIs
<1>5. job' = [job EXCEPT ![t].todo = rest, ![t].prune = longer]
    BY DEF Link
<1>6. pc' = [pc EXCEPT ![t] = "connect"]
    BY DEF Link
<1> HIDE DEF rest, longer
<1>7. job' = [job EXCEPT ![t] = [j EXCEPT !.todo = rest, !.prune = longer]]
    BY <1>5
<1> DEFINE k == [j EXCEPT !.todo = rest, !.prune = longer]
<1>8. k \in Jobs /\ k.todo = rest /\ k.prune = longer /\ k.id = j.id /\ k.at = j.at /\ k.known = j.known
    BY <1>2, <1>3, <1>4 DEF Jobs
<1> HIDE DEF k
<1>9. Only(t) /\ pc'[t] = "connect" /\ job'[t] = k
    BY <1>1, <1>6, <1>7, <1>8, Becomes DEF Steps, k
<1>10. Range(job'[t].prune) = Range(j.prune) \cup
           IF Len(friends'[Head(j.todo)][j.at]) > MaxLinks(j.at) THEN {Head(j.todo)} ELSE {}
    BY <1>4, <1>8, <1>9
<1> QED
    BY <1>1, <1>2, <1>3, <1>8, <1>9, <1>10 DEF LinkDoes

ConnectedDoes(t) ==
    /\ Only(t) /\ pc[t] = "connect" /\ pc'[t] = "prune" /\ job[t].todo = <<>>
    /\ job'[t].id = job[t].id /\ job'[t].at = job[t].at /\ job'[t].known = job[t].known
    /\ job'[t].todo = <<>>
    /\ Range(job'[t].prune) = Range(job[t].prune) \cup
           IF Len(friends[job[t].id][job[t].at]) > MaxLinks(job[t].at) THEN {job[t].id} ELSE {}

LEMMA ConnectedStep ==
    ASSUME TypeInv, NEW t \in Threads, Connected(t) PROVE ConnectedDoes(t)
<1> DEFINE j == job[t]
           longer == IF Len(friends[j.id][j.at]) > MaxLinks(j.at) THEN Append(j.prune, j.id) ELSE j.prune
<1>1. GraphFits /\ Locals /\ JobFits(t) /\ pc[t] = "connect" /\ j.todo = <<>>
    BY DEF TypeInv, JobsFit, Connected
<1>2. j \in Jobs /\ j.prune \in Seq(Ids) /\ j.id \in Range(nodes)
    BY <1>1, JobHas DEF JobFits, Linking
<1>3. j.id \in Ids
    BY <1>1, <1>2, NodesAre
<1>4. longer \in Seq(Ids) /\ Range(longer) = Range(j.prune) \cup
          IF Len(friends[j.id][j.at]) > MaxLinks(j.at) THEN {j.id} ELSE {}
    BY <1>2, <1>3, AppendIs
<1>5. job' = [job EXCEPT ![t].prune = longer] /\ pc' = [pc EXCEPT ![t] = "prune"]
    BY DEF Connected
<1> HIDE DEF longer
<1>6. job' = [job EXCEPT ![t] = [j EXCEPT !.prune = longer]]
    BY <1>5
<1> DEFINE k == [j EXCEPT !.prune = longer]
<1>7. k \in Jobs /\ k.todo = j.todo /\ k.prune = longer /\ k.id = j.id /\ k.at = j.at /\ k.known = j.known
    BY <1>2, <1>4 DEF Jobs
<1> HIDE DEF k
<1>8. Only(t) /\ pc'[t] = "prune" /\ job'[t] = k
    BY <1>1, <1>5, <1>6, <1>7, Becomes DEF Steps, k
<1>9. Range(job'[t].prune) = Range(j.prune) \cup
           IF Len(friends[j.id][j.at]) > MaxLinks(j.at) THEN {j.id} ELSE {}
    BY <1>4, <1>7, <1>8
<1> QED
    BY <1>1, <1>7, <1>8, <1>9 DEF ConnectedDoes

PruneReadDoes(t) ==
    /\ Only(t) /\ pc[t] = "prune" /\ job[t].prune # <<>> /\ Head(job[t].prune) \in Range(nodes)
    /\ job'[t].id = job[t].id /\ job'[t].at = job[t].at /\ job'[t].known = job[t].known
    /\ job'[t].todo = job[t].todo
    /\ \/ /\ pc'[t] = "prune"
          /\ Len(friends[Head(job[t].prune)][job[t].at]) <= MaxLinks(job[t].at)
          /\ Range(job[t].prune) = {Head(job[t].prune)} \cup Range(job'[t].prune)
       \/ /\ pc'[t] = "trim" /\ job'[t].prune = job[t].prune
          /\ Len(job'[t].keep) <= MaxLinks(job[t].at)
          /\ Range(job'[t].keep) \subseteq Range(friends[Head(job[t].prune)][job[t].at])

LEMMA PruneReadStep ==
    ASSUME TypeInv, NEW t \in Threads, PruneRead(t) PROVE PruneReadDoes(t)
<1> DEFINE j == job[t]
           l == j.at
           n == Head(j.prune)
           now == friends[n][l]
           far == {[node |-> now[i], dist |-> Dist(vec[n], vec[now[i]]), at |-> i] : i \in DOMAIN now}
<1>1. GraphFits /\ FriendsFit /\ Locals /\ JobFits(t) /\ pc[t] = "prune" /\ j.prune # <<>>
    BY DEF TypeInv, JobsFit, PruneRead
<1>2. j \in Jobs /\ j.prune \in Seq(Ids) /\ HasLevel(Range(j.prune), j.at) /\ j.at \in Nat
    BY <1>1, JobHas DEF JobFits, Linking
<1>3. n \in Range(j.prune) /\ Tail(j.prune) \in Seq(Ids) /\ Range(j.prune) = {n} \cup Range(Tail(j.prune))
    BY <1>1, <1>2, TailIs
<1>4. n \in Range(nodes) /\ level[n] >= l
    BY <1>2, <1>3 DEF HasLevel
<1>5. now \in Seq(Range(nodes)) /\ now \in Seq(Ids) /\ Len(now) \in Nat
    BY <1>1, <1>2, <1>4, NodesAre, FriendsAre
<1>6. MaxLinks(l) \in Nat
    BY <1>1, <1>2, NodesAre
<1>7. CASE Len(now) <= MaxLinks(l)
    <2> DEFINE rest == Tail(j.prune)
               k == [j EXCEPT !.prune = rest]
    <2>1. job' = [job EXCEPT ![t].prune = rest] /\ pc' = pc
        BY <1>7 DEF PruneRead
    <2> HIDE DEF rest
    <2>2. job' = [job EXCEPT ![t] = k] /\ pc' = [pc EXCEPT ![t] = "prune"]
        BY <1>1, <2>1 DEF Locals
    <2>3. rest \in Seq(Ids)
        BY <1>3 DEF rest
    <2>4. k \in Jobs /\ k.todo = j.todo /\ k.prune = rest /\ k.id = j.id /\ k.at = j.at /\ k.known = j.known
        BY <1>2, <2>3 DEF Jobs
    <2> HIDE DEF k
    <2>5. Only(t) /\ pc'[t] = "prune" /\ job'[t] = k
        BY <1>1, <2>2, <2>4, Becomes DEF Steps
    <2>6. Range(j.prune) = {n} \cup Range(job'[t].prune)
        BY <1>3, <2>4, <2>5 DEF rest
    <2> QED
        BY <1>1, <1>4, <1>7, <2>4, <2>5, <2>6 DEF PruneReadDoes
<1>8. CASE ~(Len(now) <= MaxLinks(l))
    <2>1. pc' = [pc EXCEPT ![t] = "trim"]
        BY <1>8 DEF PruneRead
    <2>2. PICK q \in Nearest(far, Len(now)) : job' = [job EXCEPT ![t].keep = Heuristic(q, MaxLinks(l))]
        BY <1>8 DEF PruneRead
    <2> DEFINE keep == Heuristic(q, MaxLinks(l))
               k == [j EXCEPT !.keep = keep]
    <2>3. DOMAIN now = 1 .. Len(now) /\ \A i \in 1 .. Len(now) : now[i] \in Range(now)
        <3> HIDE DEF now
        <3>1. now \in Seq(Range(now)) /\ Range(now) = {now[i] : i \in 1 .. Len(now)}
            BY <1>5, RangeIs
        <3> QED
            BY <1>5, <3>1
    <2>4. \A r \in far : r.node \in Range(now)
        <3> HIDE DEF now, n
        <3> QED
            BY <2>3
    <2>5. IsFiniteSet(far)
        <3> DEFINE f == [i \in DOMAIN now |->
                            [node |-> now[i], dist |-> Dist(vec[n], vec[now[i]]), at |-> i]]
        <3>1. f \in Surjection(DOMAIN now, far)
            BY DEF Surjection
        <3>2. IsFiniteSet(DOMAIN now)
            <4> HIDE DEF now
            <4>1. Len(now) \in Int /\ DOMAIN now = 1 .. Len(now)
                BY <1>5, <2>3
            <4> QED
                BY <4>1, FS_Interval
        <3> HIDE DEF f, far
        <3> QED
            BY <3>1, <3>2, FS_Surjection
    <2> HIDE DEF far
    <2>6. q \in Seq(far)
        BY <1>5, <2>2, <2>5, NearestIs
    <2>7. keep \in Seq(Range(now)) /\ Len(keep) <= MaxLinks(l)
        BY <1>6, <2>4, <2>6, HeuristicIs
    <2>8. Range(keep) \subseteq Range(now) /\ Range(now) \subseteq Ids
        <3> HIDE DEF now, keep
        <3> QED
            BY <1>5, <2>7, RangeIs
    <2>9. keep \in Seq(Ids)
        BY <2>7, <2>8
    <2>10. job' = [job EXCEPT ![t] = k]
        BY <2>2
    <2> HIDE DEF keep
    <2>11. k \in Jobs /\ k.todo = j.todo /\ k.keep = keep /\ k.prune = j.prune /\ k.id = j.id /\ k.at = j.at
           /\ k.known = j.known
        BY <1>2, <2>9 DEF Jobs
    <2> HIDE DEF k
    <2>12. Only(t) /\ pc'[t] = "trim" /\ job'[t] = k
        BY <1>1, <2>1, <2>10, <2>11, Becomes DEF Steps
    <2> QED
        BY <1>1, <1>4, <2>7, <2>8, <2>11, <2>12 DEF PruneReadDoes
<1> QED
    BY <1>7, <1>8

PruneWriteDoes(t) ==
    /\ Only(t) /\ pc[t] = "trim" /\ pc'[t] = "prune"
    /\ job[t].prune # <<>> /\ Head(job[t].prune) \in Range(nodes) /\ level[Head(job[t].prune)] >= job[t].at
    /\ job'[t].id = job[t].id /\ job'[t].at = job[t].at /\ job'[t].known = job[t].known
    /\ job'[t].todo = job[t].todo
    /\ Range(job[t].prune) = {Head(job[t].prune)} \cup Range(job'[t].prune)

LEMMA PruneWriteStep ==
    ASSUME TypeInv, NEW t \in Threads, PruneWrite(t) PROVE PruneWriteDoes(t)
<1> DEFINE j == job[t]
           rest == Tail(j.prune)
           k == [j EXCEPT !.prune = rest, !.keep = <<>>]
<1>1. Locals /\ JobFits(t) /\ pc[t] = "trim" /\ pc' = [pc EXCEPT ![t] = "prune"]
    BY DEF TypeInv, JobsFit, PruneWrite
<1>2. j \in Jobs /\ j.prune \in Seq(Ids) /\ j.prune # <<>> /\ HasLevel(Range(j.prune), j.at)
    BY <1>1, JobHas DEF JobFits, Linking
<1>3. /\ rest \in Seq(Ids) /\ Head(j.prune) \in Range(j.prune)
      /\ Range(j.prune) = {Head(j.prune)} \cup Range(rest)
    BY <1>2, TailIs
<1>4. Head(j.prune) \in Range(nodes) /\ level[Head(j.prune)] >= j.at
    BY <1>2, <1>3 DEF HasLevel
<1>5. job' = [job EXCEPT ![t].prune = rest, ![t].keep = <<>>]
    BY DEF PruneWrite
<1> HIDE DEF rest
<1>6. job' = [job EXCEPT ![t] = k]
    BY <1>5
<1>7. k \in Jobs /\ k.todo = j.todo /\ k.prune = rest /\ k.id = j.id /\ k.at = j.at /\ k.known = j.known
    <2>1. <<>> \in Seq(Ids)
        OBVIOUS
    <2> QED
        BY <1>2, <1>3, <2>1 DEF Jobs
<1> HIDE DEF k
<1>8. Only(t) /\ pc'[t] = "prune" /\ job'[t] = k
    BY <1>1, <1>6, <1>7, Becomes DEF Steps
<1> QED
    BY <1>1, <1>2, <1>3, <1>4, <1>7, <1>8 DEF PruneWriteDoes

NextLevelDoes(t) ==
    LET l == job[t].at + 1
    IN  /\ Only(t) /\ pc[t] = "prune" /\ pc'[t] = "gather" /\ job[t].prune = <<>>
        /\ job'[t].id = job[t].id /\ job'[t].known = job[t].known
        /\ job[t].id \in Range(nodes) /\ l <= level[job[t].id] /\ l \in Nat /\ l <= LevelCap
        /\ \E e \in Range(nodes) : IsFirst(e, l) /\ Starts(job'[t], e, l)

LEMMA NextLevelStep ==
    ASSUME TypeInv, NEW t \in Threads, NextLevel(t) PROVE NextLevelDoes(t)
<1> DEFINE j == job[t]
           l == j.at + 1
           e == EntryPointForLevel(l)
           k == StartLayer(j, e, l)
<1>1. /\ GraphFits /\ Locals /\ JobFits(t) /\ pc[t] = "prune" /\ pc' = [pc EXCEPT ![t] = "gather"]
      /\ j.prune = <<>> /\ j.at < level[j.id] /\ job' = [job EXCEPT ![t] = k]
    BY DEF TypeInv, JobsFit, NextLevel
<1>2. j \in Jobs /\ j.at \in Nat /\ j.id \in Range(nodes)
    BY <1>1, JobHas DEF JobFits, Linking
<1>3. j.id \in Ids /\ level[j.id] \in Nat /\ level[j.id] <= LevelCap /\ LevelCap \in Nat
    BY <1>1, <1>2, NodesAre, Bounds
<1>4. l \in Nat /\ l <= level[j.id] /\ l <= LevelCap
    BY <1>1, <1>2, <1>3
<1>5. nodes \in Seq(Ids) /\ level \in [Ids -> Nat]
    <2>1. \A n \in Ids : level[n] \in Nat
        BY <1>1, NodesAre
    <2> QED
        BY <1>1, <2>1 DEF GraphFits
<1> HIDE DEF l
<1>6. IsFirst(e, l) /\ e \in Range(nodes)
    BY <1>2, <1>4, <1>5, EntryPointForLevelIs
<1>7. e \in Ids
    BY <1>1, <1>6, NodesAre
<1> HIDE DEF e
<1>8. k \in Jobs /\ Starts(k, e, l) /\ k.id = j.id /\ k.known = j.known
    BY <1>1, <1>2, <1>4, <1>7, StartLayerIs
<1> HIDE DEF k
<1>9. Only(t) /\ pc'[t] = "gather" /\ job'[t] = k
    BY <1>1, <1>8, Becomes DEF Steps
<1> QED
    BY <1>1, <1>2, <1>4, <1>6, <1>8, <1>9 DEF NextLevelDoes, l

ReturnDoes(t) == Only(t) /\ pc'[t] = "idle" /\ job'[t] = NoJob

LEMMA ReturnStep ==
    ASSUME TypeInv, NEW t \in Threads, Return(t) PROVE ReturnDoes(t)
BY NoJobIs, Becomes DEF TypeInv, Return, ReturnDoes, Steps

SearchDoes(t) ==
    /\ pc[t] = "idle" /\ Only(t) /\ entryPoint # NoNode
    /\ pc'[t] = IF maxLevel > 0 THEN "descend" ELSE "gather"
    /\ job'[t].id = NoNode /\ job'[t].known = {n \in done : done = Range(nodes)}
    /\ Starts(job'[t], entryPoint, maxLevel)

LEMMA SearchStep ==
    ASSUME TypeInv, NEW t \in Threads, NEW q \in Queries, Search(t, q) PROVE SearchDoes(t)
<1> DEFINE known == {n \in done : done = Range(nodes)}
           j == [NoJob EXCEPT !.q = q, !.known = known]
           k == StartLayer(j, entryPoint, maxLevel)
           p == IF maxLevel > 0 THEN "descend" ELSE "gather"
<1>1. /\ GraphFits /\ Locals /\ pc[t] = "idle" /\ entryPoint # NoNode
      /\ pc' = [pc EXCEPT ![t] = p] /\ job' = [job EXCEPT ![t] = k]
    BY DEF TypeInv, Search
<1>2. q \in Nat /\ known \subseteq Ids
    BY <1>1, NodesAre, Bounds DEF GraphFits
<1> HIDE DEF known
<1>3. j \in Jobs /\ j.id = NoNode /\ j.known = known /\ j.prune = <<>>
    BY <1>2, NoJobIs DEF Jobs
<1>4. entryPoint \in Ids /\ maxLevel \in Nat
    <2>1. entryPoint \in Range(nodes) /\ maxLevel \in 0 .. LevelCap
        BY <1>1 DEF GraphFits
    <2> QED
        BY <1>1, <2>1, NodesAre
<1> HIDE DEF j
<1>5. k \in Jobs /\ Starts(k, entryPoint, maxLevel) /\ k.id = NoNode /\ k.known = known
    BY <1>1, <1>3, <1>4, StartLayerIs
<1>6. p \in Steps
    BY DEF Steps
<1> HIDE DEF k, p
<1>7. Only(t) /\ pc'[t] = p /\ job'[t] = k
    BY <1>1, <1>5, <1>6, Becomes
<1> QED
    BY <1>1, <1>5, <1>7 DEF SearchDoes, known, p

DeleteBeginDoes(t) ==
    /\ pc[t] = "idle" /\ Only(t) /\ pc'[t] = "delete"
    /\ job'[t].id \in Range(nodes) /\ job'[t].known = {} /\ job'[t].at = 0
    /\ Range(job'[t].todo) \subseteq Range(nodes)

LEMMA DeleteBeginStep ==
    ASSUME TypeInv, NEW t \in Threads, NEW id \in Deletable, DeleteBegin(t, id) PROVE DeleteBeginDoes(t)
<1> DEFINE todo == friends[id][0]
           k == [NoJob EXCEPT !.id = id, !.todo = todo]
<1>1. /\ GraphFits /\ FriendsFit /\ Locals /\ pc[t] = "idle" /\ id \in Range(nodes)
      /\ pc' = [pc EXCEPT ![t] = "delete"] /\ job' = [job EXCEPT ![t] = k]
    BY DEF TypeInv, DeleteBegin
<1>2. id \in Ids /\ 0 \in Nat /\ 0 <= level[id]
    BY <1>1, NodesAre
<1>3. todo \in Seq(Ids) /\ Range(todo) \subseteq Range(nodes)
    BY <1>1, <1>2, FriendsAre
<1> HIDE DEF todo
<1>4. NoJob \in Jobs /\ NoJob.known = {} /\ NoJob.at = 0
    BY NoJobIs DEF NoJob
<1>5. k \in Jobs /\ k.id = id /\ k.known = {} /\ k.at = 0 /\ k.todo = todo
    BY <1>2, <1>3, <1>4 DEF Jobs
<1> HIDE DEF k
<1>6. Only(t) /\ pc'[t] = "delete" /\ job'[t] = k
    BY <1>1, <1>5, Becomes DEF Steps
<1> QED
    BY <1>1, <1>3, <1>5, <1>6 DEF DeleteBeginDoes

DeleteDoes(t) ==
    /\ Only(t) /\ pc[t] = "delete" /\ pc'[t] = "delete"
    /\ job'[t].id = job[t].id /\ job'[t].known = job[t].known
    /\ job'[t].at \in Nat /\ job'[t].at <= level[job[t].id]
    /\ Range(job'[t].todo) \subseteq Range(nodes)

LEMMA DeleteNextStep ==
    ASSUME TypeInv, NEW t \in Threads, DeleteNext(t)
    PROVE  DeleteDoes(t) /\ Head(job[t].todo) \in Range(nodes) /\ job[t].todo # <<>>
<1> DEFINE j == job[t]
           rest == Tail(j.todo)
           k == [j EXCEPT !.todo = rest]
<1>1. GraphFits /\ Locals /\ JobFits(t) /\ pc[t] = "delete" /\ pc' = pc /\ j.todo # <<>>
    BY DEF TypeInv, JobsFit, DeleteNext
<1>2. /\ j \in Jobs /\ j.todo \in Seq(Ids) /\ j.at \in Nat
      /\ j.id \in Range(nodes) /\ j.at <= level[j.id] /\ Range(j.todo) \subseteq Range(nodes)
    BY <1>1, JobHas DEF JobFits
<1>3. rest \in Seq(Ids) /\ Head(j.todo) \in Range(j.todo) /\ Range(j.todo) = {Head(j.todo)} \cup Range(rest)
    BY <1>1, <1>2, TailIs
<1>4. job' = [job EXCEPT ![t].todo = rest]
    BY DEF DeleteNext
<1> HIDE DEF rest
<1>5. job' = [job EXCEPT ![t] = k] /\ pc' = [pc EXCEPT ![t] = "delete"]
    BY <1>1, <1>4 DEF Locals
<1>6. k \in Jobs /\ k.todo = rest /\ k.id = j.id /\ k.at = j.at /\ k.known = j.known
    BY <1>2, <1>3 DEF Jobs
<1> HIDE DEF k
<1>7. Only(t) /\ pc'[t] = "delete" /\ job'[t] = k
    BY <1>1, <1>5, <1>6, Becomes DEF Steps
<1> QED
    BY <1>1, <1>2, <1>3, <1>6, <1>7 DEF DeleteDoes

LEMMA DeleteLevelStep ==
    ASSUME TypeInv, NEW t \in Threads, DeleteLevel(t) PROVE DeleteDoes(t)
<1> DEFINE j == job[t]
           l == j.at + 1
           todo == friends[j.id][l]
           k == [j EXCEPT !.at = l, !.todo = todo]
<1>1. /\ GraphFits /\ FriendsFit /\ Locals /\ JobFits(t) /\ pc[t] = "delete" /\ pc' = pc
      /\ j.at < level[j.id] /\ job' = [job EXCEPT ![t].at = l, ![t].todo = todo]
    BY DEF TypeInv, JobsFit, DeleteLevel
<1>2. j \in Jobs /\ j.at \in Nat /\ j.id \in Range(nodes)
    BY <1>1, JobHas DEF JobFits
<1>3. l \in Nat /\ l <= level[j.id]
    <2>1. level[j.id] \in Nat
        BY <1>1, <1>2, NodesAre
    <2> QED
        BY <1>1, <1>2, <2>1
<1> HIDE DEF l
<1>4. todo \in Seq(Ids) /\ Range(todo) \subseteq Range(nodes)
    BY <1>1, <1>2, <1>3, FriendsAre
<1> HIDE DEF todo
<1>5. job' = [job EXCEPT ![t] = k] /\ pc' = [pc EXCEPT ![t] = "delete"]
    BY <1>1 DEF Locals
<1>6. k \in Jobs /\ k.todo = todo /\ k.id = j.id /\ k.at = l /\ k.known = j.known
    BY <1>2, <1>3, <1>4 DEF Jobs
<1> HIDE DEF k
<1>7. Only(t) /\ pc'[t] = "delete" /\ job'[t] = k
    BY <1>1, <1>5, <1>6, Becomes DEF Steps
<1> QED
    BY <1>1, <1>2, <1>3, <1>4, <1>6, <1>7 DEF DeleteDoes

(* What a popped candidate adds to the candidates and the results.         *)
LEMMA ExpandAdds ==
    ASSUME TypeInv, NEW t \in Threads, pc[t] \in {"descend", "gather"}, NEW c, NEW next, ExpandTo(t, c, next)
    PROVE  /\ HitNodes(job'[t].cand) \subseteq HitNodes(job[t].cand) \cup next
           /\ HitNodes(job'[t].res) \subseteq HitNodes(job[t].res) \cup next
           /\ job'[t].res # {} /\ IsFiniteSet(job'[t].res)
           /\ HasLevel(next, job[t].at) /\ next \subseteq Range(nodes) /\ next \subseteq Ids
           /\ HasLevel(HitNodes(job[t].cand) \cup HitNodes(job[t].res), job[t].at)
           /\ job[t].at \in Nat /\ IsFiniteSet({Hit(job[t].q, n) : n \in next})
           /\ IsFiniteSet(job[t].res)
           /\ Width(t) \in Nat \ {0}
<1> DEFINE j == job[t]
           new == {Hit(j.q, n) : n \in next}
<1>1. GraphFits /\ FriendsFit /\ Locals /\ JobFits(t)
    BY DEF TypeInv, JobsFit
<1>2. j.at \in Nat /\ j.res # {} /\ IsFiniteSet(j.res)
      /\ HasLevel(HitNodes(j.cand) \cup HitNodes(j.res), j.at)
    BY <1>1, JobHas DEF JobFits
<1>3. c.node \in Range(nodes) /\ level[c.node] >= j.at /\ c \in j.cand
      /\ next \subseteq Range(friends[c.node][j.at])
    BY DEF ExpandTo
<1>4. c.node \in Ids /\ level[c.node] \in Nat /\ j.at <= level[c.node]
    BY <1>1, <1>2, <1>3, NodesAre
<1>5. HasLevel(Range(friends[c.node][j.at]), j.at) /\ Range(friends[c.node][j.at]) \subseteq Range(nodes)
    BY <1>1, <1>2, <1>3, <1>4, FriendsAre
<1>6. HasLevel(next, j.at) /\ next \subseteq Range(nodes) /\ next \subseteq Ids
    BY <1>1, <1>3, <1>5, NodesAre DEF HasLevel
<1>7. IsFiniteSet(next)
    <2>1. IsFiniteSet(Range(nodes))
        BY <1>1, NodesAre
    <2> QED
        BY <1>6, <2>1, FS_Subset
<1>8. IsFiniteSet(new)
    BY <1>7, HitsFinite
<1>9. Width(t) \in Nat \ {0}
    BY Bounds DEF Width
<1>10. job'[t].cand = (j.cand \ {c}) \cup new /\ job'[t].res \in Closest(j.res, new, Width(t))
    BY DEF ExpandTo
<1>11. \A h \in new : h.node \in next
    BY DEF Hit
<1> HIDE DEF new
<1>12. job'[t].res \subseteq j.res \cup new /\ IsFiniteSet(job'[t].res) /\ job'[t].res # {}
    <2>1. PICK S, old : S = job'[t].res /\ old = j.res
        OBVIOUS
    <2>2. PICK w \in Nat \ {0} : w = Width(t)
        BY <1>9
    <2>3. S \in Closest(old, new, w) /\ IsFiniteSet(old) /\ old # {}
        BY <1>2, <1>10, <2>1, <2>2
    <2>4. S \subseteq old \cup new /\ IsFiniteSet(S) /\ S # {}
        BY <1>8, <2>3, ClosestIs
    <2> QED
        BY <2>1, <2>3, <2>4
<1>13. HitNodes(job'[t].cand) \subseteq HitNodes(j.cand) \cup next
    BY <1>10, <1>11 DEF HitNodes
<1>14. HitNodes(job'[t].res) \subseteq HitNodes(j.res) \cup next
    BY <1>11, <1>12 DEF HitNodes
<1> QED
    BY <1>2, <1>6, <1>8, <1>9, <1>12, <1>13, <1>14 DEF new

-----------------------------------------------------------------------------
(* Types.                                                                  *)

NodesKept ==
    M' = M /\ Range(nodes) \subseteq Range(nodes)' /\ \A n \in Range(nodes) : level'[n] = level[n]

LEMMA FitsStill ==
    ASSUME NEW u \in Threads, JobFits(u), NodesKept, pc'[u] = pc[u], job'[u] = job[u]
    PROVE  JobFits(u)'
<1>1. \A S, l : HasLevel(S, l) => \A n \in S : n \in Range(nodes)' /\ level'[n] >= l
    BY DEF HasLevel, NodesKept
<1>2. \A l : MaxLinks(l)' = MaxLinks(l)
    BY DEF MaxLinks, NodesKept
<1>3. \A n \in Range(nodes) : n \in Range(nodes)' /\ level'[n] = level[n]
    BY DEF NodesKept
<1>4. pc[u] \in {"descend", "gather"} =>
              /\ HasLevel(HitNodes(job[u].cand) \cup HitNodes(job[u].res), job[u].at)'
              /\ job[u].id # NoNode => job[u].id \in Range(nodes)'
              /\ pc[u] = "gather" /\ job[u].id # NoNode => job[u].at <= level'[job[u].id]
              /\ job[u].prune = <<>> /\ job[u].res # {} /\ IsFiniteSet(job[u].res)
    BY <1>1, <1>3 DEF JobFits, HasLevel, HitNodes
<1>5. pc[u] \in Linking =>
              /\ job[u].id \in Range(nodes)' /\ job[u].at <= level'[job[u].id]
              /\ HasLevel(Range(job[u].todo), job[u].at)' /\ job[u].id \notin Range(job[u].todo)
              /\ HasLevel(Range(job[u].prune), job[u].at)'
    BY <1>1, <1>3 DEF JobFits, HasLevel
<1>6. pc[u] = "trim" =>
              /\ job[u].prune # <<>> /\ Len(job[u].keep) <= MaxLinks(job[u].at)'
              /\ HasLevel(Range(job[u].keep), job[u].at)' /\ Head(job[u].prune) \notin Range(job[u].keep)
    BY <1>1, <1>2, <1>3 DEF JobFits, HasLevel
<1>7. pc[u] = "locking" => job[u].todo # <<>>
    BY DEF JobFits
<1>8. pc[u] = "delete" => job[u].id \in Range(nodes)' /\ job[u].at <= level'[job[u].id]
                          /\ Range(job[u].todo) \subseteq Range(nodes)'
    BY <1>3 DEF JobFits
<1> QED
    BY <1>4, <1>5, <1>6, <1>7, <1>8 DEF JobFits

(* All but t's own locals is as it was, or at least still fits.            *)
LEMMA JobsFitStep ==
    ASSUME TypeInv, NEW t \in Threads, Only(t), NodesKept, JobFits(t)'
    PROVE  JobsFit'
<1>1. ASSUME NEW u \in Threads PROVE JobFits(u)'
    <2>1. CASE u = t
        BY <2>1
    <2>2. CASE u # t
        BY <2>2, FitsStill DEF TypeInv, JobsFit, Only
    <2> QED
        BY <2>1, <2>2
<1> QED
    BY <1>1 DEF JobsFit

SameGraph ==
    /\ M' = M /\ nodes' = nodes /\ vec' = vec /\ level' = level /\ friends' = friends
    /\ entryPoint' = entryPoint /\ maxLevel' = maxLevel /\ deleted' = deleted
    /\ done' = done /\ trimmed' = trimmed

SameNodes == M' = M /\ nodes' = nodes /\ level' = level

LEMMA Still ==
    ASSUME SameGraph
    PROVE  /\ NodesKept /\ (GraphFits => GraphFits') /\ (FriendsFit => FriendsFit')
           /\ \A S, l : HasLevel(S, l) = HasLevel(S, l)'
<1>1. GraphFits => GraphFits'
    BY DEF SameGraph, GraphFits, EntryFits
<1>2. FriendsFit => FriendsFit'
    BY DEF SameGraph, FriendsFit, LinksFit
<1>3. NodesKept
    BY DEF SameGraph, NodesKept
<1>4. \A S, l : HasLevel(S, l) = (\A n \in S : n \in Range(nodes') /\ level'[n] >= l)
    BY DEF HasLevel, SameGraph
<1> QED
    BY <1>1, <1>2, <1>3, <1>4 DEF HasLevel

LEMMA TypeStep ==
    ASSUME TypeInv, NEW t \in Threads, NodesKept, GraphFits', FriendsFit', LockTypes', Only(t), JobFits(t)'
    PROVE  TypeInv'
<1>1. JobsFit'
    BY JobsFitStep
<1>2. Locals'
    BY DEF Locals, Only
<1> QED
    BY <1>1, <1>2 DEF TypeInv

LEMMA SameNodesKept == ASSUME SameNodes PROVE NodesKept
BY DEF SameNodes, NodesKept

LEMMA TypeQuiet ==
    ASSUME TypeInv, NEW t \in Threads, SameGraph, LockTypes', Only(t), JobFits(t)'
    PROVE  TypeInv'
<1>1. NodesKept /\ GraphFits' /\ FriendsFit'
    BY Still DEF TypeInv
<1> QED
    BY <1>1, TypeStep

LEMMA SameLocks ==
    ASSUME TypeInv, mu' = mu, lock' = lock PROVE LockTypes'
BY DEF TypeInv, LockTypes

LEMMA SearchingFits ==
    ASSUME NEW t \in Threads, pc'[t] \in {"descend", "gather"}, SameNodes, GraphFits,
           HasLevel(HitNodes(job'[t].cand) \cup HitNodes(job'[t].res), job'[t].at),
           job'[t].id # NoNode => job'[t].id \in Range(nodes),
           pc'[t] = "gather" /\ job'[t].id # NoNode => job'[t].at <= level[job'[t].id],
           job'[t].prune = <<>>, job'[t].res # {}, IsFiniteSet(job'[t].res)
    PROVE  JobFits(t)'
<1>1. /\ pc'[t] \notin Linking /\ pc'[t] \notin {"locking", "trim", "delete"}
    BY DEF Linking
<1>2. HasLevel(HitNodes(job'[t].cand) \cup HitNodes(job'[t].res), job'[t].at) =
      HasLevel(HitNodes(job[t].cand) \cup HitNodes(job[t].res), job[t].at)'
    BY DEF SameNodes, HasLevel, HitNodes
<1>3. nodes' = nodes /\ level' = level
    BY DEF SameNodes
<1> QED
    BY <1>1, <1>2, <1>3 DEF JobFits

LEMMA LinkingFits ==
    ASSUME NEW t \in Threads, pc'[t] \in {"connect", "locking", "prune"}, SameNodes,
           job'[t].id \in Range(nodes), job'[t].at <= level[job'[t].id],
           HasLevel(Range(job'[t].todo), job'[t].at), job'[t].id \notin Range(job'[t].todo),
           HasLevel(Range(job'[t].prune), job'[t].at),
           pc'[t] = "locking" => job'[t].todo # <<>>
    PROVE  JobFits(t)'
<1>1. pc'[t] \notin {"descend", "gather"} /\ pc'[t] # "trim" /\ pc'[t] # "delete"
    OBVIOUS
<1>2. /\ HasLevel(Range(job'[t].todo), job'[t].at) = HasLevel(Range(job[t].todo), job[t].at)'
      /\ HasLevel(Range(job'[t].prune), job'[t].at) = HasLevel(Range(job[t].prune), job[t].at)'
    BY DEF SameNodes, HasLevel
<1>3. nodes' = nodes /\ level' = level
    BY DEF SameNodes
<1> QED
    BY <1>1, <1>2, <1>3 DEF JobFits

LEMMA IdleFits ==
    ASSUME NEW t \in Threads, pc'[t] = "idle" PROVE JobFits(t)'
BY DEF JobFits, Linking

LEMMA StartFits ==
    ASSUME NEW t \in Threads, pc'[t] \in {"descend", "gather"}, SameNodes, GraphFits,
           NEW e \in Range(nodes), NEW l, Starts(job'[t], e, l), level[e] >= l,
           job'[t].id # NoNode => job'[t].id \in Range(nodes),
           pc'[t] = "gather" /\ job'[t].id # NoNode => l <= level[job'[t].id]
    PROVE  JobFits(t)'
<1>1. PICK k : k = job'[t]
    OBVIOUS
<1>2. /\ k.at = l /\ k.prune = <<>> /\ HitNodes(k.cand) = {e} /\ HitNodes(k.res) = {e}
      /\ k.res # {} /\ IsFiniteSet(k.res)
    BY <1>1, StartsHas
<1>3. HasLevel(HitNodes(k.cand) \cup HitNodes(k.res), k.at)
    BY <1>2 DEF HasLevel
<1> QED
    BY <1>1, <1>2, <1>3, SearchingFits

LEMMA TypeExpand == ASSUME TypeInv, NEW t \in Threads, Expand(t) PROVE TypeInv'
<1>1. SameGraph /\ SameNodes /\ LockTypes'
    BY SameLocks DEF Expand, SameGraph, SameNodes, graph, entry, history
<1>2. ExpandDoes(t)
    BY ExpandStep
<1>3. PICK c, next : ExpandTo(t, c, next)
    BY <1>2 DEF ExpandDoes
<1>4. /\ Only(t) /\ pc[t] \in {"descend", "gather"} /\ pc'[t] = pc[t] /\ job'[t].id = job[t].id
      /\ job'[t].at = job[t].at /\ job'[t].prune = job[t].prune
    BY <1>2 DEF ExpandDoes
<1>5. /\ HitNodes(job'[t].cand) \subseteq HitNodes(job[t].cand) \cup next
      /\ HitNodes(job'[t].res) \subseteq HitNodes(job[t].res) \cup next
      /\ job'[t].res # {} /\ IsFiniteSet(job'[t].res) /\ HasLevel(next, job[t].at)
      /\ HasLevel(HitNodes(job[t].cand) \cup HitNodes(job[t].res), job[t].at)
    BY <1>3, <1>4, ExpandAdds
<1>6. HasLevel(HitNodes(job'[t].cand) \cup HitNodes(job'[t].res), job'[t].at)
    BY <1>4, <1>5 DEF HasLevel
<1>7. GraphFits /\ JobFits(t)
    BY DEF TypeInv, JobsFit
<1>8. /\ job'[t].id # NoNode => job'[t].id \in Range(nodes)
      /\ pc'[t] = "gather" /\ job'[t].id # NoNode => job'[t].at <= level[job'[t].id]
      /\ job'[t].prune = <<>>
    BY <1>4, <1>7 DEF JobFits
<1>9. JobFits(t)'
    BY <1>1, <1>4, <1>5, <1>6, <1>7, <1>8, SearchingFits
<1> QED
    BY <1>1, <1>4, <1>9, TypeQuiet

LEMMA TypeDescend == ASSUME TypeInv, NEW t \in Threads, Descend(t) PROVE TypeInv'
<1>1. SameGraph /\ SameNodes /\ LockTypes'
    BY SameLocks DEF Descend, SameGraph, SameNodes, graph, entry, history
<1>2. DescendDoes(t)
    BY DescendStep
<1>3. Only(t) /\ pc[t] = "descend" /\ job'[t].id = job[t].id
    BY <1>2 DEF DescendDoes
<1>4. GraphFits /\ JobFits(t) /\ job[t].at \in Nat
    BY JobHas DEF TypeInv, JobsFit
<1>5. HasLevel(HitNodes(job[t].res), job[t].at) /\ (job[t].id # NoNode => job[t].id \in Range(nodes))
    BY <1>3, <1>4 DEF JobFits, HasLevel
<1>6. PICK e \in HitNodes(job[t].res), l \in Nat :
          /\ pc'[t] \in {"descend", "gather"} /\ Starts(job'[t], e, l) /\ l <= job[t].at
          /\ pc'[t] = "gather" => l = 0
    BY <1>2, <1>4 DEF DescendDoes
<1>7. e \in Range(nodes) /\ level[e] >= l
    <2>1. e \in Range(nodes) /\ level[e] >= job[t].at
        BY <1>5, <1>6 DEF HasLevel
    <2>2. level[e] \in Nat
        BY <1>4, <2>1, NodesAre
    <2> QED
        BY <1>4, <1>6, <2>1, <2>2
<1>8. pc'[t] = "gather" /\ job'[t].id # NoNode => l <= level[job'[t].id]
    <2>1. job[t].id # NoNode => level[job[t].id] \in Nat
        BY <1>4, <1>5, NodesAre
    <2> QED
        BY <1>3, <1>6, <2>1
<1>9. JobFits(t)'
    BY <1>1, <1>3, <1>4, <1>5, <1>6, <1>7, <1>8, StartFits
<1> QED
    BY <1>1, <1>3, <1>9, TypeQuiet

LEMMA TypeGathered == ASSUME TypeInv, NEW t \in Threads, Gathered(t) PROVE TypeInv'
<1>1. SameGraph /\ SameNodes /\ LockTypes'
    BY SameLocks DEF Gathered, SameGraph, SameNodes, graph, entry, history
<1>2. /\ Only(t) /\ pc[t] = "gather" /\ pc'[t] = "connect" /\ job[t].id # NoNode
      /\ job'[t].id = job[t].id /\ job'[t].at = job[t].at /\ job'[t].prune = job[t].prune
      /\ \A n \in Range(job'[t].todo) : n \in HitNodes(job[t].res) /\ n # job[t].id
    BY GatheredStep DEF GatheredDoes
<1>3. GraphFits /\ JobFits(t)
    BY DEF TypeInv, JobsFit
<1>4. /\ HasLevel(HitNodes(job[t].res), job[t].at) /\ job[t].id \in Range(nodes)
      /\ job[t].at <= level[job[t].id] /\ job[t].prune = <<>>
    BY <1>2, <1>3 DEF JobFits, HasLevel
<1>5. HasLevel(Range(job'[t].todo), job'[t].at) /\ job'[t].id \notin Range(job'[t].todo)
    BY <1>2, <1>4 DEF HasLevel
<1>6. HasLevel(Range(job'[t].prune), job'[t].at)
    BY <1>2, <1>4, EmptyRange DEF HasLevel
<1>7. JobFits(t)'
    BY <1>1, <1>2, <1>4, <1>5, <1>6, LinkingFits
<1> QED
    BY <1>1, <1>2, <1>7, TypeQuiet

LEMMA TypeLockFirst == ASSUME TypeInv, NEW t \in Threads, LockFirst(t) PROVE TypeInv'
<1>1. SameGraph /\ SameNodes
    BY DEF LockFirst, SameGraph, SameNodes, graph, entry, history
<1>2. LockTypes'
    BY DEF TypeInv, LockTypes, LockFirst
<1>3. Only(t) /\ pc[t] = "connect" /\ pc'[t] = "locking" /\ job'[t] = job[t] /\ job[t].todo # <<>>
    BY LockFirstStep DEF LockFirstDoes
<1>4. JobFits(t)
    BY DEF TypeInv, JobsFit
<1>5. /\ job[t].id \in Range(nodes) /\ job[t].at <= level[job[t].id]
      /\ HasLevel(Range(job[t].todo), job[t].at) /\ job[t].id \notin Range(job[t].todo)
      /\ HasLevel(Range(job[t].prune), job[t].at)
    BY <1>3, <1>4 DEF JobFits, Linking
<1>6. JobFits(t)'
    BY <1>1, <1>3, <1>5, LinkingFits
<1> QED
    BY <1>1, <1>2, <1>3, <1>6, TypeQuiet

LEMMA TypeConnected == ASSUME TypeInv, NEW t \in Threads, Connected(t) PROVE TypeInv'
<1>1. SameGraph /\ SameNodes /\ LockTypes'
    BY SameLocks DEF Connected, SameGraph, SameNodes, graph, entry, history
<1>2. /\ Only(t) /\ pc[t] = "connect" /\ pc'[t] = "prune"
      /\ job'[t].id = job[t].id /\ job'[t].at = job[t].at /\ job'[t].todo = <<>>
      /\ Range(job'[t].prune) \subseteq Range(job[t].prune) \cup {job[t].id}
    BY ConnectedStep DEF ConnectedDoes
<1>3. GraphFits /\ JobFits(t) /\ job[t].at \in Nat
    BY JobHas DEF TypeInv, JobsFit
<1>4. /\ job[t].id \in Range(nodes) /\ job[t].at <= level[job[t].id]
      /\ HasLevel(Range(job[t].prune), job[t].at)
    BY <1>2, <1>3 DEF JobFits, Linking
<1>5. level[job[t].id] >= job[t].at
    <2>1. level[job[t].id] \in Nat
        BY <1>3, <1>4, NodesAre
    <2> QED
        BY <1>3, <1>4, <2>1
<1>6. HasLevel(Range(job'[t].prune), job'[t].at)
    BY <1>2, <1>4, <1>5 DEF HasLevel
<1>7. HasLevel(Range(job'[t].todo), job'[t].at) /\ job'[t].id \notin Range(job'[t].todo)
    BY <1>2, EmptyRange DEF HasLevel
<1>8. JobFits(t)'
    BY <1>1, <1>2, <1>4, <1>6, <1>7, LinkingFits
<1> QED
    BY <1>1, <1>2, <1>8, TypeQuiet

(* The list of level l is another in the nodes of C.                       *)
Changed(C, l) ==
    /\ DOMAIN friends' = Ids /\ \A n \in Ids \ C : friends'[n] = friends[n]
    /\ \A n \in C : friends'[n] = [friends[n] EXCEPT ![l] = friends'[n][l]]

LEMMA ChangedHas ==
    ASSUME GraphFits, FriendsFit, NEW l \in Nat, NEW C \in SUBSET Range(nodes), Changed(C, l),
           \A n \in C : l <= level[n],
           NEW n \in Range(nodes), NEW h \in Nat, h <= level[n], n \notin C \/ h # l
    PROVE  friends'[n][h] = friends[n][h]
<1>1. n \in Ids /\ friends[n] \in [0 .. level[n] -> Seq(Range(nodes))] /\ h \in DOMAIN friends[n]
    BY FriendsAre
<1>2. CASE n \notin C
    BY <1>1, <1>2 DEF Changed
<1>3. CASE n \in C
    <2>1. friends'[n] = [friends[n] EXCEPT ![l] = friends'[n][l]] /\ h # l
        BY <1>3 DEF Changed
    <2> QED
        BY <1>1, <2>1
<1> QED
    BY <1>2, <1>3

LEMMA FriendsFitStep ==
    ASSUME GraphFits, FriendsFit, SameNodes, NEW l \in Nat, NEW C \in SUBSET Range(nodes), Changed(C, l),
           \A n \in C : l <= level[n] /\ friends'[n][l] \in Seq(Range(nodes))
                        /\ n \notin Range(friends'[n][l]) /\ HasLevel(Range(friends'[n][l]), l)
    PROVE  FriendsFit'
<1>1. nodes' = nodes /\ level' = level
    BY DEF SameNodes
<1>2. Range(nodes) \subseteq Ids /\ \A n \in Ids : level[n] \in Nat
    BY NodesAre
<1>3. \A n \in Ids \ Range(nodes) : friends'[n] = <<>>
    BY <1>2 DEF FriendsFit, Changed
<1>4. ASSUME NEW n \in Range(nodes) PROVE friends'[n] \in [0 .. level[n] -> Seq(Range(nodes))]
    <2>1. friends[n] \in [0 .. level[n] -> Seq(Range(nodes))] /\ n \in Ids
        BY <1>2 DEF FriendsFit
    <2>2. CASE n \notin C
        BY <2>1, <2>2 DEF Changed
    <2>3. CASE n \in C
        <3>1. friends'[n] = [friends[n] EXCEPT ![l] = friends'[n][l]] /\ friends'[n][l] \in Seq(Range(nodes))
            BY <2>3 DEF Changed
        <3> QED
            BY <2>1, <3>1
    <2> QED
        BY <2>2, <2>3
<1>5. ASSUME NEW n \in Range(nodes), NEW h \in 0 .. level[n], NEW i \in Range(friends'[n][h])
      PROVE  i # n /\ level[i] >= h
    <2>1. h \in Nat /\ h <= level[n]
        BY <1>2
    <2>2. CASE n \notin C \/ h # l
        <3>1. friends'[n][h] = friends[n][h]
            BY <2>1, <2>2, ChangedHas
        <3> QED
            BY <3>1, <1>5 DEF FriendsFit, LinksFit
    <2>3. CASE n \in C /\ h = l
        BY <1>5, <2>3 DEF HasLevel
    <2> QED
        BY <2>2, <2>3
<1>6. DOMAIN friends' = Ids
    BY DEF Changed
<1> QED
    BY <1>1, <1>3, <1>4, <1>5, <1>6 DEF FriendsFit, LinksFit

LEMMA LinkedIs ==
    ASSUME GraphFits, FriendsFit, NEW n \in Range(nodes), NEW l \in Nat, l <= level[n], NEW new
    PROVE  Linked(n, l, new) = [friends[n] EXCEPT ![l] = Append(friends[n][l], new)]
<1>1. friends[n] \in [0 .. level[n] -> Seq(Range(nodes))] /\ level[n] \in Nat /\ l \in 0 .. level[n]
    BY FriendsAre, NodesAre
<1>2. DOMAIN friends[n] = 0 .. level[n] /\ DOMAIN friends[n] \cup 0 .. l = 0 .. level[n]
    BY <1>1
<1>3. Linked(n, l, new) = [i \in 0 .. level[n] |->
                              IF i = l THEN Append(friends[n][l], new) ELSE friends[n][i]]
    BY <1>1, <1>2 DEF Linked
<1>4. [friends[n] EXCEPT ![l] = Append(friends[n][l], new)] =
          [i \in 0 .. level[n] |-> IF i = l THEN Append(friends[n][l], new) ELSE friends[n][i]]
    BY <1>1, <1>2
<1> QED
    BY <1>3, <1>4

(* Link puts each node at the end of the other's list.                     *)
LinkChanges(n, id, l) ==
    /\ n \in Range(nodes) /\ id \in Range(nodes) /\ n # id /\ l \in Nat
    /\ l <= level[n] /\ l <= level[id] /\ Changed({n, id}, l)
    /\ friends'[n][l] = Append(friends[n][l], id) /\ friends'[id][l] = Append(friends[id][l], n)

LEMMA LinkChangesStep ==
    ASSUME TypeInv, NEW t \in Threads, Link(t)
    PROVE  LinkChanges(Head(job[t].todo), job[t].id, job[t].at)
<1> DEFINE id == job[t].id
           l == job[t].at
           n == Head(job[t].todo)
<1>1. GraphFits /\ FriendsFit /\ JobFits(t) /\ pc[t] = "locking" /\ l \in Nat
    BY JobHas DEF TypeInv, JobsFit, Link
<1>2. n \in Range(job[t].todo) /\ n # id
    BY LinkStep DEF LinkDoes
<1>3. id \in Range(nodes) /\ l <= level[id] /\ HasLevel(Range(job[t].todo), l)
    BY <1>1 DEF JobFits, Linking
<1>4. n \in Range(nodes) /\ n \in Ids /\ id \in Ids /\ l <= level[n]
    <2>1. n \in Range(nodes) /\ level[n] >= l
        BY <1>2, <1>3 DEF HasLevel
    <2>2. n \in Ids /\ id \in Ids /\ level[n] \in Nat
        BY <1>1, <1>3, <2>1, NodesAre
    <2> QED
        BY <1>1, <2>1, <2>2
<1>5. friends' = [friends EXCEPT ![n] = Linked(n, l, id), ![id] = Linked(id, l, n)]
    BY DEF Link
<1> HIDE DEF id, l, n
<1>6. /\ Linked(n, l, id) = [friends[n] EXCEPT ![l] = Append(friends[n][l], id)]
      /\ Linked(id, l, n) = [friends[id] EXCEPT ![l] = Append(friends[id][l], n)]
    BY <1>1, <1>3, <1>4, LinkedIs
<1>7. /\ l \in DOMAIN friends[n] /\ l \in DOMAIN friends[id]
      /\ friends[n] \in [0 .. level[n] -> Seq(Range(nodes))]
      /\ friends[id] \in [0 .. level[id] -> Seq(Range(nodes))]
      /\ DOMAIN friends = Ids
    BY <1>1, <1>3, <1>4, FriendsAre DEF FriendsFit
<1>8. /\ friends'[n] = [friends[n] EXCEPT ![l] = Append(friends[n][l], id)]
      /\ friends'[id] = [friends[id] EXCEPT ![l] = Append(friends[id][l], n)]
      /\ DOMAIN friends' = Ids /\ \A x \in Ids \ {n, id} : friends'[x] = friends[x]
    BY <1>2, <1>4, <1>5, <1>6, <1>7
<1>9. friends'[n][l] = Append(friends[n][l], id) /\ friends'[id][l] = Append(friends[id][l], n)
    BY <1>7, <1>8
<1>10. Changed({n, id}, l)
    BY <1>8, <1>9 DEF Changed
<1>11. LinkChanges(n, id, l)
    BY <1>1, <1>2, <1>3, <1>4, <1>9, <1>10 DEF LinkChanges, l, n, id
<1> QED
    BY <1>11 DEF n, id, l

LinkGives(n, id, l) ==
    /\ friends'[n][l] \in Seq(Range(nodes)) /\ friends'[id][l] \in Seq(Range(nodes))
    /\ Range(friends'[n][l]) = Range(friends[n][l]) \cup {id}
    /\ Range(friends'[id][l]) = Range(friends[id][l]) \cup {n}
    /\ Len(friends'[n][l]) = Len(friends[n][l]) + 1 /\ Len(friends'[id][l]) = Len(friends[id][l]) + 1
    /\ \A x \in Range(nodes) : \A h \in Nat :
          h <= level[x] /\ (x \notin {n, id} \/ h # l) => friends'[x][h] = friends[x][h]

LEMMA LinkChangesHas ==
    ASSUME GraphFits, FriendsFit, NEW n, NEW id, NEW l, LinkChanges(n, id, l)
    PROVE  LinkGives(n, id, l)
<1>1. /\ n \in Range(nodes) /\ id \in Range(nodes) /\ n # id /\ l \in Nat
      /\ l <= level[n] /\ l <= level[id] /\ Changed({n, id}, l)
      /\ friends'[n][l] = Append(friends[n][l], id) /\ friends'[id][l] = Append(friends[id][l], n)
    BY DEF LinkChanges
<1>2. friends[n][l] \in Seq(Range(nodes)) /\ friends[id][l] \in Seq(Range(nodes))
    BY <1>1, FriendsAre
<1> DEFINE S == Range(nodes)
<1> HIDE DEF S
<1>3. \A s \in Seq(S), e \in S : /\ Append(s, e) \in Seq(S) /\ Len(Append(s, e)) = Len(s) + 1
                                 /\ Range(Append(s, e)) = Range(s) \cup {e}
    BY AppendIs
<1>4. \A x \in Range(nodes) : \A h \in Nat :
          h <= level[x] /\ (x \notin {n, id} \/ h # l) => friends'[x][h] = friends[x][h]
    <2> DEFINE C == {n, id}
    <2>1. C \subseteq Range(nodes) /\ Changed(C, l) /\ \A x \in C : l <= level[x]
        BY <1>1
    <2> HIDE DEF C
    <2>2. ASSUME NEW x \in Range(nodes), NEW h \in Nat, h <= level[x], x \notin C \/ h # l
          PROVE  friends'[x][h] = friends[x][h]
        BY <1>1, <2>1, <2>2, ChangedHas
    <2> QED
        BY <2>2 DEF C
<1>5. friends[n][l] \in Seq(S) /\ friends[id][l] \in Seq(S) /\ n \in S /\ id \in S
    BY <1>1, <1>2 DEF S
<1>6. /\ friends'[n][l] \in Seq(S) /\ friends'[id][l] \in Seq(S)
      /\ Range(friends'[n][l]) = Range(friends[n][l]) \cup {id}
      /\ Range(friends'[id][l]) = Range(friends[id][l]) \cup {n}
      /\ Len(friends'[n][l]) = Len(friends[n][l]) + 1 /\ Len(friends'[id][l]) = Len(friends[id][l]) + 1
    BY <1>1, <1>3, <1>5
<1> QED
    BY <1>4, <1>6 DEF S, LinkGives

LEMMA TypeLink == ASSUME TypeInv, NEW t \in Threads, Link(t) PROVE TypeInv'
<1> DEFINE id == job[t].id
           l == job[t].at
           n == Head(job[t].todo)
<1>1. GraphFits /\ FriendsFit /\ Locals /\ JobFits(t) /\ LockTypes /\ pc[t] = "locking"
    BY DEF TypeInv, JobsFit, Link
<1>2. SameNodes /\ GraphFits' /\ NodesKept
    <2>1. SameNodes /\ GraphFits'
        BY <1>1 DEF Link, SameNodes, GraphFits, EntryFits, graph, entry, history
    <2> QED
        BY <2>1, SameNodesKept
<1>3. LockTypes'
    BY <1>1 DEF LockTypes, Link
<1>4. /\ Only(t) /\ pc'[t] = "connect" /\ job'[t].id = id /\ job'[t].at = l
      /\ Range(job[t].todo) = {n} \cup Range(job'[t].todo)
      /\ Range(job'[t].prune) \subseteq Range(job[t].prune) \cup {n}
    BY LinkStep DEF LinkDoes
<1>5. LinkChanges(n, id, l)
    BY LinkChangesStep
<1> HIDE DEF n, id, l
<1>6. /\ n \in Range(nodes) /\ id \in Range(nodes) /\ n # id /\ l \in Nat
      /\ l <= level[n] /\ l <= level[id] /\ Changed({n, id}, l)
    BY <1>5 DEF LinkChanges
<1>7. /\ friends'[n][l] \in Seq(Range(nodes)) /\ friends'[id][l] \in Seq(Range(nodes))
      /\ Range(friends'[n][l]) = Range(friends[n][l]) \cup {id}
      /\ Range(friends'[id][l]) = Range(friends[id][l]) \cup {n}
    <2>1. LinkGives(n, id, l)
        BY <1>1, <1>5, LinkChangesHas
    <2> QED
        BY <2>1 DEF LinkGives
<1>8. /\ n \notin Range(friends[n][l]) /\ HasLevel(Range(friends[n][l]), l)
      /\ id \notin Range(friends[id][l]) /\ HasLevel(Range(friends[id][l]), l)
      /\ level[n] \in Nat /\ level[id] \in Nat
    BY <1>1, <1>6, FriendsAre, NodesAre
<1>9. FriendsFit'
    <2> DEFINE C == {n, id}
    <2>1. \A x \in C : l <= level[x] /\ friends'[x][l] \in Seq(Range(nodes))
                       /\ x \notin Range(friends'[x][l]) /\ HasLevel(Range(friends'[x][l]), l)
        BY <1>6, <1>7, <1>8 DEF HasLevel
    <2>2. C \subseteq Range(nodes) /\ Changed(C, l)
        BY <1>6
    <2> HIDE DEF C
    <2> QED
        BY <1>1, <1>2, <1>6, <2>1, <2>2, FriendsFitStep
<1>10. /\ HasLevel(Range(job[t].todo), l) /\ HasLevel(Range(job[t].prune), l) /\ id \notin Range(job[t].todo)
    BY <1>1 DEF JobFits, Linking, id, l
<1>11. /\ HasLevel(Range(job'[t].todo), job'[t].at) /\ HasLevel(Range(job'[t].prune), job'[t].at)
       /\ job'[t].id \notin Range(job'[t].todo)
    BY <1>4, <1>10 DEF HasLevel
<1>12. JobFits(t)'
    BY <1>2, <1>4, <1>6, <1>11, LinkingFits
<1> QED
    BY <1>1, <1>2, <1>3, <1>4, <1>9, <1>12, TypeStep

LEMMA TypePruneRead == ASSUME TypeInv, NEW t \in Threads, PruneRead(t) PROVE TypeInv'
<1> DEFINE n == Head(job[t].prune)
           l == job[t].at
<1>1. SameGraph /\ SameNodes /\ LockTypes'
    BY SameLocks DEF PruneRead, SameGraph, SameNodes, graph, entry, history
<1>2. PruneReadDoes(t)
    BY PruneReadStep
<1>3. /\ Only(t) /\ pc[t] = "prune" /\ job[t].prune # <<>> /\ n \in Range(nodes)
      /\ job'[t].id = job[t].id /\ job'[t].at = l /\ job'[t].todo = job[t].todo
    BY <1>2 DEF PruneReadDoes
<1>4. GraphFits /\ FriendsFit /\ JobFits(t) /\ l \in Nat /\ job[t].prune \in Seq(Ids)
    BY JobHas DEF TypeInv, JobsFit
<1>5. /\ job[t].id \in Range(nodes) /\ l <= level[job[t].id]
      /\ HasLevel(Range(job[t].todo), l) /\ job[t].id \notin Range(job[t].todo)
      /\ HasLevel(Range(job[t].prune), l)
    BY <1>3, <1>4 DEF JobFits, Linking
<1>6. CASE pc'[t] = "prune" /\ Range(job[t].prune) = {n} \cup Range(job'[t].prune)
    <2>1. HasLevel(Range(job'[t].prune), l)
        BY <1>5, <1>6 DEF HasLevel
    <2>2. JobFits(t)'
        BY <1>1, <1>3, <1>5, <1>6, <2>1, LinkingFits
    <2> QED
        BY <1>1, <1>3, <2>2, TypeQuiet
<1>7. CASE /\ pc'[t] = "trim" /\ job'[t].prune = job[t].prune
           /\ Len(job'[t].keep) <= MaxLinks(l)
           /\ Range(job'[t].keep) \subseteq Range(friends[n][l])
    <2>1. n \in Range(job[t].prune)
        BY <1>3, <1>4, TailIs
    <2>2. l <= level[n]
        <3>1. level[n] >= l /\ level[n] \in Nat
            BY <1>3, <1>4, <1>5, <2>1, NodesAre DEF HasLevel
        <3> QED
            BY <1>4, <3>1
    <2>3. n \notin Range(friends[n][l]) /\ HasLevel(Range(friends[n][l]), l)
        BY <1>3, <1>4, <2>2, FriendsAre
    <2>4. HasLevel(Range(job'[t].keep), l) /\ n \notin Range(job'[t].keep)
        BY <1>7, <2>3 DEF HasLevel
    <2>5. nodes' = nodes /\ level' = level /\ M' = M
        BY <1>1 DEF SameNodes
    <2>6. /\ HasLevel(Range(job[t].keep), job[t].at)' = HasLevel(Range(job'[t].keep), l)
          /\ HasLevel(Range(job[t].todo), job[t].at)' = HasLevel(Range(job[t].todo), l)
          /\ HasLevel(Range(job[t].prune), job[t].at)' = HasLevel(Range(job[t].prune), l)
          /\ MaxLinks(job[t].at)' = MaxLinks(l)
        BY <1>3, <1>7, <2>5 DEF HasLevel, MaxLinks
    <2>7. JobFits(t)'
        BY <1>3, <1>5, <1>7, <2>4, <2>5, <2>6 DEF JobFits
    <2> QED
        BY <1>1, <1>3, <2>7, TypeQuiet
<1> QED
    BY <1>2, <1>6, <1>7 DEF PruneReadDoes

(* PruneWrite replaces one list.                                           *)
PruneChanges(n, l, keep) ==
    /\ n \in Range(nodes) /\ l \in Nat /\ l <= level[n] /\ Changed({n}, l) /\ friends'[n][l] = keep
    /\ keep \in Seq(Range(nodes)) /\ HasLevel(Range(keep), l) /\ n \notin Range(keep)
    /\ Len(keep) <= MaxLinks(l)

LEMMA PruneChangesStep ==
    ASSUME TypeInv, NEW t \in Threads, PruneWrite(t)
    PROVE  PruneChanges(Head(job[t].prune), job[t].at, job[t].keep)
<1> DEFINE l == job[t].at
           n == Head(job[t].prune)
           keep == job[t].keep
<1>1. GraphFits /\ FriendsFit /\ JobFits(t) /\ pc[t] = "trim" /\ l \in Nat /\ keep \in Seq(Ids)
    BY JobHas DEF TypeInv, JobsFit, PruneWrite
<1>2. HasLevel(Range(keep), l) /\ n \notin Range(keep) /\ Len(keep) <= MaxLinks(l)
    BY <1>1 DEF JobFits
<1>3. n \in Range(nodes) /\ l <= level[n] /\ n \in Ids
    <2>1. n \in Range(nodes) /\ level[n] >= l
        BY PruneWriteStep DEF PruneWriteDoes
    <2>2. n \in Ids /\ level[n] \in Nat
        BY <1>1, <2>1, NodesAre
    <2> QED
        BY <1>1, <2>1, <2>2
<1>4. friends' = [friends EXCEPT ![n][l] = keep]
    BY DEF PruneWrite
<1>5. l \in DOMAIN friends[n] /\ DOMAIN friends = Ids /\ friends[n] \in [0 .. level[n] -> Seq(Range(nodes))]
    BY <1>1, <1>3, FriendsAre DEF FriendsFit
<1>6. keep \in Seq(Range(nodes))
    <2>1. keep \in Seq(Range(keep)) /\ Range(keep) \subseteq Range(nodes)
        BY <1>1, <1>2, RangeIs DEF HasLevel
    <2> QED
        BY <2>1
<1> HIDE DEF n, l, keep
<1>7. /\ friends'[n] = [friends[n] EXCEPT ![l] = keep] /\ DOMAIN friends' = Ids
      /\ \A x \in Ids \ {n} : friends'[x] = friends[x]
    BY <1>3, <1>4, <1>5
<1>8. friends'[n][l] = keep
    BY <1>5, <1>7
<1>9. Changed({n}, l)
    BY <1>7, <1>8 DEF Changed
<1>10. PruneChanges(n, l, keep)
    BY <1>1, <1>2, <1>3, <1>6, <1>8, <1>9 DEF PruneChanges
<1> QED
    BY <1>10 DEF n, l, keep

LEMMA TypePruneWrite == ASSUME TypeInv, NEW t \in Threads, PruneWrite(t) PROVE TypeInv'
<1> DEFINE l == job[t].at
           n == Head(job[t].prune)
<1>1. GraphFits /\ FriendsFit /\ JobFits(t) /\ LockTypes
    BY DEF TypeInv, JobsFit
<1>2. SameNodes /\ GraphFits' /\ NodesKept /\ LockTypes'
    <2>1. SameNodes /\ GraphFits' /\ LockTypes'
        BY <1>1 DEF PruneWrite, SameNodes, GraphFits, EntryFits, LockTypes, graph, entry, history
    <2> QED
        BY <2>1, SameNodesKept
<1>3. /\ Only(t) /\ pc[t] = "trim" /\ pc'[t] = "prune" /\ job'[t].id = job[t].id /\ job'[t].at = l
      /\ job'[t].todo = job[t].todo /\ Range(job[t].prune) = {n} \cup Range(job'[t].prune)
    BY PruneWriteStep DEF PruneWriteDoes
<1>4. PruneChanges(n, l, job[t].keep)
    BY PruneChangesStep
<1>5. FriendsFit'
    <2> DEFINE C == {n}
    <2>1. l \in Nat /\ C \subseteq Range(nodes) /\ Changed(C, l)
          /\ \A x \in C : l <= level[x] /\ friends'[x][l] \in Seq(Range(nodes))
                       /\ x \notin Range(friends'[x][l]) /\ HasLevel(Range(friends'[x][l]), l)
        BY <1>4 DEF PruneChanges
    <2> HIDE DEF C, l
    <2> QED
        BY <1>1, <1>2, <2>1, FriendsFitStep
<1>6. /\ job[t].id \in Range(nodes) /\ l <= level[job[t].id]
      /\ HasLevel(Range(job[t].todo), l) /\ job[t].id \notin Range(job[t].todo)
      /\ HasLevel(Range(job[t].prune), l)
    BY <1>1, <1>3 DEF JobFits, Linking
<1>7. HasLevel(Range(job'[t].prune), l)
    BY <1>3, <1>6 DEF HasLevel
<1>8. JobFits(t)'
    BY <1>2, <1>3, <1>6, <1>7, LinkingFits
<1> QED
    BY <1>2, <1>3, <1>5, <1>8, TypeStep

(* DeleteNext takes the node out of the list of one of its friends.        *)
LEMMA TypeDeleteNext == ASSUME TypeInv, NEW t \in Threads, DeleteNext(t) PROVE TypeInv'
<1> DEFINE id == job[t].id
           l == job[t].at
           n == Head(job[t].todo)
           less == RemoveFirst(friends[n][l], id)
<1>1. GraphFits /\ FriendsFit /\ JobFits(t) /\ l \in Nat /\ pc[t] = "delete"
    BY JobHas DEF TypeInv, JobsFit, DeleteNext
<1>2. SameNodes /\ GraphFits' /\ NodesKept /\ LockTypes'
    <2>1. SameNodes /\ GraphFits' /\ LockTypes'
        BY <1>1 DEF TypeInv, DeleteNext, SameNodes, GraphFits, EntryFits, LockTypes, graph, entry, history
    <2> QED
        BY <2>1, SameNodesKept
<1>3. DeleteDoes(t) /\ n \in Range(nodes)
    BY DeleteNextStep
<1>4. /\ friends' = IF l \in DOMAIN friends[n] THEN [friends EXCEPT ![n][l] = less] ELSE friends
      /\ DOMAIN friends = Ids /\ friends[n] \in [0 .. level[n] -> Seq(Range(nodes))]
      /\ n \in Ids /\ level[n] \in Nat
    <2>1. friends' = IF l \in DOMAIN friends[n] THEN [friends EXCEPT ![n][l] = less] ELSE friends
        BY DEF DeleteNext
    <2> QED
        BY <1>1, <1>3, <2>1, NodesAre DEF FriendsFit
<1> HIDE DEF n
<1>5. ASSUME l \notin DOMAIN friends[n] PROVE FriendsFit'
    <2>1. friends' = friends
        BY <1>4, <1>5
    <2> QED
        BY <1>1, <1>2, <2>1 DEF FriendsFit, LinksFit, SameNodes
<1>6. ASSUME l \in DOMAIN friends[n] PROVE FriendsFit'
    <2>1. l <= level[n]
        BY <1>1, <1>4, <1>6
    <2>2. /\ friends[n][l] \in Seq(Range(nodes))
          /\ n \notin Range(friends[n][l]) /\ HasLevel(Range(friends[n][l]), l)
        BY <1>1, <1>3, <2>1, FriendsAre
    <2>3. less \in Seq(Range(nodes)) /\ Range(less) \subseteq Range(friends[n][l])
        <3> DEFINE S == Range(nodes)
                   s == friends[n][l]
        <3>1. s \in Seq(S)
            BY <2>2
        <3> HIDE DEF S, s
        <3>2. RemoveFirst(s, id) \in Seq(S) /\ Range(RemoveFirst(s, id)) \subseteq Range(s)
            BY <3>1, RemoveFirstIs
        <3> QED
            BY <3>2 DEF S, s
    <2> HIDE DEF less
    <2>4. /\ friends'[n] = [friends[n] EXCEPT ![l] = less] /\ DOMAIN friends' = Ids
          /\ \A x \in Ids \ {n} : friends'[x] = friends[x]
        BY <1>4, <1>6
    <2>5. friends'[n][l] = less
        BY <1>6, <2>4
    <2> DEFINE C == {n}
    <2>6. C \subseteq Range(nodes) /\ Changed(C, l)
        BY <1>3, <2>4, <2>5 DEF Changed
    <2>7. \A x \in C : l <= level[x] /\ friends'[x][l] \in Seq(Range(nodes))
                       /\ x \notin Range(friends'[x][l]) /\ HasLevel(Range(friends'[x][l]), l)
        BY <2>1, <2>2, <2>3, <2>5 DEF HasLevel
    <2> HIDE DEF C, l
    <2> QED
        BY <1>1, <1>2, <2>6, <2>7, FriendsFitStep
<1>7. JobFits(t)'
    BY <1>1, <1>2, <1>3 DEF JobFits, DeleteDoes, SameNodes, Linking
<1>8. Only(t) /\ FriendsFit'
    BY <1>3, <1>5, <1>6 DEF DeleteDoes
<1> QED
    BY <1>2, <1>7, <1>8, TypeStep

LEMMA TypeDeleteLevel == ASSUME TypeInv, NEW t \in Threads, DeleteLevel(t) PROVE TypeInv'
<1>1. SameGraph /\ SameNodes /\ LockTypes'
    BY SameLocks DEF DeleteLevel, SameGraph, SameNodes, graph, entry, history
<1>2. DeleteDoes(t)
    BY DeleteLevelStep
<1>3. JobFits(t) /\ pc[t] = "delete"
    BY <1>2 DEF TypeInv, JobsFit, DeleteDoes
<1>4. JobFits(t)'
    BY <1>1, <1>2, <1>3 DEF JobFits, DeleteDoes, SameNodes, Linking
<1> QED
    BY <1>1, <1>2, <1>4, TypeQuiet DEF DeleteDoes

LEMMA TypeDeleteEnd == ASSUME TypeInv, NEW t \in Threads, DeleteEnd(t) PROVE TypeInv'
<1>1. SameGraph
    BY DEF DeleteEnd, SameGraph, graph, entry, history
<1>2. LockTypes'
    BY DEF TypeInv, LockTypes, DeleteEnd
<1>3. ReturnDoes(t)
    BY ReturnStep DEF DeleteEnd
<1>4. Only(t) /\ JobFits(t)'
    BY <1>3, IdleFits DEF ReturnDoes
<1> QED
    BY <1>1, <1>2, <1>4, TypeQuiet

LEMMA TypeAnswer == ASSUME TypeInv, NEW t \in Threads, Answer(t) PROVE TypeInv'
<1>1. SameGraph /\ LockTypes'
    BY SameLocks DEF Answer, SameGraph, graph, entry, history
<1>2. ReturnDoes(t)
    BY ReturnStep DEF Answer
<1>3. Only(t) /\ JobFits(t)'
    BY <1>2, IdleFits DEF ReturnDoes
<1> QED
    BY <1>1, <1>3, TypeQuiet

LEMMA TypeSearch == ASSUME TypeInv, NEW t \in Threads, NEW q \in Queries, Search(t, q) PROVE TypeInv'
<1>1. SameGraph /\ SameNodes /\ LockTypes'
    BY SameLocks DEF Search, SameGraph, SameNodes, graph, entry, history
<1>2. /\ Only(t) /\ entryPoint # NoNode /\ pc'[t] = IF maxLevel > 0 THEN "descend" ELSE "gather"
      /\ job'[t].id = NoNode /\ Starts(job'[t], entryPoint, maxLevel)
    BY SearchStep DEF SearchDoes
<1>3. GraphFits
    BY DEF TypeInv
<1>4. entryPoint \in Range(nodes) /\ level[entryPoint] >= maxLevel
    BY <1>2, <1>3 DEF GraphFits, EntryFits
<1>5. JobFits(t)'
    BY <1>1, <1>2, <1>3, <1>4, StartFits
<1> QED
    BY <1>1, <1>2, <1>5, TypeQuiet

LEMMA TypeDeleteBegin ==
    ASSUME TypeInv, NEW t \in Threads, NEW id \in Deletable, DeleteBegin(t, id) PROVE TypeInv'
<1>1. GraphFits /\ FriendsFit
    BY DEF TypeInv
<1>2. SameNodes /\ FriendsFit' /\ GraphFits' /\ NodesKept
    <2>1. SameNodes /\ FriendsFit'
        BY <1>1 DEF DeleteBegin, SameNodes, FriendsFit, LinksFit, entry
    <2>2. GraphFits'
        BY <1>1 DEF DeleteBegin, GraphFits, EntryFits, entry
    <2> QED
        BY <2>1, <2>2, SameNodesKept
<1>3. LockTypes'
    BY DEF TypeInv, LockTypes, DeleteBegin
<1>4. DeleteBeginDoes(t)
    BY DeleteBeginStep
<1>5. JobFits(t)'
    <2>1. /\ pc'[t] = "delete" /\ job'[t].id \in Range(nodes) /\ job'[t].at = 0
          /\ Range(job'[t].todo) \subseteq Range(nodes)
        BY <1>4 DEF DeleteBeginDoes
    <2>2. 0 <= level[job'[t].id]
        <3>1. job'[t].id \in Ids
            BY <1>1, <2>1, NodesAre
        <3>2. level[job'[t].id] \in Nat
            BY <1>1, <3>1, NodesAre
        <3> QED
            BY <3>2
    <2> QED
        BY <1>2, <2>1, <2>2 DEF JobFits, SameNodes, Linking
<1>6. Only(t)
    BY <1>4 DEF DeleteBeginDoes
<1> QED
    BY <1>2, <1>3, <1>5, <1>6, TypeStep

(* The entry point after a node of the level has been offered.             *)
LEMMA RaiseFits ==
    ASSUME GraphFits, NEW n \in Range(nodes), NEW l \in Nat, l <= level[n], Raise(n, l)
    PROVE  /\ entryPoint' \in Range(nodes) \cup {NoNode} /\ maxLevel' \in 0 .. LevelCap
           /\ entryPoint' = NoNode <=> nodes = <<>>
           /\ entryPoint' # NoNode => level[entryPoint'] >= maxLevel'
           /\ entryPoint' = n \/ entryPoint' = entryPoint
           /\ maxLevel' = IF l > maxLevel THEN l ELSE maxLevel
           /\ l > maxLevel => entryPoint' = n
<1>1. level[n] \in Nat /\ level[n] <= LevelCap /\ n \in Ids /\ n # NoNode /\ LevelCap \in Nat
    BY NodesAre, Bounds
<1>2. nodes # <<>>
    BY EmptyRange
<1>3. CASE l > maxLevel
    BY <1>1, <1>2, <1>3 DEF Raise, GraphFits
<1>4. CASE ~(l > maxLevel)
    BY <1>4 DEF Raise, GraphFits, EntryFits, entry
<1> QED
    BY <1>3, <1>4

LEMMA TypeNextLevel == ASSUME TypeInv, NEW t \in Threads, NextLevel(t) PROVE TypeInv'
<1> DEFINE j == job[t]
           l == job[t].at + 1
<1>1. /\ GraphFits /\ FriendsFit /\ JobFits(t) /\ pc[t] = "prune" /\ j.at \in Nat
      /\ Raise(j.id, j.at)
    BY JobHas DEF TypeInv, JobsFit, NextLevel
<1>2. SameNodes /\ FriendsFit' /\ LockTypes' /\ NodesKept
    <2>1. SameNodes /\ FriendsFit' /\ LockTypes'
        BY <1>1, SameLocks DEF NextLevel, SameNodes, FriendsFit, LinksFit, graph
    <2> QED
        BY <2>1, SameNodesKept
<1>3. /\ Only(t) /\ pc'[t] = "gather" /\ job'[t].id = j.id /\ j.id \in Range(nodes)
      /\ l <= level[j.id] /\ l \in Nat
    BY NextLevelStep DEF NextLevelDoes
<1>4. PICK e \in Range(nodes) : IsFirst(e, l) /\ Starts(job'[t], e, l)
    BY NextLevelStep DEF NextLevelDoes
<1>5. GraphFits'
    <2>1. j.at <= level[j.id]
        <3>1. level[j.id] \in Nat
            BY <1>1, <1>3, NodesAre
        <3> QED
            BY <1>1, <1>3, <3>1
    <2>2. /\ entryPoint' \in Range(nodes) \cup {NoNode} /\ maxLevel' \in 0 .. LevelCap
          /\ entryPoint' = NoNode <=> nodes = <<>>
          /\ entryPoint' # NoNode => level[entryPoint'] >= maxLevel'
        BY <1>1, <1>3, <2>1, RaiseFits
    <2> QED
        BY <1>1, <2>2 DEF GraphFits, EntryFits, NextLevel, graph, history
<1>6. level[e] >= l
    BY <1>4 DEF IsFirst
<1>7. JobFits(t)'
    BY <1>1, <1>2, <1>3, <1>4, <1>6, StartFits
<1> QED
    BY <1>2, <1>3, <1>5, <1>7, TypeStep

LEMMA TypeFinish == ASSUME TypeInv, NEW t \in Threads, Finish(t) PROVE TypeInv'
<1> DEFINE j == job[t]
<1>1. /\ GraphFits /\ FriendsFit /\ JobFits(t) /\ pc[t] = "prune" /\ j.at \in Nat
      /\ Raise(j.id, j.at) /\ j.at = level[j.id]
    BY JobHas DEF TypeInv, JobsFit, Finish
<1>2. SameNodes /\ FriendsFit' /\ LockTypes' /\ NodesKept
    <2>1. SameNodes /\ FriendsFit' /\ LockTypes'
        BY <1>1, SameLocks DEF Finish, SameNodes, FriendsFit, LinksFit, graph
    <2> QED
        BY <2>1, SameNodesKept
<1>3. j.id \in Range(nodes)
    BY <1>1 DEF JobFits, Linking
<1>4. GraphFits'
    <2>1. j.at <= level[j.id]
        BY <1>1
    <2>2. /\ entryPoint' \in Range(nodes) \cup {NoNode} /\ maxLevel' \in 0 .. LevelCap
          /\ entryPoint' = NoNode <=> nodes = <<>>
          /\ entryPoint' # NoNode => level[entryPoint'] >= maxLevel'
        BY <1>1, <1>3, <2>1, RaiseFits
    <2> QED
        BY <1>1, <1>3, <2>2 DEF GraphFits, EntryFits, Finish, graph
<1>5. ReturnDoes(t)
    BY ReturnStep DEF Finish
<1>6. Only(t) /\ JobFits(t)'
    BY <1>5, IdleFits DEF ReturnDoes
<1> QED
    BY <1>2, <1>4, <1>6, TypeStep

LEMMA TypeInsertKnown ==
    ASSUME TypeInv, NEW t \in Threads, NEW id \in Ids, NEW v \in Vectors[id], InsertKnown(t, id, v)
    PROVE  TypeInv'
<1>1. GraphFits /\ FriendsFit /\ Locals
    BY DEF TypeInv
<1>2. v \in Nat
    <2>1. Vectors[id] \subseteq Nat
        BY Bounds
    <2> QED
        BY <2>1
<1>3. SameNodes /\ FriendsFit' /\ LockTypes' /\ NodesKept
    <2>1. SameNodes /\ FriendsFit' /\ LockTypes'
        BY <1>1, SameLocks DEF InsertKnown, SameNodes, FriendsFit, LinksFit
    <2> QED
        BY <2>1, SameNodesKept
<1>4. GraphFits'
    <2>1. vec' \in [Ids -> Nat]
        BY <1>1, <1>2 DEF InsertKnown, GraphFits
    <2> QED
        BY <1>1, <2>1 DEF InsertKnown, GraphFits, EntryFits, entry, history
<1>5. pc' = pc /\ job' = job
    BY DEF InsertKnown, threads
<1>6. Only(t)
    BY <1>1, <1>5 DEF Only, Locals
<1>7. JobFits(t)'
    BY <1>3, <1>5, FitsStill DEF TypeInv, JobsFit
<1> QED
    BY <1>3, <1>4, <1>6, <1>7, TypeStep

(* A new node has its lists, which are empty.                              *)
InsertChanges(id, l) ==
    /\ M' = M /\ Range(nodes)' = Range(nodes) \cup {id} /\ nodes' \in Seq(Ids) /\ IsInjective(nodes')
    /\ Len(nodes') = Len(nodes) + 1 /\ nodes'[Len(nodes) + 1] = id
    /\ \A i \in 1 .. Len(nodes) : nodes'[i] = nodes[i]
    /\ id \notin Range(nodes) /\ level'[id] = l /\ level' \in [Ids -> 0 .. LevelCap]
    /\ \A n \in Ids \ {id} : level'[n] = level[n] /\ friends'[n] = friends[n]
    /\ DOMAIN friends' = Ids /\ friends'[id] = [i \in 0 .. l |-> <<>>]

LEMMA InsertChangesStep ==
    ASSUME TypeInv, NEW t \in Threads, NEW id \in Ids, NEW v \in Vectors[id], NEW l \in Levels(id),
           InsertNew(t, id, v, l)
    PROVE  InsertChanges(id, l) /\ NodesKept
<1>1. GraphFits /\ DOMAIN friends = Ids
    BY DEF TypeInv, FriendsFit
<1>2. id \notin Range(nodes) /\ l \in 0 .. LevelCap
    BY InsertNewStep DEF InsertNewDoes
<1>3. nodes' = Append(nodes, id) /\ nodes \in Seq(Ids) /\ Len(nodes) \in Nat /\ Range(nodes) \subseteq Ids
    BY <1>1, NodesAre DEF InsertNew
<1>4. /\ nodes' \in Seq(Ids) /\ Len(nodes') = Len(nodes) + 1
      /\ nodes'[Len(nodes) + 1] = id /\ \A i \in 1 .. Len(nodes) : nodes'[i] = nodes[i]
    BY <1>3
<1>5. Range(nodes') = Range(nodes) \cup {id}
    BY <1>3, AppendIs
<1>6. IsInjective(nodes')
    <2>1. DOMAIN nodes = 1 .. Len(nodes) /\ DOMAIN nodes' = 1 .. Len(nodes) + 1
        BY <1>3, <1>4
    <2>2. \A a, b \in 1 .. Len(nodes) : nodes[a] = nodes[b] => a = b
        BY <1>1, <2>1 DEF GraphFits, IsInjective
    <2>3. \A a \in 1 .. Len(nodes) : nodes[a] # id
        BY <1>2, <1>3, RangeIs
    <2>4. ASSUME NEW a \in 1 .. Len(nodes) + 1, NEW b \in 1 .. Len(nodes) + 1, nodes'[a] = nodes'[b]
          PROVE  a = b
        <3>1. a = Len(nodes) + 1 \/ a \in 1 .. Len(nodes)
            BY <1>3
        <3>2. b = Len(nodes) + 1 \/ b \in 1 .. Len(nodes)
            BY <1>3
        <3> QED
            BY <1>4, <2>2, <2>3, <2>4, <3>1, <3>2
    <2> QED
        BY <2>1, <2>4 DEF IsInjective
<1>7. /\ M' = M /\ level' = [level EXCEPT ![id] = l]
      /\ friends' = [friends EXCEPT ![id] = [i \in 0 .. l |-> <<>>]] /\ level \in [Ids -> 0 .. LevelCap]
    BY <1>1 DEF InsertNew, GraphFits
<1>8. /\ level'[id] = l /\ level' \in [Ids -> 0 .. LevelCap] /\ DOMAIN friends' = Ids
      /\ \A n \in Ids \ {id} : level'[n] = level[n] /\ friends'[n] = friends[n]
      /\ friends'[id] = [i \in 0 .. l |-> <<>>]
    BY <1>1, <1>2, <1>7
<1>9. InsertChanges(id, l)
    BY <1>2, <1>4, <1>5, <1>6, <1>7, <1>8 DEF InsertChanges
<1>10. \A n \in Range(nodes) : level'[n] = level[n]
    BY <1>2, <1>3, <1>8
<1> QED
    BY <1>5, <1>7, <1>9, <1>10 DEF NodesKept

LEMMA TypeInsertNew ==
    ASSUME TypeInv, NEW t \in Threads, NEW id \in Ids, NEW v \in Vectors[id], NEW l \in Levels(id),
           InsertNew(t, id, v, l)
    PROVE  TypeInv'
<1>1. GraphFits /\ FriendsFit /\ Locals
    BY DEF TypeInv
<1>2. InsertNewDoes(t, id, l) /\ v \in Nat
    BY InsertNewStep
<1>3. InsertChanges(id, l) /\ NodesKept
    BY InsertChangesStep
<1>4. LockTypes'
    BY SameLocks DEF InsertNew
<1>5. l \in 0 .. LevelCap /\ LevelCap \in Nat /\ l \in Nat /\ id # NoNode /\ Range(nodes) \subseteq Ids
    <2>1. l \in 0 .. LevelCap
        BY <1>2 DEF InsertNewDoes
    <2>2. LevelCap \in Nat /\ id # NoNode
        BY Bounds
    <2>3. Range(nodes) \subseteq Ids
        BY <1>1, NodesAre
    <2> QED
        BY <2>1, <2>2, <2>3
<1>6. /\ M' = M /\ Range(nodes)' = Range(nodes) \cup {id} /\ nodes' \in Seq(Ids) /\ IsInjective(nodes')
      /\ id \notin Range(nodes) /\ level'[id] = l /\ level' \in [Ids -> 0 .. LevelCap]
      /\ \A n \in Ids \ {id} : level'[n] = level[n] /\ friends'[n] = friends[n]
      /\ DOMAIN friends' = Ids /\ friends'[id] = [i \in 0 .. l |-> <<>>] /\ nodes' # <<>>
    <2>1. nodes' # <<>>
        BY <1>3, EmptyRange DEF InsertChanges
    <2> QED
        BY <1>3, <2>1 DEF InsertChanges
<1>7. GraphFits'
    <2>1. vec' \in [Ids -> Nat] /\ deleted' = deleted /\ trimmed' = trimmed
        BY <1>1, <1>2 DEF InsertNew, GraphFits
    <2>2. CASE entryPoint = NoNode
        <3>1. entryPoint' = id /\ maxLevel' = l /\ done' = done \cup {id}
            BY <2>2 DEF InsertNew
        <3>2. EntryFits'
            BY <1>5, <1>6, <3>1 DEF EntryFits
        <3>3. deleted' \subseteq Range(nodes)' /\ done' \subseteq Range(nodes)' /\ trimmed' \in BOOLEAN
              /\ entryPoint' \in Range(nodes)' /\ M' \in Ms
            BY <1>1, <1>6, <2>1, <3>1 DEF GraphFits
        <3> QED
            BY <1>5, <1>6, <2>1, <3>1, <3>2, <3>3 DEF GraphFits
    <2>3. CASE entryPoint # NoNode
        <3>1. entryPoint' = entryPoint /\ maxLevel' = maxLevel /\ done' = done
            BY <2>3 DEF InsertNew, entry
        <3>2. entryPoint \in Range(nodes) /\ level[entryPoint] >= maxLevel
            BY <1>1, <2>3 DEF GraphFits, EntryFits
        <3> QED
            BY <1>1, <1>5, <1>6, <2>1, <2>3, <3>1, <3>2 DEF GraphFits, EntryFits
    <2> QED
        BY <2>2, <2>3
<1>8. FriendsFit'
    <2>1. \A n \in Ids \ Range(nodes)' : friends'[n] = <<>>
        BY <1>1, <1>6 DEF FriendsFit
    <2>2. ASSUME NEW n \in Range(nodes) PROVE friends'[n] \in [0 .. level'[n] -> Seq(Range(nodes)')]
        <3>1. friends[n] \in [0 .. level[n] -> Seq(Range(nodes))] /\ level'[n] = level[n]
              /\ friends'[n] = friends[n]
            BY <1>1, <1>5, <1>6 DEF FriendsFit
        <3>2. \A s \in Seq(Range(nodes)) : s \in Seq(Range(nodes) \cup {id})
            OBVIOUS
        <3> QED
            BY <1>6, <3>1, <3>2
    <2>3. friends'[id] \in [0 .. level'[id] -> Seq(Range(nodes)')]
        BY <1>6
    <2>4. ASSUME NEW n \in Range(nodes), NEW h \in 0 .. level'[n], NEW i \in Range(friends'[n][h])
          PROVE  i # n /\ level'[i] >= h
        <3>1. level'[n] = level[n] /\ friends'[n] = friends[n]
            BY <1>5, <1>6
        <3>2. i # n /\ level[i] >= h
            BY <1>1, <2>4, <3>1 DEF FriendsFit, LinksFit
        <3>3. h \in Nat /\ h <= level[n]
            <4>1. level[n] \in Nat
                BY <1>1, <1>5, NodesAre
            <4> QED
                BY <3>1, <4>1
        <3>4. i \in Range(nodes)
            BY <1>1, <2>4, <3>1, <3>3, FriendsAre
        <3> QED
            BY <1>5, <1>6, <3>2, <3>4
    <2>5. \A h \in 0 .. level'[id] : Range(friends'[id][h]) = {}
        BY <1>6, EmptyRange
    <2>6. LinksFit'
        BY <1>6, <2>4, <2>5 DEF LinksFit
    <2> QED
        BY <1>6, <2>1, <2>2, <2>3, <2>6 DEF FriendsFit
<1>9. Only(t) /\ pc[t] = "idle"
    BY <1>2 DEF InsertNewDoes
<1>10. JobFits(t)'
    <2>1. CASE entryPoint = NoNode
        <3>1. pc'[t] = "idle"
            BY <1>2, <1>9, <2>1 DEF InsertNewDoes
        <3> QED
            BY <3>1, IdleFits
    <2>2. CASE entryPoint # NoNode
        <3>1. pc'[t] = "descend" /\ job'[t].id = id /\ Starts(job'[t], entryPoint, maxLevel)
            BY <1>2, <2>2 DEF InsertNewDoes
        <3>2. PICK k : k = job'[t]
            OBVIOUS
        <3>3. /\ k.at = maxLevel /\ k.prune = <<>> /\ HitNodes(k.cand) = {entryPoint}
              /\ HitNodes(k.res) = {entryPoint} /\ k.res # {} /\ IsFiniteSet(k.res)
            BY <3>1, <3>2, StartsHas
        <3>4. entryPoint \in Range(nodes) /\ level[entryPoint] >= maxLevel
            BY <1>1, <2>2 DEF GraphFits, EntryFits
        <3>5. entryPoint \in Range(nodes)' /\ level'[entryPoint] >= maxLevel
            BY <1>5, <1>6, <3>4
        <3>6. HasLevel(HitNodes(job[t].cand) \cup HitNodes(job[t].res), job[t].at)'
            <4>1. HitNodes(job'[t].cand) \cup HitNodes(job'[t].res) = {entryPoint} /\ job'[t].at = maxLevel
                BY <3>2, <3>3
            <4>2. \A n \in HitNodes(job'[t].cand) \cup HitNodes(job'[t].res) :
                      n \in Range(nodes)' /\ level'[n] >= job'[t].at
                BY <3>5, <4>1
            <4> QED
                BY <4>2 DEF HasLevel, HitNodes
        <3> QED
            BY <1>6, <3>1, <3>2, <3>3, <3>6 DEF JobFits, Linking
    <2> QED
        BY <2>1, <2>2
<1> QED
    BY <1>3, <1>4, <1>7, <1>8, <1>9, <1>10, TypeStep

LEMMA TypeInit == ASSUME Init PROVE TypeInv
<1>1. M \in Ms /\ nodes = <<>> /\ deleted = {} /\ entryPoint = NoNode /\ maxLevel = 0
      /\ vec = [n \in Ids |-> 0] /\ level = [n \in Ids |-> 0] /\ friends = [n \in Ids |-> <<>>]
      /\ mu = NoThread /\ lock = [n \in Ids |-> NoThread]
      /\ pc = [t \in Threads |-> "idle"] /\ job = [t \in Threads |-> NoJob]
      /\ done = {} /\ trimmed = FALSE
    BY DEF Init
<1>2. Range(nodes) = {}
    BY <1>1, EmptyRange
<1>3. nodes \in Seq(Ids) /\ IsInjective(nodes)
    BY <1>1 DEF IsInjective
<1>4. GraphFits
    <2>1. LevelCap \in Nat /\ 0 \in 0 .. LevelCap
        BY Bounds
    <2>2. vec \in [Ids -> Nat] /\ level \in [Ids -> 0 .. LevelCap]
        BY <1>1, <2>1
    <2>3. EntryFits
        BY <1>1 DEF EntryFits
    <2> QED
        BY <1>1, <1>2, <1>3, <2>1, <2>2, <2>3 DEF GraphFits
<1>5. FriendsFit
    BY <1>1, <1>2 DEF FriendsFit, LinksFit
<1>6. LockTypes
    BY <1>1 DEF LockTypes
<1>7. Locals
    BY <1>1, NoJobIs DEF Locals, Steps
<1>8. JobsFit
    BY <1>1 DEF JobsFit, JobFits, Linking
<1> QED
    BY <1>4, <1>5, <1>6, <1>7, <1>8 DEF TypeInv

LEMMA TypeKept == ASSUME TypeInv, [Next]_vars PROVE TypeInv'
<1>1. ASSUME NEW t \in Threads, NEW id \in Ids, NEW v \in Vectors[id], NEW l \in Levels(id),
             InsertNew(t, id, v, l)
      PROVE  TypeInv'
    BY <1>1, TypeInsertNew
<1>2. ASSUME NEW t \in Threads, NEW id \in Ids, NEW v \in Vectors[id], InsertKnown(t, id, v)
      PROVE  TypeInv'
    BY <1>2, TypeInsertKnown
<1>3. ASSUME NEW t \in Threads, NEW q \in Queries, Search(t, q) PROVE TypeInv'
    BY <1>3, TypeSearch
<1>4. ASSUME NEW t \in Threads, NEW id \in Deletable, DeleteBegin(t, id) PROVE TypeInv'
    BY <1>4, TypeDeleteBegin
<1>5. ASSUME NEW t \in Threads, Step(t) PROVE TypeInv'
    BY <1>5, TypeExpand, TypeDescend, TypeGathered, TypeLockFirst, TypeLink, TypeConnected,
       TypePruneRead, TypePruneWrite, TypeNextLevel, TypeFinish, TypeAnswer, TypeDeleteNext,
       TypeDeleteLevel, TypeDeleteEnd DEF Step
<1>6. ASSUME UNCHANGED vars PROVE TypeInv'
    BY <1>6 DEF TypeInv, GraphFits, EntryFits, FriendsFit, LinksFit, LockTypes, Locals, JobsFit, JobFits,
       HasLevel, HitNodes, MaxLinks, vars, graph, entry, threads, history
<1> QED
    BY <1>1, <1>2, <1>3, <1>4, <1>5, <1>6 DEF Next

LEMMA TypeInvariant == Spec => []TypeInv
<1>1. Init => TypeInv
    BY TypeInit
<1>2. TypeInv /\ [Next]_vars => TypeInv'
    BY TypeKept
<1> QED
    BY <1>1, <1>2, PTL DEF Spec

(* The graph, the locks and the goroutines are always as declared, and a   *)
(* link of a level joins two different nodes that both have the level:     *)
(* addConnections never writes to a level that its node was not built      *)
(* with, whatever insertions, deletions and searches overlap.              *)
THEOREM TypeCorrect == Spec => []TypeOK
<1>1. TypeInv => TypeOK
    <2> SUFFICES ASSUME TypeInv PROVE TypeOK
        OBVIOUS
    <2>1. GraphFits /\ FriendsFit /\ LockTypes /\ Locals
        BY DEF TypeInv
    <2> QED
        BY <2>1 DEF TypeOK, GraphFits, FriendsFit, LockTypes, Locals, Steps
<1> QED
    BY <1>1, TypeInvariant, PTL

-----------------------------------------------------------------------------
(* No list stays too long: a list over its limit is one that some          *)
(* goroutine has put down for pruning, or the one it is still linking.     *)

WillPrune(t, n, l) ==
    /\ pc[t] \in Linking /\ job[t].at = l
    /\ \/ n \in Range(job[t].prune)
       \/ pc[t] \in {"connect", "locking"} /\ n = job[t].id
TooLong(n, l) == Len(friends[n][l]) > MaxLinks(l)
LongAreSeen ==
    \A n \in Range(nodes) : \A l \in 0 .. level[n] : TooLong(n, l) => \E t \in Threads : WillPrune(t, n, l)

LEMMA LongStep ==
    ASSUME TypeInv, LongAreSeen, NEW t \in Threads, Only(t), NodesKept,
           \A n \in Range(nodes)' : \A l \in 0 .. level'[n] : TooLong(n, l)' =>
               \/ n \in Range(nodes) /\ TooLong(n, l) /\ (WillPrune(t, n, l) => WillPrune(t, n, l)')
               \/ WillPrune(t, n, l)'
    PROVE  LongAreSeen'
<1>1. ASSUME NEW n \in Range(nodes)', NEW l \in 0 .. level'[n], TooLong(n, l)'
      PROVE  \E u \in Threads : WillPrune(u, n, l)'
    <2>1. CASE WillPrune(t, n, l)'
        BY <2>1
    <2>2. CASE n \in Range(nodes) /\ TooLong(n, l) /\ (WillPrune(t, n, l) => WillPrune(t, n, l)')
        <3>1. level'[n] = level[n]
            BY <2>2 DEF NodesKept
        <3>2. PICK u \in Threads : WillPrune(u, n, l)
            BY <2>2, <3>1 DEF LongAreSeen
        <3>3. CASE u = t
            BY <2>2, <3>2, <3>3
        <3>4. CASE u # t
            BY <3>2, <3>4 DEF Only, WillPrune
        <3> QED
            BY <3>3, <3>4
    <2> QED
        BY <1>1, <2>1, <2>2
<1> QED
    BY <1>1 DEF LongAreSeen

(* Steps that leave the lists as they are.                                 *)
LEMMA LongQuiet ==
    ASSUME TypeInv, LongAreSeen, NEW t \in Threads, Only(t), SameNodes, friends' = friends,
           \A n \in Range(nodes) : \A l \in 0 .. level[n] :
               TooLong(n, l) /\ WillPrune(t, n, l) => WillPrune(t, n, l)'
    PROVE  LongAreSeen'
<1>1. \A n, l : TooLong(n, l)' = TooLong(n, l)
    BY DEF TooLong, MaxLinks, SameNodes
<1>2. Range(nodes)' = Range(nodes) /\ level' = level
    BY DEF SameNodes
<1> QED
    BY <1>1, <1>2, LongStep, SameNodesKept

LEMMA LongIdle ==
    ASSUME TypeInv, LongAreSeen, NEW t \in Threads, Only(t), SameNodes, friends' = friends,
           pc[t] \notin Linking
    PROVE  LongAreSeen'
<1>1. \A n, l : ~WillPrune(t, n, l)
    BY DEF WillPrune
<1> QED
    BY <1>1, LongQuiet

LEMMA LongInsertNew ==
    ASSUME TypeInv, LongAreSeen, NEW t \in Threads, NEW id \in Ids, NEW v \in Vectors[id],
           NEW l \in Levels(id), InsertNew(t, id, v, l)
    PROVE  LongAreSeen'
<1>1. Only(t) /\ pc[t] = "idle"
    BY InsertNewStep DEF InsertNewDoes
<1>2. InsertChanges(id, l) /\ NodesKept
    BY InsertChangesStep
<1>3. /\ M' = M /\ Range(nodes)' = Range(nodes) \cup {id} /\ id \notin Range(nodes) /\ level'[id] = l
      /\ \A n \in Ids \ {id} : level'[n] = level[n] /\ friends'[n] = friends[n]
      /\ friends'[id] = [i \in 0 .. l |-> <<>>]
    BY <1>2 DEF InsertChanges
<1>4. GraphFits /\ Range(nodes) \subseteq Ids /\ l \in Nat
    <2>1. l \in 0 .. LevelCap
        BY InsertNewStep DEF InsertNewDoes
    <2> QED
        BY <2>1, NodesAre DEF TypeInv
<1>5. ASSUME NEW n \in Range(nodes)', NEW h \in 0 .. level'[n], TooLong(n, h)'
      PROVE  n \in Range(nodes) /\ TooLong(n, h)
    <2>1. CASE n = id
        <3>1. h \in 0 .. l /\ h \in Nat
            BY <1>3, <1>4, <2>1
        <3>2. Len(friends'[n][h]) = 0
            <4>1. friends'[n][h] = <<>>
                BY <1>3, <2>1, <3>1
            <4> QED
                BY <4>1
        <3>3. MaxLinks(h) \in Nat
            BY <1>4, <3>1, NodesAre
        <3>4. MaxLinks(h)' = MaxLinks(h)
            BY <1>3 DEF MaxLinks
        <3>5. Len(friends'[n][h]) > MaxLinks(h)
            BY <1>5, <3>4 DEF TooLong
        <3> QED
            BY <3>2, <3>3, <3>5
    <2>2. CASE n # id
        <3>1. n \in Range(nodes) /\ friends'[n] = friends[n]
            BY <1>3, <1>4, <2>2
        <3> QED
            BY <1>3, <1>5, <3>1 DEF TooLong, MaxLinks
    <2> QED
        BY <2>1, <2>2
<1>6. \A n, h : ~WillPrune(t, n, h)
    BY <1>1 DEF WillPrune, Linking
<1> QED
    BY <1>1, <1>2, <1>5, <1>6, LongStep

LEMMA LongLink ==
    ASSUME TypeInv, LongAreSeen, NEW t \in Threads, Link(t) PROVE LongAreSeen'
<1> DEFINE id == job[t].id
           l == job[t].at
           n == Head(job[t].todo)
<1>1. GraphFits /\ FriendsFit /\ M' = M /\ SameNodes
    BY DEF TypeInv, Link, SameNodes, graph
<1>2. /\ Only(t) /\ pc[t] = "locking" /\ pc'[t] = "connect" /\ job'[t].id = id /\ job'[t].at = l
      /\ Range(job'[t].prune) = Range(job[t].prune) \cup
             IF Len(friends'[n][l]) > MaxLinks(l) THEN {n} ELSE {}
    BY LinkStep DEF LinkDoes
<1>3. LinkChanges(n, id, l) /\ LinkGives(n, id, l)
    BY <1>1, LinkChangesStep, LinkChangesHas
<1>4. \A h : MaxLinks(h)' = MaxLinks(h)
    BY <1>1 DEF MaxLinks
<1>5. Range(nodes)' = Range(nodes) /\ level' = level
    BY <1>1 DEF SameNodes
<1> HIDE DEF id, l, n
<1>6. ASSUME NEW x \in Range(nodes), NEW h \in 0 .. level[x], TooLong(x, h)'
      PROVE  \/ TooLong(x, h) /\ (WillPrune(t, x, h) => WillPrune(t, x, h)')
             \/ WillPrune(t, x, h)'
    <2>1. WillPrune(t, x, h) => WillPrune(t, x, h)'
        BY <1>2 DEF WillPrune, Linking, id, l
    <2>2. CASE x = n /\ h = l
        <3>1. Len(friends'[n][l]) > MaxLinks(l)
            BY <1>4, <1>6, <2>2 DEF TooLong
        <3>2. n \in Range(job'[t].prune)
            BY <1>2, <3>1
        <3> QED
            BY <1>2, <2>2, <3>2 DEF WillPrune, Linking
    <2>3. CASE x = id /\ h = l
        BY <1>2, <2>3 DEF WillPrune, Linking
    <2>4. CASE x \notin {n, id} \/ h # l
        <3>1. h \in Nat /\ h <= level[x]
            <4>1. level[x] \in Nat
                BY <1>1, NodesAre
            <4> QED
                BY <4>1
        <3>2. friends'[x][h] = friends[x][h]
            BY <1>3, <2>4, <3>1 DEF LinkGives
        <3> QED
            BY <1>4, <1>6, <2>1, <3>2 DEF TooLong
    <2> QED
        BY <2>2, <2>3, <2>4
<1> QED
    BY <1>1, <1>2, <1>5, <1>6, LongStep, SameNodesKept

LEMMA LongConnected ==
    ASSUME TypeInv, LongAreSeen, NEW t \in Threads, Connected(t) PROVE LongAreSeen'
<1>1. SameNodes /\ friends' = friends
    BY DEF Connected, SameNodes, graph
<1>2. /\ Only(t) /\ pc[t] = "connect" /\ pc'[t] = "prune"
      /\ job'[t].id = job[t].id /\ job'[t].at = job[t].at
      /\ Range(job'[t].prune) = Range(job[t].prune) \cup
             IF Len(friends[job[t].id][job[t].at]) > MaxLinks(job[t].at) THEN {job[t].id} ELSE {}
    BY ConnectedStep DEF ConnectedDoes
<1>3. ASSUME NEW n, NEW l, TooLong(n, l), WillPrune(t, n, l) PROVE WillPrune(t, n, l)'
    <2>1. n = job[t].id => n \in Range(job'[t].prune)
        BY <1>2, <1>3 DEF TooLong, WillPrune
    <2> QED
        BY <1>2, <1>3, <2>1 DEF WillPrune, Linking
<1> QED
    BY <1>1, <1>2, <1>3, LongQuiet

LEMMA LongPruneRead ==
    ASSUME TypeInv, LongAreSeen, NEW t \in Threads, PruneRead(t) PROVE LongAreSeen'
<1>1. SameNodes /\ friends' = friends
    BY DEF PruneRead, SameNodes, graph
<1>2. PruneReadDoes(t)
    BY PruneReadStep
<1>3. GraphFits /\ FriendsFit /\ JobFits(t) /\ job[t].at \in Nat /\ job[t].prune \in Seq(Ids)
    BY JobHas DEF TypeInv, JobsFit
<1>4. ASSUME NEW n, NEW l, TooLong(n, l), WillPrune(t, n, l) PROVE WillPrune(t, n, l)'
    <2>1. CASE /\ pc'[t] = "prune"
               /\ Len(friends[Head(job[t].prune)][job[t].at]) <= MaxLinks(job[t].at)
               /\ Range(job[t].prune) = {Head(job[t].prune)} \cup Range(job'[t].prune)
        <3>1. Head(job[t].prune) \in Range(nodes) /\ HasLevel(Range(job[t].prune), job[t].at)
              /\ Head(job[t].prune) \in Range(job[t].prune)
            BY <1>2, <1>3, TailIs DEF PruneReadDoes, JobFits, Linking
        <3>2. job[t].at <= level[Head(job[t].prune)]
            <4>1. level[Head(job[t].prune)] \in Nat /\ level[Head(job[t].prune)] >= job[t].at
                BY <1>3, <3>1, NodesAre DEF HasLevel
            <4> QED
                BY <1>3, <4>1
        <3>3. Len(friends[Head(job[t].prune)][job[t].at]) \in Nat /\ MaxLinks(job[t].at) \in Nat
            BY <1>3, <3>1, <3>2, FriendsAre, NodesAre
        <3>4. ~TooLong(Head(job[t].prune), job[t].at)
            BY <2>1, <3>3 DEF TooLong
        <3>5. n # Head(job[t].prune)
            BY <1>4, <3>4 DEF WillPrune
        <3> QED
            BY <1>2, <1>4, <2>1, <3>5 DEF WillPrune, Linking, PruneReadDoes
    <2>2. CASE pc'[t] = "trim" /\ job'[t].prune = job[t].prune
        BY <1>2, <1>4, <2>2 DEF WillPrune, Linking, PruneReadDoes
    <2> QED
        BY <1>2, <2>1, <2>2 DEF PruneReadDoes
<1>5. Only(t)
    BY <1>2 DEF PruneReadDoes
<1> QED
    BY <1>1, <1>4, <1>5, LongQuiet

LEMMA LongPruneWrite ==
    ASSUME TypeInv, LongAreSeen, NEW t \in Threads, PruneWrite(t) PROVE LongAreSeen'
<1> DEFINE l == job[t].at
           n == Head(job[t].prune)
<1>1. GraphFits /\ FriendsFit /\ M' = M /\ SameNodes
    BY DEF TypeInv, PruneWrite, SameNodes, graph
<1>2. /\ Only(t) /\ pc[t] = "trim" /\ pc'[t] = "prune" /\ job'[t].id = job[t].id /\ job'[t].at = l
      /\ Range(job[t].prune) = {n} \cup Range(job'[t].prune)
    BY PruneWriteStep DEF PruneWriteDoes
<1>3. PruneChanges(n, l, job[t].keep)
    BY PruneChangesStep
<1>4. \A h : MaxLinks(h)' = MaxLinks(h)
    BY <1>1 DEF MaxLinks
<1>5. Range(nodes)' = Range(nodes) /\ level' = level
    BY <1>1 DEF SameNodes
<1>6. /\ l \in Nat /\ n \in Range(nodes) /\ l <= level[n] /\ Changed({n}, l)
      /\ Len(friends'[n][l]) <= MaxLinks(l) /\ Len(friends'[n][l]) \in Nat /\ MaxLinks(l) \in Nat
    <2>1. l \in Nat /\ n \in Range(nodes) /\ l <= level[n] /\ Changed({n}, l)
          /\ friends'[n][l] \in Seq(Range(nodes)) /\ Len(friends'[n][l]) <= MaxLinks(l)
        BY <1>3 DEF PruneChanges
    <2>2. MaxLinks(l) \in Nat
        BY <1>1, <2>1, NodesAre
    <2> DEFINE s == friends'[n][l]
    <2>3. s \in Seq(Range(nodes))
        BY <2>1
    <2> HIDE DEF s
    <2>4. Len(s) \in Nat
        BY <2>3
    <2> QED
        BY <2>1, <2>2, <2>4 DEF s
<1> HIDE DEF l, n
<1>7. ASSUME NEW x \in Range(nodes), NEW h \in 0 .. level[x], TooLong(x, h)'
      PROVE  TooLong(x, h) /\ (WillPrune(t, x, h) => WillPrune(t, x, h)')
    <2>1. x # n \/ h # l
        BY <1>4, <1>6, <1>7 DEF TooLong
    <2>2. h \in Nat /\ h <= level[x]
        <3>1. level[x] \in Nat
            BY <1>1, NodesAre
        <3> QED
            BY <3>1
    <2>3. friends'[x][h] = friends[x][h]
        <3> DEFINE C == {n}
        <3>1. C \subseteq Range(nodes) /\ Changed(C, l) /\ (\A y \in C : l <= level[y]) /\ (x \notin C \/ h # l)
            BY <1>6, <2>1
        <3> HIDE DEF C
        <3> QED
            BY <1>1, <1>6, <2>2, <3>1, ChangedHas
    <2>4. TooLong(x, h)
        BY <1>4, <1>7, <2>3 DEF TooLong
    <2>5. WillPrune(t, x, h) => WillPrune(t, x, h)'
        BY <1>2, <2>1 DEF WillPrune, Linking, l
    <2> QED
        BY <2>4, <2>5
<1> QED
    BY <1>1, <1>2, <1>5, <1>7, LongStep, SameNodesKept

LEMMA LongDeleteNext ==
    ASSUME TypeInv, LongAreSeen, NEW t \in Threads, DeleteNext(t) PROVE LongAreSeen'
<1> DEFINE id == job[t].id
           l == job[t].at
           n == Head(job[t].todo)
           less == RemoveFirst(friends[n][l], id)
<1>1. GraphFits /\ FriendsFit /\ l \in Nat /\ SameNodes
    BY JobHas DEF TypeInv, DeleteNext, SameNodes, graph
<1>2. Only(t) /\ pc[t] = "delete" /\ n \in Range(nodes)
    BY DeleteNextStep DEF DeleteDoes
<1>3. /\ friends' = IF l \in DOMAIN friends[n] THEN [friends EXCEPT ![n][l] = less] ELSE friends
      /\ DOMAIN friends = Ids /\ friends[n] \in [0 .. level[n] -> Seq(Range(nodes))]
      /\ n \in Ids /\ level[n] \in Nat
    <2>1. friends' = IF l \in DOMAIN friends[n] THEN [friends EXCEPT ![n][l] = less] ELSE friends
        BY DEF DeleteNext
    <2> QED
        BY <1>1, <1>2, <2>1, NodesAre DEF FriendsFit
<1> HIDE DEF n, l, id
<1>4. l \in DOMAIN friends[n] => Len(less) <= Len(friends[n][l])
    <2> SUFFICES ASSUME l \in DOMAIN friends[n] PROVE Len(less) <= Len(friends[n][l])
        OBVIOUS
    <2> DEFINE S == Range(nodes)
               s == friends[n][l]
    <2>1. s \in Seq(S)
        BY <1>3
    <2> HIDE DEF S, s
    <2>2. Len(RemoveFirst(s, id)) <= Len(s)
        BY <2>1, RemoveFirstIs
    <2> QED
        BY <2>2 DEF s
<1> HIDE DEF less
<1>5. ASSUME NEW x \in Range(nodes), NEW h \in 0 .. level[x]
      PROVE  friends'[x][h] = friends[x][h]
             \/ (x = n /\ h = l /\ l \in DOMAIN friends[n] /\ friends'[x][h] = less)
    <2>1. x \in Ids /\ friends[x] \in [0 .. level[x] -> Seq(Range(nodes))]
        BY <1>1, NodesAre DEF FriendsFit
    <2>2. CASE l \notin DOMAIN friends[n]
        <3>1. friends' = friends
            BY <1>3, <2>2
        <3> QED
            BY <3>1
    <2>3. CASE l \in DOMAIN friends[n]
        <3>1. friends' = [friends EXCEPT ![n] = [friends[n] EXCEPT ![l] = less]]
            BY <1>3, <2>3
        <3>2. x # n => friends'[x] = friends[x]
            BY <1>3, <2>1, <3>1
        <3>3. friends'[n] = [friends[n] EXCEPT ![l] = less]
            BY <1>3, <3>1
        <3>4. h # l /\ x = n => friends'[n][h] = friends[n][h]
            BY <1>3, <2>1, <3>3
        <3>5. friends'[n][l] = less
            BY <2>3, <3>3
        <3> QED
            BY <2>3, <3>2, <3>4, <3>5
    <2> QED
        BY <2>2, <2>3
<1>6. ASSUME NEW x \in Range(nodes), NEW h \in 0 .. level[x], TooLong(x, h)' PROVE TooLong(x, h)
    <2>1. MaxLinks(h)' = MaxLinks(h) /\ Len(friends'[x][h]) > MaxLinks(h)
        BY <1>1, <1>6 DEF TooLong, MaxLinks, SameNodes
    <2>2. h \in Nat /\ h <= level[x]
        <3>1. level[x] \in Nat
            BY <1>1, NodesAre
        <3> QED
            BY <3>1
    <2>3. MaxLinks(h) \in Nat /\ Len(friends[x][h]) \in Nat
        BY <1>1, <2>2, NodesAre, FriendsAre
    <2>4. friends'[x][h] = friends[x][h] \/ Len(friends'[x][h]) <= Len(friends[x][h])
        BY <1>4, <1>5
    <2>5. l \in DOMAIN friends[n] => Len(less) \in Nat
        <3> SUFFICES ASSUME l \in DOMAIN friends[n] PROVE Len(less) \in Nat
            OBVIOUS
        <3> DEFINE S == Range(nodes)
                   s == friends[n][l]
        <3>1. s \in Seq(S)
            BY <1>3
        <3> HIDE DEF S, s
        <3>2. RemoveFirst(s, id) \in Seq(S)
            BY <3>1, RemoveFirstIs
        <3> QED
            BY <3>2 DEF s, less
    <2>6. Len(friends'[x][h]) \in Nat
        BY <1>5, <2>3, <2>5
    <2> QED
        BY <2>1, <2>3, <2>4, <2>6 DEF TooLong
<1>7. \A x, h : ~WillPrune(t, x, h)
    BY <1>2 DEF WillPrune, Linking
<1>8. Range(nodes)' = Range(nodes) /\ level' = level
    BY <1>1 DEF SameNodes
<1> QED
    BY <1>1, <1>2, <1>6, <1>7, <1>8, LongStep, SameNodesKept

LEMMA LongKept == ASSUME TypeInv, LongAreSeen, [Next]_vars PROVE LongAreSeen'
<1>1. ASSUME NEW t \in Threads, NEW id \in Ids, NEW v \in Vectors[id], NEW l \in Levels(id),
             InsertNew(t, id, v, l)
      PROVE  LongAreSeen'
    BY <1>1, LongInsertNew
<1>2. ASSUME NEW t \in Threads, NEW id \in Ids, NEW v \in Vectors[id], InsertKnown(t, id, v)
      PROVE  LongAreSeen'
    <2>1. SameNodes /\ friends' = friends /\ pc' = pc /\ job' = job
        BY <1>2 DEF InsertKnown, SameNodes, threads
    <2>2. Only(t)
        BY <2>1 DEF Only, TypeInv, Locals
    <2>3. \A n, l : WillPrune(t, n, l) => WillPrune(t, n, l)'
        BY <2>1 DEF WillPrune
    <2> QED
        BY <2>1, <2>2, <2>3, LongQuiet
<1>3. ASSUME NEW t \in Threads, NEW q \in Queries, Search(t, q) PROVE LongAreSeen'
    <2>1. SameNodes /\ friends' = friends
        BY <1>3 DEF Search, SameNodes, graph
    <2>2. Only(t) /\ pc[t] \notin Linking
        BY <1>3, SearchStep DEF SearchDoes, Linking
    <2> QED
        BY <2>1, <2>2, LongIdle
<1>4. ASSUME NEW t \in Threads, NEW id \in Deletable, DeleteBegin(t, id) PROVE LongAreSeen'
    <2>1. SameNodes /\ friends' = friends
        BY <1>4 DEF DeleteBegin, SameNodes
    <2>2. Only(t) /\ pc[t] \notin Linking
        BY <1>4, DeleteBeginStep DEF DeleteBeginDoes, Linking
    <2> QED
        BY <2>1, <2>2, LongIdle
<1>5. ASSUME NEW t \in Threads, Expand(t) \/ Descend(t) \/ Gathered(t) PROVE LongAreSeen'
    <2>1. SameNodes /\ friends' = friends
        BY <1>5 DEF Expand, Descend, Gathered, SameNodes, graph
    <2>2. Only(t) /\ pc[t] \notin Linking
        BY <1>5, ExpandStep, DescendStep, GatheredStep DEF ExpandDoes, DescendDoes, GatheredDoes, Linking
    <2> QED
        BY <2>1, <2>2, LongIdle
<1>6. ASSUME NEW t \in Threads, LockFirst(t) PROVE LongAreSeen'
    <2>1. SameNodes /\ friends' = friends
        BY <1>6 DEF LockFirst, SameNodes, graph
    <2>2. Only(t) /\ pc[t] = "connect" /\ pc'[t] = "locking" /\ job'[t] = job[t]
        BY <1>6, LockFirstStep DEF LockFirstDoes
    <2>3. \A n, l : WillPrune(t, n, l) => WillPrune(t, n, l)'
        BY <2>2 DEF WillPrune, Linking
    <2> QED
        BY <2>1, <2>2, <2>3, LongQuiet
<1>7. ASSUME NEW t \in Threads, NextLevel(t) \/ Finish(t) PROVE LongAreSeen'
    <2>1. SameNodes /\ friends' = friends /\ pc[t] = "prune" /\ job[t].prune = <<>>
        BY <1>7 DEF NextLevel, Finish, SameNodes, graph
    <2>2. Only(t)
        BY <1>7, NextLevelStep, ReturnStep DEF NextLevelDoes, Finish, ReturnDoes
    <2>3. \A n, l : ~WillPrune(t, n, l)
        BY <2>1, EmptyRange DEF WillPrune
    <2> QED
        BY <2>1, <2>2, <2>3, LongQuiet
<1>8. ASSUME NEW t \in Threads, Answer(t) \/ DeleteLevel(t) \/ DeleteEnd(t) PROVE LongAreSeen'
    <2>1. SameNodes /\ friends' = friends
        BY <1>8 DEF Answer, DeleteLevel, DeleteEnd, SameNodes, graph
    <2>2. Only(t)
        BY <1>8, DeleteLevelStep, ReturnStep DEF Answer, DeleteEnd, DeleteDoes, ReturnDoes
    <2>3. pc[t] \notin Linking
        BY <1>8 DEF Answer, Found, DeleteLevel, DeleteEnd, Linking
    <2> QED
        BY <2>1, <2>2, <2>3, LongIdle
<1>9. ASSUME NEW t \in Threads, Step(t) PROVE LongAreSeen'
    BY <1>5, <1>6, <1>7, <1>8, <1>9, LongLink, LongConnected, LongPruneRead, LongPruneWrite,
       LongDeleteNext DEF Step
<1>10. ASSUME UNCHANGED vars PROVE LongAreSeen'
    BY <1>10 DEF LongAreSeen, TooLong, WillPrune, MaxLinks, vars, graph, threads
<1> QED
    BY <1>1, <1>2, <1>3, <1>4, <1>9, <1>10 DEF Next

LEMMA LongInvariant == Spec => []LongAreSeen
<1>1. Init => LongAreSeen
    BY EmptyRange DEF Init, LongAreSeen
<1>2. TypeInv /\ LongAreSeen /\ [Next]_vars => LongAreSeen'
    BY LongKept
<1> QED
    BY <1>1, <1>2, TypeInvariant, PTL DEF Spec

(* When no goroutine is inserting, no list is over its limit, neither one  *)
(* that several insertions made longer at the same time, nor that of the   *)
(* inserted node: addConnections and pruneConnections leave none behind.   *)
THEOREM DegreesBounded == Spec => []DegreeBounded
<1>1. TypeInv /\ LongAreSeen => DegreeBounded
    <2> SUFFICES ASSUME TypeInv, LongAreSeen, AllIdle, NEW n \in Range(nodes), NEW l \in DOMAIN friends[n]
                 PROVE  Len(friends[n][l]) <= MaxLinks(l)
        BY DEF DegreeBounded
    <2>1. GraphFits /\ FriendsFit
        BY DEF TypeInv
    <2>2. l \in 0 .. level[n] /\ level[n] \in Nat
        BY <2>1, NodesAre DEF FriendsFit
    <2>3. l \in Nat /\ l <= level[n]
        BY <2>2
    <2>4. Len(friends[n][l]) \in Nat /\ MaxLinks(l) \in Nat
        BY <2>1, <2>3, FriendsAre, NodesAre
    <2>5. \A t \in Threads : ~WillPrune(t, n, l)
        BY DEF AllIdle, WillPrune, Linking
    <2>6. ~TooLong(n, l)
        BY <2>2, <2>5 DEF LongAreSeen
    <2> QED
        BY <2>4, <2>6 DEF TooLong
<1> QED
    BY <1>1, TypeInvariant, LongInvariant, PTL

-----------------------------------------------------------------------------
(* Locks: the lock of a node is held by the goroutine that waits for the   *)
(* second node of its link, that of the graph by the one that deletes.     *)

LocksFit ==
    /\ \A n \in Ids : lock[n] # NoThread => pc[lock[n]] = "locking" /\ n = Order(lock[n])[1]
    /\ mu # NoThread => pc[mu] = "delete"

(* Steps of a goroutine that holds no lock and takes none.                 *)
LEMMA LocksQuiet ==
    ASSUME TypeInv, LocksFit, NEW t \in Threads, Only(t), lock' = lock, mu' = mu,
           pc[t] \notin {"locking", "delete"} \/ (pc[t] = "delete" /\ pc'[t] = "delete")
    PROVE  LocksFit'
<1>1. \A n \in Ids : lock[n] \in Threads \cup {NoThread}
    BY DEF TypeInv, LockTypes
<1>2. ASSUME NEW n \in Ids, lock[n] # NoThread
      PROVE  pc'[lock[n]] = "locking" /\ n = Order(lock[n])[1]'
    <2>1. lock[n] \in Threads /\ pc[lock[n]] = "locking" /\ n = Order(lock[n])[1]
        BY <1>1, <1>2 DEF LocksFit
    <2>2. lock[n] # t
        BY <2>1
    <2>3. pc'[lock[n]] = pc[lock[n]] /\ job'[lock[n]] = job[lock[n]]
        BY <2>1, <2>2 DEF Only
    <2> QED
        BY <2>1, <2>3 DEF Order
<1>3. mu # NoThread => pc'[mu] = "delete"
    BY DEF LocksFit, Only, TypeInv, LockTypes
<1> QED
    BY <1>2, <1>3 DEF LocksFit, Order

LEMMA OrderIs ==
    ASSUME TypeInv, NEW t \in Threads, pc[t] \in {"connect", "locking"}, job[t].todo # <<>>
    PROVE  /\ Order(t)[1] \in Ids /\ Order(t)[2] \in Ids /\ Order(t)[1] < Order(t)[2]
           /\ Order(t)[1] \in Nat /\ Order(t)[2] \in Nat
<1>1. JobFits(t) /\ job[t].todo \in Seq(Ids) /\ GraphFits
    BY JobHas DEF TypeInv, JobsFit
<1>2. job[t].id \in Range(nodes) /\ job[t].id \notin Range(job[t].todo)
    BY <1>1 DEF JobFits, Linking
<1>3. job[t].id \in Ids /\ Ids \subseteq Nat
    BY <1>1, <1>2, NodesAre
<1>4. Head(job[t].todo) \in Ids /\ Head(job[t].todo) # job[t].id
    BY <1>1, <1>2, TailIs
<1>5. Order(t) = IF job[t].id < Head(job[t].todo) THEN <<job[t].id, Head(job[t].todo)>>
                 ELSE <<Head(job[t].todo), job[t].id>>
    BY DEF Order
<1>6. job[t].id < Head(job[t].todo) \/ Head(job[t].todo) < job[t].id
    <2>1. job[t].id \in Nat /\ Head(job[t].todo) \in Nat
        BY <1>3, <1>4
    <2> QED
        BY <1>4, <2>1
<1>7. CASE job[t].id < Head(job[t].todo)
    <2>1. Order(t)[1] = job[t].id /\ Order(t)[2] = Head(job[t].todo)
        BY <1>5, <1>7
    <2> QED
        BY <1>3, <1>4, <1>7, <2>1
<1>8. CASE ~(job[t].id < Head(job[t].todo))
    <2>1. Order(t)[1] = Head(job[t].todo) /\ Order(t)[2] = job[t].id
        BY <1>5, <1>8
    <2> QED
        BY <1>3, <1>4, <1>6, <1>8, <2>1
<1> QED
    BY <1>7, <1>8

LEMMA LocksLockFirst ==
    ASSUME TypeInv, LocksFit, NEW t \in Threads, LockFirst(t) PROVE LocksFit'
<1>1. Only(t) /\ pc[t] = "connect" /\ pc'[t] = "locking" /\ job'[t] = job[t] /\ job[t].todo # <<>>
    BY LockFirstStep DEF LockFirstDoes
<1>2. lock' = [lock EXCEPT ![Order(t)[1]] = t] /\ mu' = mu /\ lock \in [Ids -> Threads \cup {NoThread}]
    BY DEF LockFirst, TypeInv, LockTypes
<1>3. Order(t)[1] \in Ids
    BY <1>1, OrderIs
<1>4. \A u \in Threads : job'[u] = job[u]
    BY <1>1 DEF Only
<1>5. ASSUME NEW n \in Ids, lock'[n] # NoThread
      PROVE  pc'[lock'[n]] = "locking" /\ n = Order(lock[n])[1]'
    <2>1. CASE n = Order(t)[1]
        <3>1. lock'[n] = t
            BY <1>2, <1>3, <2>1
        <3> QED
            BY <1>1, <2>1, <3>1 DEF Order
    <2>2. CASE n # Order(t)[1]
        <3>1. lock'[n] = lock[n] /\ lock[n] \in Threads /\ pc[lock[n]] = "locking" /\ n = Order(lock[n])[1]
            BY <1>2, <1>5, <2>2 DEF LocksFit
        <3>2. lock[n] # t
            BY <1>1, <3>1
        <3>3. pc'[lock[n]] = pc[lock[n]] /\ job'[lock[n]] = job[lock[n]]
            BY <1>1, <3>1, <3>2 DEF Only
        <3> QED
            BY <3>1, <3>3 DEF Order
    <2> QED
        BY <2>1, <2>2
<1>6. mu # NoThread => pc'[mu] = "delete"
    BY <1>1 DEF LocksFit, Only, TypeInv, LockTypes
<1> QED
    BY <1>2, <1>5, <1>6 DEF LocksFit, Order

LEMMA LocksLink ==
    ASSUME TypeInv, LocksFit, NEW t \in Threads, Link(t) PROVE LocksFit'
<1>1. Only(t) /\ pc[t] = "locking" /\ job[t].todo # <<>>
    BY LinkStep DEF LinkDoes
<1>2. lock' = [lock EXCEPT ![Order(t)[1]] = NoThread] /\ mu' = mu /\ lock \in [Ids -> Threads \cup {NoThread}]
    BY DEF Link, TypeInv, LockTypes
<1>3. Order(t)[1] \in Ids
    BY <1>1, OrderIs
<1>4. ASSUME NEW n \in Ids, lock'[n] # NoThread
      PROVE  pc'[lock'[n]] = "locking" /\ n = Order(lock[n])[1]'
    <2>1. n # Order(t)[1]
        BY <1>2, <1>3, <1>4
    <2>2. lock'[n] = lock[n] /\ lock[n] \in Threads /\ pc[lock[n]] = "locking" /\ n = Order(lock[n])[1]
        BY <1>2, <1>4, <2>1 DEF LocksFit
    <2>3. lock[n] # t
        BY <2>1, <2>2
    <2>4. pc'[lock[n]] = pc[lock[n]] /\ job'[lock[n]] = job[lock[n]]
        BY <1>1, <2>2, <2>3 DEF Only
    <2> QED
        BY <2>2, <2>4 DEF Order
<1>5. mu # NoThread => pc'[mu] = "delete"
    BY <1>1 DEF LocksFit, Only, TypeInv, LockTypes
<1> QED
    BY <1>2, <1>4, <1>5 DEF LocksFit, Order

(* DeleteBegin and DeleteEnd: the lock of the graph.                       *)
LEMMA LocksMu ==
    ASSUME TypeInv, LocksFit, NEW t \in Threads, Only(t), lock' = lock, pc[t] # "locking",
           (mu' = t /\ pc'[t] = "delete") \/ mu' = NoThread
    PROVE  LocksFit'
<1>1. ASSUME NEW n \in Ids, lock[n] # NoThread
      PROVE  pc'[lock[n]] = "locking" /\ n = Order(lock[n])[1]'
    <2>1. lock[n] \in Threads /\ pc[lock[n]] = "locking" /\ n = Order(lock[n])[1]
        BY <1>1 DEF LocksFit, TypeInv, LockTypes
    <2>2. pc'[lock[n]] = pc[lock[n]] /\ job'[lock[n]] = job[lock[n]]
        BY <2>1 DEF Only
    <2> QED
        BY <2>1, <2>2 DEF Order
<1>2. mu' # NoThread => pc'[mu'] = "delete"
    OBVIOUS
<1> QED
    BY <1>1, <1>2 DEF LocksFit, Order

LEMMA LocksKept == ASSUME TypeInv, LocksFit, [Next]_vars PROVE LocksFit'
<1>1. ASSUME NEW t \in Threads, NEW id \in Ids, NEW v \in Vectors[id], NEW l \in Levels(id),
             InsertNew(t, id, v, l)
      PROVE  LocksFit'
    <2>1. Only(t) /\ pc[t] = "idle"
        BY <1>1, InsertNewStep DEF InsertNewDoes
    <2>2. lock' = lock /\ mu' = mu
        BY <1>1 DEF InsertNew
    <2> QED
        BY <2>1, <2>2, LocksQuiet
<1>2. ASSUME NEW t \in Threads, NEW id \in Ids, NEW v \in Vectors[id], InsertKnown(t, id, v)
      PROVE  LocksFit'
    <2>1. lock' = lock /\ mu' = mu /\ pc' = pc /\ job' = job
        BY <1>2 DEF InsertKnown, threads
    <2> QED
        BY <2>1 DEF LocksFit, Order
<1>3. ASSUME NEW t \in Threads, NEW q \in Queries, Search(t, q) PROVE LocksFit'
    <2>1. Only(t) /\ pc[t] = "idle"
        BY <1>3, SearchStep DEF SearchDoes
    <2>2. lock' = lock /\ mu' = mu
        BY <1>3 DEF Search
    <2> QED
        BY <2>1, <2>2, LocksQuiet
<1>4. ASSUME NEW t \in Threads, NEW id \in Deletable, DeleteBegin(t, id) PROVE LocksFit'
    <2>1. Only(t) /\ pc[t] = "idle" /\ pc'[t] = "delete"
        BY <1>4, DeleteBeginStep DEF DeleteBeginDoes
    <2>2. lock' = lock /\ mu' = t
        BY <1>4 DEF DeleteBegin
    <2> QED
        BY <2>1, <2>2, LocksMu
<1>5. ASSUME NEW t \in Threads, Expand(t) \/ Descend(t) \/ Gathered(t) PROVE LocksFit'
    <2>1. lock' = lock /\ mu' = mu
        BY <1>5 DEF Expand, Descend, Gathered
    <2>2. Only(t) /\ pc[t] \notin {"locking", "delete"}
        BY <1>5, ExpandStep, DescendStep, GatheredStep DEF ExpandDoes, DescendDoes, GatheredDoes
    <2> QED
        BY <2>1, <2>2, LocksQuiet
<1>6. ASSUME NEW t \in Threads, Connected(t) \/ PruneRead(t) \/ PruneWrite(t) PROVE LocksFit'
    <2>1. lock' = lock /\ mu' = mu
        BY <1>6 DEF Connected, PruneRead, PruneWrite
    <2>2. Only(t) /\ pc[t] \notin {"locking", "delete"}
        BY <1>6, ConnectedStep, PruneReadStep, PruneWriteStep
           DEF ConnectedDoes, PruneReadDoes, PruneWriteDoes
    <2> QED
        BY <2>1, <2>2, LocksQuiet
<1>7. ASSUME NEW t \in Threads, NextLevel(t) \/ Finish(t) \/ Answer(t) PROVE LocksFit'
    <2>1. lock' = lock /\ mu' = mu /\ pc[t] \notin {"locking", "delete"}
        BY <1>7 DEF NextLevel, Finish, Answer, Found
    <2>2. Only(t)
        BY <1>7, NextLevelStep, ReturnStep DEF NextLevelDoes, Finish, Answer, ReturnDoes
    <2> QED
        BY <2>1, <2>2, LocksQuiet
<1>8. ASSUME NEW t \in Threads, DeleteNext(t) \/ DeleteLevel(t) PROVE LocksFit'
    <2>1. lock' = lock /\ mu' = mu
        BY <1>8 DEF DeleteNext, DeleteLevel
    <2>2. Only(t) /\ pc[t] = "delete" /\ pc'[t] = "delete"
        BY <1>8, DeleteNextStep, DeleteLevelStep DEF DeleteDoes
    <2> QED
        BY <2>1, <2>2, LocksQuiet
<1>9. ASSUME NEW t \in Threads, DeleteEnd(t) PROVE LocksFit'
    <2>1. lock' = lock /\ mu' = NoThread /\ pc[t] # "locking"
        BY <1>9 DEF DeleteEnd
    <2>2. Only(t)
        BY <1>9, ReturnStep DEF DeleteEnd, ReturnDoes
    <2> QED
        BY <2>1, <2>2, LocksMu
<1>10. ASSUME NEW t \in Threads, Step(t) PROVE LocksFit'
    BY <1>5, <1>6, <1>7, <1>8, <1>9, <1>10, LocksLockFirst, LocksLink DEF Step
<1>11. ASSUME UNCHANGED vars PROVE LocksFit'
    BY <1>11 DEF LocksFit, Order, vars, threads
<1> QED
    BY <1>1, <1>2, <1>3, <1>4, <1>10, <1>11 DEF Next

LEMMA LocksInvariant == Spec => []LocksFit
<1>1. Init => LocksFit
    BY DEF Init, LocksFit
<1>2. TypeInv /\ LocksFit /\ [Next]_vars => LocksFit'
    BY LocksKept
<1> QED
    BY <1>1, <1>2, TypeInvariant, PTL DEF Spec

(* However many goroutines insert and delete, they never all wait for each *)
(* other: of the nodes whose locks are held within a circle the greatest   *)
(* is held by one that waits for a greater one.                            *)
THEOREM NeverCircular == Spec => []NoCircularWait
<1>1. TypeInv /\ LocksFit => NoCircularWait
    <2> SUFFICES ASSUME TypeInv, LocksFit, NEW S \in SUBSET Threads, S # {},
                        \A t \in S : Wants(t) \cap S # {}
                 PROVE  FALSE
        BY DEF NoCircularWait
    <2> DEFINE Held == {n \in Ids : lock[n] \in S}
    <2>1. NoThread \notin S
        BY Bounds
    <2>2. ASSUME NEW t \in S, ~(pc[t] = "prune" /\ job[t].prune = <<>>)
          PROVE  \E n \in WantedNodes(t) : n \in Held
        <3>1. Wants(t) = {lock[n] : n \in WantedNodes(t)}
            BY <2>2 DEF Wants
        <3>2. PICK n \in WantedNodes(t) : lock[n] \in S
            BY <3>1
        <3> QED
            BY <3>2 DEF WantedNodes
    <2>3. Held # {}
        <3>1. PICK t \in S : TRUE
            OBVIOUS
        <3>2. CASE ~(pc[t] = "prune" /\ job[t].prune = <<>>)
            BY <2>2, <3>2
        <3>3. CASE pc[t] = "prune" /\ job[t].prune = <<>>
            <4>1. PICK x \in Wants(t) : x \in S
                OBVIOUS
            <4>2. CASE \E n \in WantedNodes(t) : x = lock[n]
                BY <4>1, <4>2 DEF WantedNodes
            <4>3. CASE x = mu
                <5>1. mu \in S /\ pc[mu] = "delete"
                    BY <2>1, <4>1, <4>3 DEF LocksFit
                <5> QED
                    BY <2>2, <5>1
            <4> QED
                BY <3>3, <4>2, <4>3 DEF Wants
        <3> QED
            BY <3>2, <3>3
    <2>4. Held \in SUBSET Nat /\ IsFiniteSet(Held)
        BY Bounds, FS_Subset
    <2>5. PICK n \in Held : \A m \in Held : m <= n
        <3> HIDE DEF Held
        <3> QED
            BY <2>3, <2>4, GreatestElement
    <2>6. lock[n] \in S /\ n \in Ids /\ pc[lock[n]] = "locking" /\ n = Order(lock[n])[1]
        BY <2>1, <2>5 DEF LocksFit
    <2>7. PICK t \in S : t = lock[n]
        BY <2>6
    <2>8. pc[t] = "locking" /\ n = Order(t)[1] /\ t \in Threads
        BY <2>6, <2>7
    <2>9. job[t].todo # <<>>
        BY <2>8 DEF TypeInv, JobsFit, JobFits
    <2>10. Order(t)[1] < Order(t)[2] /\ Order(t)[1] \in Nat /\ Order(t)[2] \in Nat
        BY <2>8, <2>9, OrderIs
    <2>11. Order(t)[2] \in Held
        BY <2>2, <2>8 DEF WantedNodes
    <2> QED
        BY <2>5, <2>8, <2>10, <2>11
<1> QED
    BY <1>1, TypeInvariant, LocksInvariant, PTL

-----------------------------------------------------------------------------
(* What can be reached at level 0.  A closed set of nodes is one that no   *)
(* link of level 0 leaves; as links are mutual, so is what is outside it.  *)
(* A node is joined once its level 0 is linked: then each closed set with  *)
(* the first node in it has the joined nodes too.  With two levels there   *)
(* may be one exposed node: the first that has level 1, which insertions   *)
(* begin level 1 at though it may not be joined yet; what a goroutine met  *)
(* is in each closed set with the first and the exposed node.  While the   *)
(* exposed node itself is inserted, it has met joined nodes only.          *)

Inserts(t) == pc[t] \notin {"idle", "delete"} /\ job[t].id # NoNode

(* Two levels, or insertions that do not overlap each other, which is how  *)
(* a database behind its lock calls the graph; searches may overlap them.  *)
Orderly == LevelCap <= 1 \/ \A t, u \in Threads : Inserts(t) /\ Inserts(u) => t = u

Unlinked(t) ==
    /\ job[t].id # NoNode
    /\ pc[t] = "descend" \/ (pc[t] \in {"gather", "connect", "locking"} /\ job[t].at = 0)
Joined == {n \in Range(nodes) : \A t \in Threads : Unlinked(t) => job[t].id # n}
Exposed == IF LevelCap > 1 THEN {} ELSE {n \in Range(nodes) : IsFirst(n, 1)}

Inserters == \A t, u \in Threads : Inserts(t) /\ Inserts(u) /\ job[t].id = job[u].id => t = u
EntryJoined == entryPoint # NoNode => entryPoint \in Joined
Advances(t) ==
    /\ pc[t] = "delete" => trimmed
    /\ job[t].id = NoNode => /\ pc[t] = "descend" => job[t].at >= 1
                             /\ pc[t] = "gather" => job[t].at = 0
                             /\ pc[t] \notin Linking
    /\ pc[t] = "descend" /\ job[t].id \in Exposed => job[t].at = 0
ReachBase == Inserters /\ done \subseteq Joined /\ EntryJoined /\ \A t \in Threads : Advances(t)

LEMMA ExposedStays ==
    ASSUME SameNodes PROVE Exposed' = Exposed
<1>1. \A n : IsFirst(n, 1)' = IsFirst(n, 1)
    BY DEF SameNodes, IsFirst
<1> QED
    BY <1>1 DEF Exposed, SameNodes

(* At most one node is exposed.                                            *)
LEMMA OneExposed ==
    ASSUME GraphFits, NEW x \in Exposed, NEW y \in Exposed PROVE x = y
<1>1. Len(nodes) \in Nat /\ \A n \in Ids : level[n] \in Nat
    BY NodesAre
<1>2. PICK i \in 1 .. Len(nodes) :
          x = nodes[i] /\ level[x] >= 1 /\ \A h \in 1 .. i - 1 : level[nodes[h]] < 1
    BY DEF Exposed, IsFirst
<1>3. PICK k \in 1 .. Len(nodes) :
          y = nodes[k] /\ level[y] >= 1 /\ \A h \in 1 .. k - 1 : level[nodes[h]] < 1
    BY DEF Exposed, IsFirst
<1>4. i \in Nat /\ k \in Nat /\ level[x] \in Nat /\ level[y] \in Nat
    BY <1>1, NodesAre DEF Exposed
<1>5. ~(i < k)
    <2> SUFFICES ASSUME i < k PROVE FALSE
        OBVIOUS
    <2>1. i \in 1 .. k - 1
        BY <1>4
    <2> QED
        BY <1>2, <1>3, <1>4, <2>1
<1>6. ~(k < i)
    <2> SUFFICES ASSUME k < i PROVE FALSE
        OBVIOUS
    <2>1. k \in 1 .. i - 1
        BY <1>4
    <2> QED
        BY <1>2, <1>3, <1>4, <2>1
<1> QED
    BY <1>2, <1>3, <1>4, <1>5, <1>6

LEMMA InsertersRegistered ==
    ASSUME TypeInv, NEW t \in Threads, Inserts(t) PROVE job[t].id \in Range(nodes) /\ job[t].id \in Ids
<1>1. JobFits(t) /\ pc[t] \in Steps /\ GraphFits
    BY JobHas DEF TypeInv, JobsFit
<1>2. job[t].id \in Range(nodes)
    BY <1>1 DEF Inserts, JobFits, Linking, Steps
<1> QED
    BY <1>1, <1>2, NodesAre

LEMMA UnlinkedInserts == \A t \in Threads : Unlinked(t) => Inserts(t)
    BY DEF Unlinked, Inserts

(* The node of a goroutine whose level 0 is linked is joined.              *)
LEMMA OwnJoined ==
    ASSUME TypeInv, ReachBase, NEW t \in Threads, Inserts(t), ~Unlinked(t)
    PROVE  job[t].id \in Joined
<1>1. job[t].id \in Range(nodes)
    BY InsertersRegistered
<1>2. \A u \in Threads : Unlinked(u) => job[u].id # job[t].id
    BY UnlinkedInserts DEF ReachBase, Inserters
<1> QED
    BY <1>1, <1>2 DEF Joined

LEMMA JoinedStays ==
    ASSUME NEW t \in Threads, Only(t), Range(nodes) \subseteq Range(nodes)',
           Unlinked(t)' => Unlinked(t) /\ job'[t].id = job[t].id
    PROVE  Joined \subseteq Joined'
<1>1. \A u \in Threads : Unlinked(u)' => Unlinked(u) /\ job'[u].id = job[u].id
    BY DEF Only, Unlinked
<1> QED
    BY <1>1 DEF Joined

(* A step of one goroutine that registers no node.                         *)
LEMMA BaseStep ==
    ASSUME TypeInv, ReachBase, NEW t \in Threads, Only(t), SameNodes,
           Inserts(t)' => Inserts(t) /\ job'[t].id = job[t].id,
           Unlinked(t)' => Unlinked(t) /\ job'[t].id = job[t].id,
           Advances(t)', trimmed => trimmed',
           done' \subseteq done \cup Joined, entryPoint' = entryPoint \/ entryPoint' \in Joined
    PROVE  ReachBase' /\ Joined \subseteq Joined'
<1>1. Joined \subseteq Joined'
    BY JoinedStays DEF SameNodes
<1>2. Exposed' = Exposed
    BY ExposedStays
<1>3. Inserters'
    <2>1. \A u \in Threads : Inserts(u)' => Inserts(u) /\ job'[u].id = job[u].id
        BY DEF Only, Inserts
    <2> QED
        BY <2>1 DEF ReachBase, Inserters
<1>4. ASSUME NEW u \in Threads PROVE Advances(u)'
    <2>1. CASE u = t
        BY <2>1
    <2>2. CASE u # t
        <3>1. pc'[u] = pc[u] /\ job'[u] = job[u] /\ Advances(u)
            BY <2>2 DEF Only, ReachBase
        <3> QED
            BY <1>2, <3>1 DEF Advances
    <2> QED
        BY <2>1, <2>2
<1>5. done' \subseteq Joined'
    BY <1>1 DEF ReachBase
<1>6. EntryJoined'
    BY <1>1 DEF ReachBase, EntryJoined
<1> QED
    BY <1>1, <1>3, <1>4, <1>5, <1>6 DEF ReachBase

LEMMA BaseExpand ==
    ASSUME TypeInv, ReachBase, NEW t \in Threads, Expand(t) PROVE ReachBase' /\ Joined \subseteq Joined'
<1>1. ExpandDoes(t) /\ SameNodes /\ done' = done /\ trimmed' = trimmed /\ entryPoint' = entryPoint
    BY ExpandStep DEF Expand, SameNodes, graph, history, entry
<1>2. /\ Only(t) /\ pc[t] \in {"descend", "gather"} /\ pc'[t] = pc[t]
      /\ job'[t].id = job[t].id /\ job'[t].at = job[t].at
    BY <1>1 DEF ExpandDoes
<1>3. Advances(t)'
    BY <1>1, <1>2, ExposedStays DEF Advances, ReachBase
<1> QED
    BY <1>1, <1>2, <1>3, BaseStep DEF Inserts, Unlinked

LEMMA BaseDescend ==
    ASSUME TypeInv, ReachBase, NEW t \in Threads, Descend(t) PROVE ReachBase' /\ Joined \subseteq Joined'
<1>1. DescendDoes(t) /\ SameNodes /\ done' = done /\ trimmed' = trimmed /\ entryPoint' = entryPoint
    BY DescendStep DEF Descend, SameNodes, graph, history, entry
<1>2. Only(t) /\ pc[t] = "descend" /\ job'[t].id = job[t].id /\ job[t].at \in Nat
    BY <1>1, JobHas DEF DescendDoes, TypeInv
<1>3. \/ /\ pc'[t] = "descend" /\ job'[t].at = job[t].at - 1
         /\ job[t].at > IF job[t].id = NoNode THEN 1 ELSE 0
      \/ pc'[t] = "gather" /\ job'[t].at = 0
    BY <1>1, StartsHas DEF DescendDoes
<1>4. Advances(t)'
    <2>1. Exposed' = Exposed /\ Advances(t)
        BY <1>1, ExposedStays DEF ReachBase
    <2> QED
        BY <1>2, <1>3, <2>1 DEF Advances, Linking
<1> QED
    BY <1>1, <1>2, <1>3, <1>4, BaseStep DEF Inserts, Unlinked

(* The steps of an insertion that do not search.                           *)
LEMMA BaseLinking ==
    ASSUME TypeInv, ReachBase, NEW t \in Threads, Only(t), SameNodes, trimmed => trimmed',
           done' = done, entryPoint' = entryPoint, Inserts(t), pc'[t] \in Linking,
           job'[t].id = job[t].id, Unlinked(t)' => Unlinked(t)
    PROVE  ReachBase' /\ Joined \subseteq Joined'
<1>1. Advances(t)'
    BY DEF Advances, Inserts, Linking
<1> QED
    BY <1>1, BaseStep

LEMMA BaseReturn ==
    ASSUME TypeInv, ReachBase, NEW t \in Threads, ReturnDoes(t), SameNodes, trimmed' = trimmed,
           done' \subseteq done \cup Joined, entryPoint' = entryPoint \/ entryPoint' \in Joined
    PROVE  ReachBase' /\ Joined \subseteq Joined'
<1>1. Only(t) /\ pc'[t] = "idle"
    BY DEF ReturnDoes
<1>2. Advances(t)' /\ ~Inserts(t)' /\ ~Unlinked(t)'
    BY <1>1 DEF Advances, Inserts, Unlinked, Linking
<1> QED
    BY <1>1, <1>2, BaseStep

LEMMA BaseNextLevel ==
    ASSUME TypeInv, ReachBase, NEW t \in Threads, NextLevel(t) PROVE ReachBase' /\ Joined \subseteq Joined'
<1>1. NextLevelDoes(t) /\ SameNodes /\ done' = done /\ trimmed' = trimmed /\ Raise(job[t].id, job[t].at)
    BY NextLevelStep DEF NextLevel, SameNodes, graph, history
<1>2. /\ Only(t) /\ pc[t] = "prune" /\ pc'[t] = "gather" /\ job'[t].id = job[t].id
      /\ job[t].id \in Range(nodes) /\ job'[t].at = job[t].at + 1 /\ job[t].at \in Nat
    BY <1>1, StartsHas, JobHas DEF NextLevelDoes, TypeInv
<1>3. job[t].id # NoNode
    BY <1>2, NodesAre DEF TypeInv
<1>4. Inserts(t) /\ ~Unlinked(t) /\ ~Unlinked(t)'
    <2>1. job'[t].at # 0
        BY <1>2
    <2> QED
        BY <1>2, <1>3, <2>1 DEF Inserts, Unlinked
<1>5. entryPoint' = entryPoint \/ entryPoint' \in Joined
    BY <1>1, <1>4, OwnJoined DEF Raise, entry
<1>6. Advances(t)'
    BY <1>2, <1>3 DEF Advances
<1> QED
    BY <1>1, <1>2, <1>4, <1>5, <1>6, BaseStep

LEMMA BaseFinish ==
    ASSUME TypeInv, ReachBase, NEW t \in Threads, Finish(t) PROVE ReachBase' /\ Joined \subseteq Joined'
<1>1. /\ ReturnDoes(t) /\ SameNodes /\ trimmed' = trimmed /\ Raise(job[t].id, job[t].at)
      /\ done' = done \cup {job[t].id} /\ pc[t] = "prune"
    BY ReturnStep DEF Finish, SameNodes, graph
<1>2. job[t].id \in Range(nodes) /\ job[t].id # NoNode
    <2>1. job[t].id \in Range(nodes)
        BY <1>1 DEF TypeInv, JobsFit, JobFits, Linking
    <2> QED
        BY <2>1, NodesAre DEF TypeInv
<1>3. job[t].id \in Joined
    BY <1>1, <1>2, OwnJoined DEF Inserts, Unlinked
<1>4. entryPoint' = entryPoint \/ entryPoint' \in Joined
    BY <1>1, <1>3 DEF Raise, entry
<1> QED
    BY <1>1, <1>3, <1>4, BaseReturn

LEMMA BaseSearch ==
    ASSUME TypeInv, ReachBase, NEW t \in Threads, NEW q \in Queries, Search(t, q)
    PROVE  ReachBase' /\ Joined \subseteq Joined'
<1>1. SearchDoes(t) /\ SameNodes /\ done' = done /\ trimmed' = trimmed /\ entryPoint' = entryPoint
    BY SearchStep DEF Search, SameNodes, graph, history, entry
<1>2. /\ Only(t) /\ job'[t].id = NoNode /\ job'[t].at = maxLevel /\ maxLevel \in Nat
      /\ pc'[t] = IF maxLevel > 0 THEN "descend" ELSE "gather"
    BY <1>1, StartsHas, Bounds DEF SearchDoes, TypeInv, GraphFits
<1>3. Exposed' \subseteq Ids /\ NoNode \notin Ids
    BY <1>1, ExposedStays, NodesAre DEF Exposed, TypeInv
<1>4. Advances(t)'
    BY <1>2, <1>3 DEF Advances, Linking
<1>5. ~Inserts(t)' /\ ~Unlinked(t)'
    BY <1>2 DEF Inserts, Unlinked
<1> QED
    BY <1>1, <1>2, <1>4, <1>5, BaseStep

(* The steps of a deletion.                                                *)
LEMMA BaseDelete ==
    ASSUME TypeInv, ReachBase, NEW t \in Threads, Only(t), pc'[t] = "delete", SameNodes, trimmed',
           done' = done, entryPoint' = entryPoint
    PROVE  ReachBase' /\ Joined \subseteq Joined'
<1>1. Advances(t)' /\ ~Inserts(t)' /\ ~Unlinked(t)'
    BY DEF Advances, Inserts, Unlinked, Linking
<1> QED
    BY <1>1, BaseStep

LEMMA ExposedGrows ==
    ASSUME GraphFits, NEW id \in Ids, NEW l, InsertChanges(id, l)
    PROVE  /\ Exposed \subseteq Exposed' /\ Exposed' \subseteq Exposed \cup {id}
           /\ id \in Exposed' => \A n \in Range(nodes) : level[n] < 1
<1> DEFINE k == Len(nodes)
<1>1. /\ Len(nodes') = k + 1 /\ nodes'[k + 1] = id /\ \A i \in 1 .. k : nodes'[i] = nodes[i]
      /\ \A n \in Ids \ {id} : level'[n] = level[n]
      /\ id \notin Range(nodes) /\ Range(nodes)' = Range(nodes) \cup {id}
    BY DEF InsertChanges
<1>2. /\ k \in Nat /\ Range(nodes) \subseteq Ids /\ Range(nodes) = {nodes[i] : i \in 1 .. k}
      /\ \A n \in Ids : level[n] \in Nat
    BY NodesAre
<1>3. \A i \in 1 .. k : nodes'[i] = nodes[i] /\ level'[nodes[i]] = level[nodes[i]] /\ nodes[i] # id
    BY <1>1, <1>2
<1>4. ASSUME NEW n \in Range(nodes), IsFirst(n, 1) PROVE IsFirst(n, 1)'
    <2>1. PICK i \in 1 .. k : n = nodes[i] /\ level[n] >= 1 /\ \A h \in 1 .. i - 1 : level[nodes[h]] < 1
        BY <1>4 DEF IsFirst
    <2>2. i \in 1 .. Len(nodes') /\ \A h \in 1 .. i - 1 : h \in 1 .. k
        BY <1>1, <1>2
    <2>3. \A h \in 1 .. i - 1 : level'[nodes'[h]] < 1
        BY <1>3, <2>1, <2>2
    <2>4. n = nodes'[i] /\ level'[n] >= 1
        BY <1>3, <2>1
    <2> QED
        BY <2>2, <2>3, <2>4 DEF IsFirst
<1>5. ASSUME NEW n, IsFirst(n, 1)', n # id PROVE IsFirst(n, 1)
    <2>1. PICK i \in 1 .. Len(nodes') :
              n = nodes'[i] /\ level'[n] >= 1 /\ \A h \in 1 .. i - 1 : level'[nodes'[h]] < 1
        BY <1>5 DEF IsFirst
    <2>2. i \in 1 .. k /\ \A h \in 1 .. i - 1 : h \in 1 .. k
        BY <1>1, <1>2, <1>5, <2>1
    <2>3. \A h \in 1 .. i - 1 : level[nodes[h]] < 1
        BY <1>3, <2>1, <2>2
    <2>4. n = nodes[i] /\ level[n] >= 1
        BY <1>3, <2>1, <2>2
    <2> QED
        BY <2>2, <2>3, <2>4 DEF IsFirst
<1>6. ASSUME IsFirst(id, 1)', NEW n \in Range(nodes) PROVE level[n] < 1
    <2>1. PICK i \in 1 .. Len(nodes') : id = nodes'[i] /\ \A h \in 1 .. i - 1 : level'[nodes'[h]] < 1
        BY <1>6 DEF IsFirst
    <2>2. i = k + 1
        BY <1>1, <1>2, <1>3, <2>1
    <2>3. PICK h \in 1 .. k : n = nodes[h]
        BY <1>2
    <2>4. h \in 1 .. i - 1
        BY <1>2, <2>2
    <2> QED
        BY <1>3, <2>1, <2>3, <2>4
<1>7. \A n \in Exposed' : n \in Range(nodes)' /\ IsFirst(n, 1)'
    BY DEF Exposed
<1>8. Exposed \subseteq Exposed'
    BY <1>1, <1>4 DEF Exposed
<1>9. Exposed' \subseteq Exposed \cup {id}
    BY <1>1, <1>5, <1>7 DEF Exposed
<1> QED
    BY <1>6, <1>7, <1>8, <1>9

LEMMA BaseInsertNew ==
    ASSUME TypeInv, ReachBase, NEW t \in Threads, NEW id \in Ids, NEW v \in Vectors[id],
           NEW l \in Levels(id), InsertNew(t, id, v, l)
    PROVE  ReachBase' /\ Joined \subseteq Joined'
<1>1. InsertNewDoes(t, id, l) /\ InsertChanges(id, l) /\ GraphFits /\ trimmed' = trimmed
    BY InsertNewStep, InsertChangesStep DEF InsertNew, TypeInv
<1>2. /\ Only(t) /\ pc[t] = "idle" /\ id \notin Range(nodes) /\ Range(nodes)' = Range(nodes) \cup {id}
      /\ id # NoNode
    BY <1>1, Bounds DEF InsertNewDoes, InsertChanges
<1>3. /\ Exposed \subseteq Exposed' /\ Exposed' \subseteq Exposed \cup {id}
      /\ id \in Exposed' => \A n \in Range(nodes) : level[n] < 1
    BY <1>1, ExposedGrows
<1>4. \A u \in Threads : Inserts(u) => job[u].id \in Range(nodes) /\ job[u].id # id
    BY <1>2, InsertersRegistered
<1>5. ASSUME NEW u \in Threads, pc'[u] = pc[u], job'[u] = job[u]
      PROVE  Advances(u)' /\ Inserts(u)' = Inserts(u) /\ Unlinked(u)' = Unlinked(u)
    <2>1. Advances(u)
        BY DEF ReachBase
    <2>2. pc[u] = "descend" /\ job[u].id \in Exposed' => job[u].id \in Exposed
        <3>1. NoNode \notin Exposed'
            BY <1>2, <1>3, NodesAre DEF Exposed, TypeInv
        <3> QED
            BY <1>3, <1>4, <3>1 DEF Inserts
    <2> QED
        BY <1>1, <1>5, <2>1, <2>2 DEF Advances, Inserts, Unlinked
<1>6. CASE entryPoint = NoNode
    <2>1. pc' = pc /\ job' = job /\ entryPoint' = id /\ done' = done \cup {id}
        BY <1>1, <1>6 DEF InsertNewDoes, InsertNew
    <2>2. \A u \in Threads : Unlinked(u)' => Unlinked(u) /\ job'[u].id = job[u].id
        BY <1>5, <2>1
    <2>3. Joined \subseteq Joined'
        BY <1>2, <2>2, JoinedStays
    <2>4. id \in Joined'
        BY <1>2, <1>4, <2>2, UnlinkedInserts DEF Joined
    <2>5. Inserters'
        BY <1>5, <2>1 DEF ReachBase, Inserters
    <2> QED
        BY <1>5, <2>1, <2>3, <2>4, <2>5 DEF ReachBase, EntryJoined
<1>7. CASE entryPoint # NoNode
    <2>1. /\ pc'[t] = "descend" /\ job'[t].id = id /\ job'[t].at = maxLevel
          /\ entryPoint' = entryPoint /\ done' = done
        BY <1>1, <1>7, StartsHas DEF InsertNewDoes, InsertNew, entry
    <2>2. \A u \in Threads \ {t} : pc'[u] = pc[u] /\ job'[u] = job[u]
        BY <1>2 DEF Only
    <2>3. Joined \subseteq Joined'
        <3>1. ASSUME NEW n \in Joined, NEW u \in Threads, Unlinked(u)' PROVE job'[u].id # n
            <4>1. n \in Range(nodes) /\ n # id
                BY <1>2 DEF Joined
            <4>2. CASE u = t
                BY <2>1, <4>1, <4>2
            <4>3. CASE u # t
                BY <1>5, <2>2, <3>1, <4>3 DEF Joined
            <4> QED
                BY <4>2, <4>3
        <3> QED
            BY <1>2, <3>1 DEF Joined
    <2>4. Inserters'
        <3>1. ASSUME NEW u \in Threads, NEW w \in Threads, Inserts(u)', Inserts(w)', job'[u].id = job'[w].id, u # w
              PROVE  FALSE
            <4>1. u # t => Inserts(u) /\ job'[u].id = job[u].id
                BY <1>5, <2>2, <3>1
            <4>2. w # t => Inserts(w) /\ job'[w].id = job[w].id
                BY <1>5, <2>2, <3>1
            <4> QED
                BY <1>4, <2>1, <3>1, <4>1, <4>2 DEF ReachBase, Inserters
        <3> QED
            BY <3>1 DEF Inserters
    <2>5. Advances(t)'
        <3>1. id \in Exposed' => maxLevel = 0
            <4>1. entryPoint \in Range(nodes) /\ level[entryPoint] >= maxLevel /\ maxLevel \in Nat
                BY <1>1, <1>7, Bounds DEF GraphFits, EntryFits
            <4>2. level[entryPoint] \in Nat
                BY <1>1, <4>1, NodesAre
            <4> QED
                BY <1>3, <4>1, <4>2
        <3> QED
            BY <1>2, <2>1, <3>1 DEF Advances
    <2>6. \A u \in Threads : Advances(u)'
        BY <1>5, <2>2, <2>5
    <2> QED
        BY <2>1, <2>3, <2>4, <2>6 DEF ReachBase, EntryJoined
<1> QED
    BY <1>6, <1>7

LEMMA BaseSame ==
    ASSUME ReachBase, nodes' = nodes, level' = level, entryPoint' = entryPoint, pc' = pc, job' = job,
           done' = done, trimmed' = trimmed
    PROVE  ReachBase' /\ Joined' = Joined
<1>1. Exposed' = Exposed
    BY DEF Exposed, IsFirst
<1>2. Joined' = Joined
    BY DEF Joined, Unlinked
<1>3. Inserters'
    BY DEF ReachBase, Inserters, Inserts
<1>4. \A t \in Threads : Advances(t)'
    BY <1>1 DEF ReachBase, Advances
<1> QED
    BY <1>2, <1>3, <1>4 DEF ReachBase, EntryJoined

LEMMA BaseKept == ASSUME TypeInv, ReachBase, [Next]_vars PROVE ReachBase' /\ Joined \subseteq Joined'
<1> USE DEF Linking
<1>1. ASSUME NEW t \in Threads, NEW id \in Ids, NEW v \in Vectors[id], InsertKnown(t, id, v)
      PROVE  ReachBase' /\ Joined \subseteq Joined'
    BY <1>1, BaseSame DEF InsertKnown, entry, threads, history
<1>2. ASSUME NEW t \in Threads, NEW id \in Deletable, DeleteBegin(t, id)
      PROVE  ReachBase' /\ Joined \subseteq Joined'
    BY <1>2, BaseDelete, DeleteBeginStep DEF DeleteBeginDoes, DeleteBegin, SameNodes, entry
<1>3. ASSUME NEW t \in Threads, Gathered(t) \/ LockFirst(t) \/ Link(t) \/ Connected(t)
      PROVE  ReachBase' /\ Joined \subseteq Joined'
    <2>1. SameNodes /\ trimmed' = trimmed /\ done' = done /\ entryPoint' = entryPoint
        BY <1>3 DEF Gathered, LockFirst, Link, Connected, SameNodes, graph, entry, history
    <2>2. /\ Only(t) /\ pc[t] \in {"gather", "connect", "locking"} /\ pc'[t] \in {"connect", "locking", "prune"}
          /\ job'[t].id = job[t].id /\ job'[t].at = job[t].at
        BY <1>3, GatheredStep, LockFirstStep, LinkStep, ConnectedStep
           DEF GatheredDoes, LockFirstDoes, LinkDoes, ConnectedDoes
    <2>3. job[t].id # NoNode
        <3>1. CASE Gathered(t)
            BY <3>1 DEF Gathered
        <3>2. CASE ~Gathered(t)
            <4>1. pc[t] \in Linking
                BY <1>3, <3>2, LockFirstStep, LinkStep, ConnectedStep
                   DEF LockFirstDoes, LinkDoes, ConnectedDoes
            <4> QED
                BY <4>1, NodesAre DEF TypeInv, JobsFit, JobFits
        <3> QED
            BY <3>1, <3>2
    <2>4. Inserts(t) /\ (Unlinked(t)' => Unlinked(t))
        BY <2>2, <2>3 DEF Inserts, Unlinked
    <2> QED
        BY <2>1, <2>2, <2>4, BaseLinking
<1>4. ASSUME NEW t \in Threads, PruneRead(t) \/ PruneWrite(t) PROVE ReachBase' /\ Joined \subseteq Joined'
    <2>0. SameNodes /\ done' = done /\ entryPoint' = entryPoint
        BY <1>4 DEF PruneRead, PruneWrite, SameNodes, graph, entry, history
    <2>1. trimmed => trimmed'
        BY <1>4 DEF PruneRead, PruneWrite, history
    <2>2. /\ Only(t) /\ pc[t] \in {"prune", "trim"} /\ pc'[t] \in {"prune", "trim"}
          /\ job'[t].id = job[t].id
        BY <1>4, PruneReadStep, PruneWriteStep DEF PruneReadDoes, PruneWriteDoes
    <2>3. job[t].id # NoNode
        BY <2>2, NodesAre DEF TypeInv, JobsFit, JobFits
    <2>4. Inserts(t) /\ ~Unlinked(t)'
        BY <2>2, <2>3 DEF Inserts, Unlinked
    <2> QED
        BY <2>0, <2>1, <2>2, <2>4, BaseLinking
<1>5. ASSUME NEW t \in Threads, Answer(t) PROVE ReachBase' /\ Joined \subseteq Joined'
    <2>1. ReturnDoes(t) /\ SameNodes /\ trimmed' = trimmed /\ done' = done /\ entryPoint' = entryPoint
        BY <1>5, ReturnStep DEF Answer, SameNodes, graph, entry, history
    <2> QED
        BY <2>1, BaseReturn
<1>6. ASSUME NEW t \in Threads, DeleteNext(t) \/ DeleteLevel(t)
      PROVE  ReachBase' /\ Joined \subseteq Joined'
    <2>1. SameNodes /\ trimmed' = trimmed /\ done' = done /\ entryPoint' = entryPoint
        BY <1>6 DEF DeleteNext, DeleteLevel, SameNodes, graph, entry, history
    <2>2. Only(t) /\ pc[t] = "delete" /\ pc'[t] = "delete"
        BY <1>6, DeleteNextStep, DeleteLevelStep DEF DeleteDoes
    <2>3. trimmed
        BY <2>2 DEF ReachBase, Advances
    <2> QED
        BY <2>1, <2>2, <2>3, BaseDelete
<1>7. ASSUME NEW t \in Threads, DeleteEnd(t) PROVE ReachBase' /\ Joined \subseteq Joined'
    <2>1. ReturnDoes(t) /\ SameNodes /\ trimmed' = trimmed /\ done' = done /\ entryPoint' = entryPoint
        BY <1>7, ReturnStep DEF DeleteEnd, SameNodes, graph, entry, history
    <2> QED
        BY <2>1, BaseReturn
<1>8. ASSUME NEW t \in Threads, Step(t) PROVE ReachBase' /\ Joined \subseteq Joined'
    BY <1>3, <1>4, <1>5, <1>6, <1>7, <1>8, BaseExpand, BaseDescend, BaseNextLevel, BaseFinish DEF Step
<1>9. ASSUME UNCHANGED vars PROVE ReachBase' /\ Joined \subseteq Joined'
    BY <1>9, BaseSame DEF vars, graph, entry, threads, history
<1> QED
    BY <1>1, <1>2, <1>8, <1>9, BaseInsertNew, BaseSearch DEF Next

LEMMA BaseInit == Init => ReachBase
<1> SUFFICES ASSUME Init PROVE ReachBase
    OBVIOUS
<1>1. \A t \in Threads : pc[t] = "idle"
    BY DEF Init
<1>2. Inserters /\ \A t \in Threads : Advances(t)
    BY <1>1 DEF Inserters, Inserts, Advances, Linking
<1>3. done \subseteq Joined /\ EntryJoined
    BY DEF Init, EntryJoined
<1> QED
    BY <1>2, <1>3 DEF ReachBase

-----------------------------------------------------------------------------
(* The closed sets around the first node, and around the exposed one       *)
(* unless that is x.                                                       *)
Around(x) ==
    {S \in SUBSET Ids : Closed(S) /\ (nodes # <<>> => nodes[1] \in S) /\ (x \in Exposed \/ Exposed \subseteq S)}
Met(t) ==
    IF pc[t] \in {"descend", "gather"} THEN HitNodes(job[t].cand) \cup HitNodes(job[t].res)
    ELSE IF pc[t] \in {"connect", "locking"} THEN Range(job[t].todo)
    ELSE IF pc[t] = "trim" /\ job[t].at # 0 THEN Range(job[t].keep)
    ELSE {}

Mutual == \A n \in Range(nodes) : \A m \in Range(friends[n][0]) : n \in Range(friends[m][0])
JoinedIn == \A n \in Joined : \A S \in Around(n) : n \in S
UpperIn ==
    \A S \in Around(NoNode) : \A n \in Range(nodes) : \A l \in 1 .. level[n] : Range(friends[n][l]) \subseteq S
MetAround(t) == \A S \in Around(job[t].id) : Met(t) \subseteq S
OwnAround(t) == \A S \in Around(job[t].id) : job[t].id \in S
MetIn(t) ==
    /\ MetAround(t)
    /\ pc[t] \in {"connect", "locking"} /\ job[t].at = 0 /\ job[t].todo = <<>> => OwnAround(t)
    /\ pc[t] = "descend" /\ job[t].id = NoNode /\ job[t].known # {} => Exposed \subseteq Joined
Reached == Mutual /\ JoinedIn /\ UpperIn /\ \A t \in Threads : MetIn(t)
ReachInv == ReachBase /\ (~trimmed => Reached)

LEMMA AroundIs ==
    ASSUME GraphFits, JoinedIn
    PROVE  /\ Exposed \subseteq Range(nodes) /\ NoNode \notin Exposed
           /\ \A x : Around(NoNode) \subseteq Around(x)
           /\ \A x : x \notin Exposed => Around(x) \subseteq Around(NoNode)
           /\ \A x \in Joined : Around(x) \subseteq Around(NoNode)
           /\ \A S \in Around(NoNode) : Exposed \subseteq S /\ Joined \subseteq S
<1>1. Exposed \subseteq Range(nodes) /\ NoNode \notin Exposed
    BY NodesAre DEF Exposed
<1>2. \A x : Around(NoNode) \subseteq Around(x)
    BY <1>1 DEF Around
<1>3. \A x : x \notin Exposed => Around(x) \subseteq Around(NoNode)
    BY DEF Around
<1>4. ASSUME NEW x \in Joined PROVE Around(x) \subseteq Around(NoNode)
    <2>1. CASE x \in Exposed
        <3>1. Exposed = {x}
            BY <2>1, OneExposed
        <3>2. \A S \in Around(x) : x \in S
            BY DEF JoinedIn
        <3> QED
            BY <3>1, <3>2 DEF Around
    <2> QED
        BY <1>3, <2>1
<1>5. ASSUME NEW S \in Around(NoNode) PROVE Exposed \subseteq S /\ Joined \subseteq S
    BY <1>1, <1>2 DEF JoinedIn, Around
<1> QED
    BY <1>1, <1>2, <1>3, <1>4, <1>5

LinksGrow ==
    /\ Range(nodes) \subseteq Range(nodes)' /\ (nodes # <<>> => nodes' # <<>> /\ nodes'[1] = nodes[1])
    /\ \A n \in Range(nodes) : Range(friends[n][0]) \subseteq Range(friends'[n][0])

LEMMA AroundShrinks ==
    ASSUME LinksGrow, Exposed \subseteq Exposed', NEW x, x \in Exposed' => x \in Exposed \/ Exposed = {}
    PROVE  Around(x)' \subseteq Around(x)
<1>1. ASSUME NEW S, Closed(S)' PROVE Closed(S)
    BY <1>1 DEF Closed, LinksGrow
<1> QED
    BY <1>1 DEF Around, LinksGrow

(* A step of one goroutine that registers no node.                         *)
LEMMA ReachStep ==
    ASSUME TypeInv, ReachInv, NEW t \in Threads, Only(t), SameNodes, LinksGrow, ~trimmed, Joined \subseteq Joined',
           Unlinked(t) => (Unlinked(t)' /\ job'[t].id = job[t].id) \/ OwnAround(t),
           Mutual', UpperIn', MetIn(t)'
    PROVE  Reached'
<1>1. Exposed' = Exposed /\ Reached
    BY ExposedStays DEF ReachInv
<1>2. \A x : Around(x)' \subseteq Around(x)
    BY <1>1, AroundShrinks
<1>3. JoinedIn'
    <2>1. ASSUME NEW n \in Joined' PROVE \A S \in Around(n) : n \in S
        <3>1. CASE n \in Joined
            BY <1>1, <3>1 DEF Reached, JoinedIn
        <3>2. CASE n \notin Joined
            <4>1. n \in Range(nodes) /\ \A u \in Threads : Unlinked(u)' => job'[u].id # n
                BY DEF Joined, SameNodes
            <4>2. PICK u \in Threads : Unlinked(u) /\ job[u].id = n
                BY <3>2, <4>1 DEF Joined
            <4>3. u = t
                BY <4>1, <4>2 DEF Only, Unlinked
            <4> QED
                BY <4>1, <4>2, <4>3 DEF OwnAround
        <3> QED
            BY <3>1, <3>2
    <2> QED
        BY <1>2, <2>1 DEF JoinedIn
<1>4. ASSUME NEW u \in Threads PROVE MetIn(u)'
    <2>1. CASE u = t
        BY <2>1
    <2>2. CASE u # t
        <3>1. pc'[u] = pc[u] /\ job'[u] = job[u] /\ MetIn(u)
            BY <1>1, <2>2 DEF Only, Reached
        <3>2. Met(u)' = Met(u)
            BY <3>1 DEF Met
        <3>3. MetAround(u)'
            BY <1>2, <3>1, <3>2 DEF MetIn, MetAround
        <3>4. OwnAround(u) => OwnAround(u)'
            BY <1>2, <3>1 DEF OwnAround
        <3> QED
            BY <1>1, <3>1, <3>3, <3>4 DEF MetIn
    <2> QED
        BY <2>1, <2>2
<1> QED
    BY <1>3, <1>4 DEF Reached

(* Steps that leave the lists as they are.                                 *)
LEMMA ReachQuiet ==
    ASSUME TypeInv, ReachInv, NEW t \in Threads, Only(t), SameNodes, friends' = friends, ~trimmed,
           Joined \subseteq Joined',
           Unlinked(t) => (Unlinked(t)' /\ job'[t].id = job[t].id) \/ OwnAround(t),
           MetIn(t)'
    PROVE  Reached'
<1>1. nodes' = nodes /\ level' = level /\ Reached
    BY DEF SameNodes, ReachInv
<1>2. LinksGrow /\ Mutual'
    BY <1>1 DEF LinksGrow, Reached, Mutual
<1>3. Around(NoNode)' = Around(NoNode)
    BY <1>1, ExposedStays DEF Around, Closed
<1>4. UpperIn'
    BY <1>1, <1>3 DEF Reached, UpperIn
<1> QED
    BY <1>2, <1>4, ReachStep

LEMMA SameAround ==
    ASSUME SameNodes, friends' = friends PROVE Exposed' = Exposed /\ \A x : Around(x)' = Around(x)
    BY ExposedStays DEF Around, Closed, SameNodes

(* Above level 0, a goroutine has met only what is around the first node   *)
(* and the exposed one.                                                    *)
LEMMA AroundUpper ==
    ASSUME TypeInv, ReachInv, ~trimmed, NEW t \in Threads, pc[t] \in {"descend", "gather"} \cup Linking,
           job[t].at # 0 \/ pc[t] \in {"prune", "trim"}
    PROVE  Around(job[t].id) \subseteq Around(NoNode)
<1>1. GraphFits /\ JoinedIn /\ ReachBase /\ Advances(t)
    BY DEF TypeInv, ReachInv, Reached, ReachBase
<1>2. CASE job[t].id = NoNode
    BY <1>2
<1>3. CASE job[t].id # NoNode /\ pc[t] = "descend"
    BY <1>1, <1>3, AroundIs DEF Advances
<1>4. CASE job[t].id # NoNode /\ pc[t] # "descend"
    <2>1. Inserts(t) /\ ~Unlinked(t)
        BY <1>4 DEF Inserts, Unlinked, Linking
    <2>2. job[t].id \in Joined
        BY <1>1, <2>1, OwnJoined
    <2> QED
        BY <1>1, <2>2, AroundIs
<1> QED
    BY <1>2, <1>3, <1>4

LEMMA ReachExpand ==
    ASSUME TypeInv, ReachInv, Joined \subseteq Joined', ~trimmed, NEW t \in Threads, Expand(t)
    PROVE  Reached'
<1>1. SameNodes /\ friends' = friends /\ ExpandDoes(t) /\ Reached /\ MetIn(t)
    BY ExpandStep DEF Expand, SameNodes, graph, ReachInv, Reached
<1>2. /\ Only(t) /\ pc[t] \in {"descend", "gather"} /\ pc'[t] = pc[t]
      /\ job'[t].id = job[t].id /\ job'[t].at = job[t].at /\ job'[t].known = job[t].known
    BY <1>1 DEF ExpandDoes
<1>3. PICK c, next : ExpandTo(t, c, next)
    BY <1>1 DEF ExpandDoes
<1>4. /\ HitNodes(job'[t].cand) \subseteq HitNodes(job[t].cand) \cup next
      /\ HitNodes(job'[t].res) \subseteq HitNodes(job[t].res) \cup next
    BY <1>2, <1>3, ExpandAdds
<1>5. Met(t)' \subseteq Met(t) \cup next
    <2>1. Met(t) = HitNodes(job[t].cand) \cup HitNodes(job[t].res)
        BY <1>2 DEF Met
    <2>2. Met(t)' = HitNodes(job'[t].cand) \cup HitNodes(job'[t].res)
        BY <1>2 DEF Met, HitNodes
    <2> QED
        BY <1>4, <2>1, <2>2
<1>6. ASSUME NEW S \in Around(job[t].id) PROVE Met(t) \cup next \subseteq S
    <2>1. Met(t) \subseteq S
        BY <1>1 DEF MetIn, MetAround
    <2>2. /\ c.node \in Met(t) /\ c.node \in Range(nodes) /\ next \subseteq Range(friends[c.node][job[t].at])
          /\ level[c.node] >= job[t].at
        BY <1>2, <1>3 DEF ExpandTo, Met, HitNodes
    <2>3. CASE job[t].at = 0
        BY <2>1, <2>2, <2>3 DEF Around, Closed
    <2>4. CASE job[t].at # 0
        <3>1. S \in Around(NoNode)
            BY <1>2, <2>4, AroundUpper
        <3>2. job[t].at \in 1 .. level[c.node]
            <4>1. job[t].at \in Nat /\ level[c.node] \in Nat
                BY <2>2, JobHas, NodesAre DEF TypeInv
            <4> QED
                BY <2>2, <2>4, <4>1
        <3> QED
            BY <1>1, <2>1, <2>2, <3>1, <3>2 DEF Reached, UpperIn
    <2> QED
        BY <2>3, <2>4
<1>7. MetIn(t)'
    <2>1. Exposed' = Exposed /\ Around(job[t].id)' = Around(job[t].id)
        <3>1. \A x : Around(x)' = Around(x)
            BY <1>1, SameAround
        <3>2. \A x : x = job'[t].id => Around(x)' = Around(job[t].id)'
            OBVIOUS
        <3> QED
            BY <1>1, <1>2, <3>1, <3>2, SameAround
    <2>2. MetAround(t)'
        BY <1>5, <1>6, <2>1 DEF MetAround
    <2> QED
        BY <1>1, <1>2, <2>1, <2>2 DEF MetIn
<1>8. Unlinked(t) => Unlinked(t)' /\ job'[t].id = job[t].id
    BY <1>2 DEF Unlinked
<1> QED
    BY <1>1, <1>2, <1>7, <1>8, ReachQuiet

(* The steps that meet nothing new and leave the lists as they are.        *)
LEMMA ReachMeets ==
    ASSUME TypeInv, ReachInv, Joined \subseteq Joined', ~trimmed, NEW t \in Threads, Only(t), SameNodes,
           friends' = friends, job'[t].id = job[t].id, Met(t)' \subseteq Met(t),
           pc'[t] \in {"connect", "locking"} /\ job'[t].at = 0 /\ job'[t].todo = <<>> => OwnAround(t),
           pc'[t] = "descend" => pc[t] = "descend" /\ job'[t].known = job[t].known,
           Unlinked(t) => Unlinked(t)' \/ OwnAround(t)
    PROVE  Reached'
<1>1. Exposed' = Exposed /\ \A x : Around(x)' = Around(x)
    BY SameAround
<1>2. MetIn(t)
    BY DEF ReachInv, Reached
<1>3. MetAround(t)'
    BY <1>1, <1>2 DEF MetIn, MetAround
<1>4. OwnAround(t) => OwnAround(t)'
    BY <1>1 DEF OwnAround
<1>5. MetIn(t)'
    BY <1>1, <1>2, <1>3, <1>4 DEF MetIn
<1> QED
    BY <1>5, ReachQuiet

LEMMA ReachDescend ==
    ASSUME TypeInv, ReachInv, Joined \subseteq Joined', ~trimmed, NEW t \in Threads, Descend(t)
    PROVE  Reached'
<1>1. SameNodes /\ friends' = friends /\ DescendDoes(t)
    BY DescendStep DEF Descend, SameNodes, graph
<1>2. Only(t) /\ pc[t] = "descend" /\ job'[t].id = job[t].id /\ job'[t].known = job[t].known
    BY <1>1 DEF DescendDoes
<1>3. PICK e \in HitNodes(job[t].res) : \E l : Starts(job'[t], e, l) /\ (pc'[t] = "gather" => l = 0)
    BY <1>1 DEF DescendDoes
<1>4. pc'[t] \in {"descend", "gather"}
    BY <1>1 DEF DescendDoes
<1>5. HitNodes(job'[t].cand) = {e} /\ HitNodes(job'[t].res) = {e} /\ (pc'[t] = "gather" => job'[t].at = 0)
    BY <1>3, StartsHas
<1>6. Met(t)' \subseteq Met(t)
    <2>1. e \in Met(t)
        BY <1>2 DEF Met
    <2>2. Met(t)' = HitNodes(job'[t].cand) \cup HitNodes(job'[t].res)
        BY <1>4 DEF Met, HitNodes
    <2> QED
        BY <1>5, <2>1, <2>2
<1>7. Unlinked(t) => Unlinked(t)'
    BY <1>2, <1>4, <1>5 DEF Unlinked
<1> QED
    BY <1>1, <1>2, <1>4, <1>6, <1>7, ReachMeets

LEMMA ReachGathered ==
    ASSUME TypeInv, ReachInv, Joined \subseteq Joined', ~trimmed, NEW t \in Threads, Gathered(t)
    PROVE  Reached'
<1>1. SameNodes /\ friends' = friends /\ GatheredDoes(t) /\ MetIn(t)
    BY GatheredStep DEF Gathered, SameNodes, graph, ReachInv, Reached
<1>2. /\ Only(t) /\ pc[t] = "gather" /\ pc'[t] = "connect" /\ job'[t].id = job[t].id /\ job'[t].at = job[t].at
      /\ \A n \in Range(job'[t].todo) : n \in HitNodes(job[t].res)
      /\ job'[t].todo = <<>> => HitNodes(job[t].res) \subseteq {job[t].id}
    BY <1>1 DEF GatheredDoes
<1>3. HitNodes(job[t].res) \subseteq Met(t)
    BY <1>2 DEF Met
<1>4. Met(t)' \subseteq Met(t)
    <2>1. Met(t)' = Range(job'[t].todo)
        BY <1>2 DEF Met, Range
    <2> QED
        BY <1>2, <1>3, <2>1
<1>5. job'[t].todo = <<>> => OwnAround(t)
    <2>1. HitNodes(job[t].res) # {}
        BY <1>2 DEF TypeInv, JobsFit, JobFits, HitNodes
    <2> QED
        BY <1>1, <1>2, <1>3, <2>1 DEF MetIn, MetAround, OwnAround
<1>6. Unlinked(t) => Unlinked(t)'
    BY <1>2 DEF Unlinked
<1> QED
    BY <1>1, <1>2, <1>4, <1>5, <1>6, ReachMeets

LEMMA ReachLockFirst ==
    ASSUME TypeInv, ReachInv, Joined \subseteq Joined', ~trimmed, NEW t \in Threads, LockFirst(t)
    PROVE  Reached'
<1>1. SameNodes /\ friends' = friends /\ LockFirstDoes(t)
    BY LockFirstStep DEF LockFirst, SameNodes, graph
<1>2. Only(t) /\ pc[t] = "connect" /\ pc'[t] = "locking" /\ job'[t] = job[t] /\ job[t].todo # <<>>
    BY <1>1 DEF LockFirstDoes
<1>3. Met(t)' = Met(t)
    BY <1>2 DEF Met, Range
<1>4. Unlinked(t) => Unlinked(t)'
    BY <1>2 DEF Unlinked
<1> QED
    BY <1>1, <1>2, <1>3, <1>4, ReachMeets

LEMMA ReachConnected ==
    ASSUME TypeInv, ReachInv, Joined \subseteq Joined', ~trimmed, NEW t \in Threads, Connected(t)
    PROVE  Reached'
<1>1. SameNodes /\ friends' = friends /\ ConnectedDoes(t) /\ MetIn(t)
    BY ConnectedStep DEF Connected, SameNodes, graph, ReachInv, Reached
<1>2. /\ Only(t) /\ pc[t] = "connect" /\ pc'[t] = "prune" /\ job'[t].id = job[t].id /\ job[t].todo = <<>>
    BY <1>1 DEF ConnectedDoes
<1>3. Met(t)' \subseteq Met(t)
    BY <1>2 DEF Met
<1>4. Unlinked(t) => OwnAround(t)
    BY <1>1, <1>2 DEF Unlinked, MetIn
<1> QED
    BY <1>1, <1>2, <1>3, <1>4, ReachMeets

(* What a link and a pruning do at level 0.                                *)
LinkedAtZero(t) ==
    LET n == Head(job[t].todo)
        id == job[t].id
    IN  \A x \in Range(nodes) :
            Range(friends'[x][0]) = Range(friends[x][0]) \cup
                (IF job[t].at # 0 THEN {} ELSE IF x = n THEN {id} ELSE IF x = id THEN {n} ELSE {})

LEMMA LinkAtZero ==
    ASSUME TypeInv, NEW t \in Threads, Link(t) PROVE LinkedAtZero(t) /\ LinksGrow
<1> DEFINE id == job[t].id
           l == job[t].at
           n == Head(job[t].todo)
<1>1. LinkChanges(n, id, l) /\ LinkGives(n, id, l)
    BY LinkChangesStep, LinkChangesHas DEF TypeInv
<1>2. /\ n # id /\ Range(friends'[n][l]) = Range(friends[n][l]) \cup {id}
      /\ Range(friends'[id][l]) = Range(friends[id][l]) \cup {n}
      /\ \A x \in Range(nodes) : \A h \in Nat :
            h <= level[x] /\ (x \notin {n, id} \/ h # l) => friends'[x][h] = friends[x][h]
    BY <1>1 DEF LinkChanges, LinkGives
<1>3. \A x \in Range(nodes) : 0 <= level[x]
    <2>1. \A x \in Range(nodes) : level[x] \in Nat
        BY NodesAre DEF TypeInv
    <2> QED
        BY <2>1
<1>4. ASSUME NEW x \in Range(nodes)
      PROVE  Range(friends'[x][0]) = Range(friends[x][0]) \cup
                 (IF l # 0 THEN {} ELSE IF x = n THEN {id} ELSE IF x = id THEN {n} ELSE {})
    <2>1. CASE l = 0 /\ x \in {n, id}
        BY <1>2, <2>1
    <2>2. CASE ~(l = 0 /\ x \in {n, id})
        <3>1. friends'[x][0] = friends[x][0]
            BY <1>2, <1>3, <2>2
        <3> QED
            BY <2>2, <3>1
    <2> QED
        BY <2>1, <2>2
<1>5. nodes' = nodes
    BY DEF Link, graph
<1> QED
    BY <1>4, <1>5 DEF LinkedAtZero, LinksGrow

LEMMA PruneAtZero ==
    ASSUME TypeInv, ~trimmed', NEW t \in Threads, PruneWrite(t)
    PROVE  job[t].at # 0 /\ (\A x \in Range(nodes) : friends'[x][0] = friends[x][0]) /\ LinksGrow
<1> DEFINE l == job[t].at
           n == Head(job[t].prune)
<1>1. l # 0 /\ GraphFits /\ FriendsFit /\ nodes' = nodes
    BY DEF PruneWrite, TypeInv, graph
<1>2. n \in Range(nodes) /\ l \in Nat /\ l <= level[n] /\ Changed({n}, l)
    BY PruneChangesStep DEF PruneChanges
<1>3. \A x \in Range(nodes) : level[x] \in Nat /\ 0 <= level[x]
    <2>1. \A x \in Range(nodes) : level[x] \in Nat
        BY <1>1, NodesAre
    <2> QED
        BY <2>1
<1>4. ASSUME NEW x \in Range(nodes) PROVE friends'[x][0] = friends[x][0]
    <2>1. {n} \in SUBSET Range(nodes) /\ \A y \in {n} : l <= level[y]
        BY <1>2
    <2>2. 0 \in Nat /\ 0 <= level[x] /\ 0 # l
        BY <1>1, <1>3
    <2> HIDE DEF n, l
    <2> QED
        BY <1>1, <1>2, <2>1, <2>2, ChangedHas
<1> QED
    BY <1>1, <1>4 DEF LinksGrow

LEMMA ReachLink ==
    ASSUME TypeInv, ReachInv, Joined \subseteq Joined', ~trimmed, NEW t \in Threads, Link(t)
    PROVE  Reached'
<1> DEFINE id == job[t].id
           l == job[t].at
           n == Head(job[t].todo)
<1>1. SameNodes /\ LinkDoes(t) /\ Reached /\ MetIn(t) /\ ReachBase /\ GraphFits /\ JoinedIn
    BY LinkStep DEF Link, SameNodes, graph, ReachInv, Reached, TypeInv
<1>2. /\ Only(t) /\ pc[t] = "locking" /\ pc'[t] = "connect" /\ job'[t].id = id /\ job'[t].at = l
      /\ n \in Range(job[t].todo) /\ Range(job'[t].todo) \subseteq Range(job[t].todo)
    BY <1>1 DEF LinkDoes
<1>3. LinkChanges(n, id, l) /\ LinkGives(n, id, l)
    BY LinkChangesStep, LinkChangesHas DEF TypeInv
<1>4. /\ n \in Range(nodes) /\ id \in Range(nodes) /\ n # id /\ l \in Nat /\ l <= level[n] /\ l <= level[id]
      /\ Range(friends'[n][l]) = Range(friends[n][l]) \cup {id}
      /\ Range(friends'[id][l]) = Range(friends[id][l]) \cup {n}
      /\ \A x \in Range(nodes) : \A h \in Nat :
            h <= level[x] /\ (x \notin {n, id} \/ h # l) => friends'[x][h] = friends[x][h]
    BY <1>3 DEF LinkChanges, LinkGives
<1>5. nodes' = nodes /\ level' = level /\ Range(nodes)' = Range(nodes)
    BY <1>1 DEF SameNodes
<1>6. \A x \in Range(nodes) : level[x] \in Nat /\ 0 <= level[x] /\ x \in Ids
    <2>1. \A x \in Range(nodes) : level[x] \in Nat /\ x \in Ids
        BY <1>1, NodesAre
    <2> QED
        BY <2>1
<1>7. \A x \in Range(nodes) :
          Range(friends'[x][0]) = Range(friends[x][0]) \cup
              (IF l # 0 THEN {} ELSE IF x = n THEN {id} ELSE IF x = id THEN {n} ELSE {})
    BY LinkAtZero DEF LinkedAtZero
<1>8. LinksGrow
    BY LinkAtZero
<1>9. Mutual'
    <2>1. ASSUME NEW x \in Range(nodes), NEW y \in Range(friends'[x][0]) PROVE x \in Range(friends'[y][0])
        <3>1. CASE y \in Range(friends[x][0])
            <4>1. x \in Range(friends[y][0]) /\ y \in Range(nodes)
                <5>1. Range(friends[x][0]) \subseteq Range(nodes)
                    BY <1>6, FriendsAre DEF TypeInv
                <5> QED
                    BY <1>1, <3>1, <5>1 DEF Reached, Mutual
            <4> QED
                BY <1>7, <4>1
        <3>2. CASE y \notin Range(friends[x][0])
            <4>1. l = 0 /\ ((x = n /\ y = id) \/ (x = id /\ y = n))
                BY <1>7, <2>1, <3>2
            <4> QED
                BY <1>4, <1>7, <4>1
        <3> QED
            BY <3>1, <3>2
    <2> QED
        BY <1>5, <2>1 DEF Mutual
<1>10. Exposed' = Exposed /\ \A x : Around(x)' \subseteq Around(x)
    BY <1>1, <1>8, ExposedStays, AroundShrinks
<1>11. n \in Met(t) /\ Met(t)' \subseteq Met(t)
    <2>1. Met(t) = Range(job[t].todo) /\ Met(t)' = Range(job'[t].todo)
        BY <1>2 DEF Met, Range
    <2> QED
        BY <1>2, <2>1
<1>12. UpperIn'
    <2>1. ASSUME NEW S \in Around(NoNode)', NEW x \in Range(nodes), NEW h \in 1 .. level[x]
          PROVE  Range(friends'[x][h]) \subseteq S
        <3>1. S \in Around(NoNode) /\ Range(friends[x][h]) \subseteq S
            BY <1>1, <1>10 DEF Reached, UpperIn
        <3>2. h \in Nat /\ h <= level[x] /\ h # 0
            BY <1>6
        <3>3. CASE x \notin {n, id} \/ h # l
            BY <1>4, <3>1, <3>2, <3>3
        <3>4. CASE x \in {n, id} /\ h = l
            <4>1. S \in Around(id)
                BY <1>1, <3>1, AroundIs
            <4>2. n \in S
                BY <1>1, <1>11, <4>1 DEF MetIn, MetAround
            <4>3. id \in S
                <5>1. id \in Joined
                    <6>1. Inserts(t) /\ ~Unlinked(t)
                        BY <1>2, <1>4, <1>6, <3>2, <3>4, NodesAre DEF Inserts, Unlinked, TypeInv
                    <6> QED
                        BY <1>1, <6>1, OwnJoined
                <5> QED
                    BY <1>1, <3>1, <5>1, AroundIs
            <4> QED
                BY <1>4, <3>1, <3>4, <4>2, <4>3
        <3> QED
            BY <3>3, <3>4
    <2> QED
        BY <1>5, <2>1 DEF UpperIn
<1>13. MetIn(t)'
    <2>1. \A S \in Around(job[t].id)' : S \in Around(id) /\ Closed(S)'
        BY <1>2, <1>10 DEF Around
    <2>2. Around(job[t].id)' \subseteq Around(id)
        BY <2>1
    <2>3. MetAround(t)'
        BY <1>1, <1>11, <2>2 DEF MetIn, MetAround
    <2>4. l = 0 => OwnAround(t)'
        <3>1. ASSUME l = 0, NEW S \in Around(job[t].id)' PROVE id \in S
            <4>1. n \in S
                BY <1>1, <1>11, <2>2 DEF MetIn, MetAround
            <4>2. Closed(S)'
                BY <2>1
            <4>3. Range(friends'[n][0]) \subseteq S
                BY <1>4, <1>5, <4>1, <4>2 DEF Closed
            <4> QED
                BY <1>4, <3>1, <4>3
        <3> QED
            BY <1>2, <3>1 DEF OwnAround
    <2> QED
        BY <1>2, <2>3, <2>4 DEF MetIn
<1>14. Unlinked(t) => Unlinked(t)' /\ job'[t].id = id
    BY <1>2 DEF Unlinked
<1> QED
    BY <1>1, <1>2, <1>8, <1>9, <1>12, <1>13, <1>14, ReachStep

LEMMA ReachPruneRead ==
    ASSUME TypeInv, ReachInv, Joined \subseteq Joined', ~trimmed, NEW t \in Threads, PruneRead(t)
    PROVE  Reached'
<1>1. SameNodes /\ friends' = friends /\ PruneReadDoes(t) /\ Reached
    BY PruneReadStep DEF PruneRead, SameNodes, graph, ReachInv
<1>2. /\ Only(t) /\ pc[t] = "prune" /\ pc'[t] \in {"prune", "trim"} /\ job[t].prune # <<>>
      /\ job'[t].id = job[t].id /\ job'[t].at = job[t].at
      /\ pc'[t] = "trim" => Range(job'[t].keep) \subseteq Range(friends[Head(job[t].prune)][job[t].at])
    BY <1>1 DEF PruneReadDoes
<1>3. /\ Head(job[t].prune) \in Range(nodes) /\ level[Head(job[t].prune)] >= job[t].at
      /\ job[t].at \in Nat /\ level[Head(job[t].prune)] \in Nat
    <2>1. job[t].prune \in Seq(Ids) /\ HasLevel(Range(job[t].prune), job[t].at) /\ job[t].at \in Nat
        BY <1>2, JobHas DEF TypeInv, JobsFit, JobFits, Linking
    <2>2. Head(job[t].prune) \in Range(job[t].prune)
        BY <1>2, <2>1, TailIs
    <2> QED
        BY <2>1, <2>2, NodesAre DEF HasLevel, TypeInv
<1>4. Exposed' = Exposed /\ \A x : Around(x)' = Around(x)
    BY <1>1, SameAround
<1>5. ASSUME NEW S \in Around(job[t].id) PROVE Met(t)' \subseteq S
    <2>1. S \in Around(NoNode)
        BY <1>2, AroundUpper DEF Linking
    <2>2. CASE pc'[t] = "trim" /\ job[t].at # 0
        <3>1. job[t].at \in 1 .. level[Head(job[t].prune)]
            BY <1>3, <2>2
        <3>2. Range(friends[Head(job[t].prune)][job[t].at]) \subseteq S
            BY <1>1, <1>3, <2>1, <3>1 DEF Reached, UpperIn
        <3>3. Met(t)' = Range(job'[t].keep)
            BY <1>2, <2>2 DEF Met, Range
        <3> QED
            BY <1>2, <2>2, <3>2, <3>3
    <2>3. CASE ~(pc'[t] = "trim" /\ job[t].at # 0)
        BY <1>2, <2>3 DEF Met
    <2> QED
        BY <2>2, <2>3
<1>6. MetIn(t)'
    BY <1>2, <1>4, <1>5 DEF MetIn, MetAround
<1>7. ~Unlinked(t)
    BY <1>2 DEF Unlinked
<1> QED
    BY <1>1, <1>2, <1>6, <1>7, ReachQuiet

LEMMA ReachPruneWrite ==
    ASSUME TypeInv, ReachInv, Joined \subseteq Joined', ~trimmed, ~trimmed', NEW t \in Threads, PruneWrite(t)
    PROVE  Reached'
<1> DEFINE l == job[t].at
           n == Head(job[t].prune)
           keep == job[t].keep
<1>1. /\ SameNodes /\ PruneWriteDoes(t) /\ Reached /\ MetIn(t) /\ l # 0 /\ nodes' = nodes /\ level' = level
      /\ GraphFits /\ JoinedIn /\ FriendsFit
    BY PruneWriteStep DEF PruneWrite, SameNodes, graph, ReachInv, Reached, TypeInv
<1>2. Only(t) /\ pc[t] = "trim" /\ pc'[t] = "prune" /\ job'[t].id = job[t].id
    BY <1>1 DEF PruneWriteDoes
<1>3. n \in Range(nodes) /\ l \in Nat /\ l <= level[n] /\ Changed({n}, l) /\ friends'[n][l] = keep
    BY PruneChangesStep DEF PruneChanges
<1>4. \A x \in Range(nodes) : level[x] \in Nat /\ 0 <= level[x]
    <2>1. \A x \in Range(nodes) : level[x] \in Nat
        BY <1>1, NodesAre
    <2> QED
        BY <2>1
<1>5. ASSUME NEW x \in Range(nodes), NEW h \in Nat, h <= level[x], x # n \/ h # l
      PROVE  friends'[x][h] = friends[x][h]
    <2>1. \A y \in {n} : l <= level[y]
        BY <1>3
    <2>2. {n} \in SUBSET Range(nodes) /\ (x \notin {n} \/ h # l)
        BY <1>3, <1>5
    <2> HIDE DEF n, l
    <2> QED
        BY <1>1, <1>3, <1>5, <2>1, <2>2, ChangedHas
<1>6. \A x \in Range(nodes) : friends'[x][0] = friends[x][0]
    BY PruneAtZero
<1>7. LinksGrow /\ Range(nodes)' = Range(nodes)
    BY <1>1, PruneAtZero
<1>8. Mutual'
    <2>1. \A x \in Range(nodes) : Range(friends[x][0]) \subseteq Range(nodes)
        BY <1>4, FriendsAre DEF TypeInv
    <2> QED
        BY <1>1, <1>6, <1>7, <2>1 DEF Reached, Mutual
<1>9. Exposed' = Exposed /\ \A x : Around(x)' \subseteq Around(x)
    BY <1>1, <1>7, ExposedStays, AroundShrinks
<1>10. UpperIn'
    <2>1. ASSUME NEW S \in Around(NoNode)', NEW x \in Range(nodes), NEW h \in 1 .. level[x]
          PROVE  Range(friends'[x][h]) \subseteq S
        <3>1. S \in Around(NoNode) /\ Range(friends[x][h]) \subseteq S
            BY <1>1, <1>9 DEF Reached, UpperIn
        <3>2. h \in Nat /\ h <= level[x]
            BY <1>4
        <3>3. CASE x # n \/ h # l
            BY <1>5, <3>1, <3>2, <3>3
        <3>4. CASE x = n /\ h = l
            <4>1. Met(t) \subseteq S
                BY <1>1, <3>1, AroundIs DEF MetIn, MetAround
            <4>2. Met(t) = Range(keep)
                BY <1>1, <1>2 DEF Met
            <4> QED
                BY <1>3, <3>4, <4>1, <4>2
        <3> QED
            BY <3>3, <3>4
    <2> QED
        BY <1>1, <1>7, <2>1 DEF UpperIn
<1>11. MetIn(t)' /\ ~Unlinked(t)
    BY <1>2 DEF MetIn, MetAround, Met, Unlinked
<1> QED
    BY <1>1, <1>2, <1>7, <1>8, <1>10, <1>11, ReachStep

LEMMA ReachNextLevel ==
    ASSUME Orderly, TypeInv, ReachInv, Joined \subseteq Joined', ~trimmed, NEW t \in Threads, NextLevel(t)
    PROVE  Reached'
<1>1. SameNodes /\ friends' = friends /\ NextLevelDoes(t) /\ GraphFits /\ JoinedIn
    BY NextLevelStep DEF NextLevel, SameNodes, graph, ReachInv, Reached, TypeInv
<1>2. /\ Only(t) /\ pc[t] = "prune" /\ pc'[t] = "gather" /\ job'[t].id = job[t].id
      /\ job[t].at \in Nat /\ job[t].at + 1 <= LevelCap
    BY <1>1, JobHas DEF NextLevelDoes, TypeInv
<1>3. PICK e \in Range(nodes) : IsFirst(e, job[t].at + 1) /\ Starts(job'[t], e, job[t].at + 1)
    BY <1>1 DEF NextLevelDoes
<1>4. HitNodes(job'[t].cand) = {e} /\ HitNodes(job'[t].res) = {e}
    BY <1>3, StartsHas
<1>5. Around(job[t].id) \subseteq Around(NoNode)
    BY <1>2, AroundUpper DEF Linking
<1>6. \A S \in Around(NoNode) : e \in S
    <2>1. CASE LevelCap <= 1
        <3>1. job[t].at + 1 = 1 /\ ~(LevelCap > 1)
            BY <1>2, <2>1, Bounds
        <3>2. e \in Exposed
            BY <1>3, <3>1 DEF Exposed
        <3> QED
            BY <1>1, <3>2, AroundIs
    <2>2. CASE ~(LevelCap <= 1)
        <3>1. \A u, w \in Threads : Inserts(u) /\ Inserts(w) => u = w
            BY <2>2 DEF Orderly
        <3>2. Inserts(t) /\ ~Unlinked(t)
            BY <1>1, <1>2, NodesAre DEF NextLevelDoes, Inserts, Unlinked
        <3>3. \A u \in Threads : ~Unlinked(u)
            BY <3>1, <3>2, UnlinkedInserts
        <3>4. e \in Joined
            BY <1>3, <3>3 DEF Joined
        <3> QED
            BY <1>1, <3>4, AroundIs
    <2> QED
        BY <2>1, <2>2
<1>7. MetIn(t)'
    <2>1. \A x : Around(x)' = Around(x)
        BY <1>1, SameAround
    <2>2. Met(t)' = {e}
        BY <1>2, <1>4 DEF Met, HitNodes
    <2>3. MetAround(t)'
        BY <1>2, <1>5, <1>6, <2>1, <2>2 DEF MetAround
    <2> QED
        BY <1>2, <2>3 DEF MetIn
<1>8. ~Unlinked(t)
    BY <1>2 DEF Unlinked
<1> QED
    BY <1>1, <1>2, <1>7, <1>8, ReachQuiet

LEMMA ReachReturn ==
    ASSUME TypeInv, ReachInv, Joined \subseteq Joined', ~trimmed, NEW t \in Threads, Finish(t) \/ Answer(t)
    PROVE  Reached'
<1>1. SameNodes /\ friends' = friends /\ ReturnDoes(t)
    BY ReturnStep DEF Finish, Answer, SameNodes, graph
<1>2. ~Unlinked(t)
    BY NoJobIs DEF Finish, Answer, Found, Unlinked
<1>3. MetIn(t)'
    BY <1>1 DEF ReturnDoes, MetIn, MetAround, Met
<1> QED
    BY <1>1, <1>2, <1>3, ReachQuiet DEF ReturnDoes

LEMMA ReachSearch ==
    ASSUME TypeInv, ReachInv, Joined \subseteq Joined', ~trimmed, NEW t \in Threads, NEW q \in Queries,
           Search(t, q)
    PROVE  Reached'
<1>1. SameNodes /\ friends' = friends /\ SearchDoes(t) /\ GraphFits /\ JoinedIn /\ ReachBase
    BY SearchStep DEF Search, SameNodes, graph, ReachInv, Reached, TypeInv
<1>2. /\ Only(t) /\ pc[t] = "idle" /\ pc'[t] \in {"descend", "gather"} /\ job'[t].id = NoNode
      /\ job'[t].known = {n \in done : done = Range(nodes)} /\ entryPoint # NoNode
      /\ HitNodes(job'[t].cand) = {entryPoint} /\ HitNodes(job'[t].res) = {entryPoint}
    BY <1>1, StartsHas DEF SearchDoes
<1>3. entryPoint \in Joined
    BY <1>1, <1>2 DEF ReachBase, EntryJoined
<1>4. Met(t)' = {entryPoint}
    BY <1>2 DEF Met, HitNodes
<1>5. MetIn(t)'
    <2>1. \A x : Around(x)' = Around(x)
        BY <1>1, SameAround
    <2>2. MetAround(t)'
        BY <1>1, <1>2, <1>3, <1>4, <2>1, AroundIs DEF MetAround
    <2>3. job'[t].known # {} => Exposed' \subseteq Joined'
        <3>1. job'[t].known # {} => Range(nodes) \subseteq Joined
            BY <1>1, <1>2 DEF ReachBase
        <3> QED
            BY <1>1, <3>1, AroundIs, SameAround
    <2> QED
        BY <1>2, <2>2, <2>3 DEF MetIn
<1>6. ~Unlinked(t)
    BY <1>2 DEF Unlinked
<1> QED
    BY <1>1, <1>2, <1>5, <1>6, ReachQuiet

LEMMA ReachInsertNew ==
    ASSUME TypeInv, ReachInv, Joined \subseteq Joined', ~trimmed, NEW t \in Threads, NEW id \in Ids,
           NEW v \in Vectors[id], NEW l \in Levels(id), InsertNew(t, id, v, l)
    PROVE  Reached'
<1>1. /\ InsertNewDoes(t, id, l) /\ InsertChanges(id, l) /\ GraphFits /\ Reached /\ JoinedIn /\ ReachBase
      /\ FriendsFit
    BY InsertNewStep, InsertChangesStep DEF TypeInv, ReachInv, Reached
<1>2. /\ Only(t) /\ pc[t] = "idle" /\ id \notin Range(nodes) /\ Range(nodes)' = Range(nodes) \cup {id}
      /\ l \in Nat /\ level'[id] = l /\ friends'[id] = [i \in 0 .. l |-> <<>>]
      /\ \A n \in Range(nodes) : level'[n] = level[n] /\ friends'[n] = friends[n]
      /\ nodes' \in Seq(Ids)
    <2>1. Range(nodes) \subseteq Ids
        BY <1>1, NodesAre
    <2>2. l \in Nat
        BY <1>1 DEF InsertNewDoes
    <2> QED
        BY <1>1, <2>1, <2>2 DEF InsertNewDoes, InsertChanges
<1>3. nodes' # <<>> /\ (nodes # <<>> => nodes'[1] = nodes[1]) /\ (nodes = <<>> => nodes'[1] = id)
    <2>1. Len(nodes) \in Nat /\ (nodes = <<>> <=> Len(nodes) = 0)
        BY <1>1, RangeIs DEF GraphFits
    <2>2. nodes = <<>> \/ 1 \in 1 .. Len(nodes)
        BY <2>1
    <2>3. nodes' # <<>>
        BY <1>2, EmptyRange
    <2> QED
        BY <1>1, <2>1, <2>2, <2>3 DEF InsertChanges
<1>4. /\ Exposed \subseteq Exposed' /\ Exposed' \subseteq Exposed \cup {id}
      /\ id \in Exposed' => \A n \in Range(nodes) : level[n] < 1
    BY <1>1, ExposedGrows
<1>5. Range(friends'[id][0]) = {} /\ \A h \in 1 .. l : Range(friends'[id][h]) = {}
    <2>1. \A h \in 0 .. l : friends'[id][h] = <<>>
        BY <1>2
    <2>2. 0 \in 0 .. l /\ \A h \in 1 .. l : h \in 0 .. l
        BY <1>2
    <2> QED
        BY <2>1, <2>2, EmptyRange
<1>6. LinksGrow
    BY <1>2, <1>3 DEF LinksGrow
<1>7. ASSUME NEW x PROVE Around(x)' \subseteq Around(x)
    <2>1. id \in Exposed' => Exposed = {}
        <3>1. \A n \in Exposed : n \in Range(nodes) /\ level[n] >= 1 /\ level[n] \in Nat
            BY <1>1, NodesAre DEF Exposed, IsFirst
        <3> QED
            BY <1>4, <3>1
    <2> QED
        BY <1>4, <1>6, <2>1, AroundShrinks
<1>8. Mutual'
    <2>1. ASSUME NEW x \in Range(nodes), NEW y \in Range(friends[x][0])
          PROVE  y \in Range(nodes) /\ x \in Range(friends[y][0])
        <3>1. level[x] \in Nat
            BY <1>1, NodesAre
        <3>2. Range(friends[x][0]) \subseteq Range(nodes)
            BY <1>1, <3>1, FriendsAre
        <3> QED
            BY <1>1, <3>2 DEF Reached, Mutual
    <2>2. ASSUME NEW x \in Range(nodes)', NEW y \in Range(friends'[x][0])
          PROVE  x \in Range(friends'[y][0])
        <3>1. x \in Range(nodes) /\ friends'[x] = friends[x]
            BY <1>2, <1>5, <2>2
        <3> QED
            BY <1>2, <2>1, <2>2, <3>1
    <2> QED
        BY <2>2 DEF Mutual
<1>9. \A u \in Threads \ {t} : Unlinked(u) = Unlinked(u)' /\ job'[u].id = job[u].id
    BY <1>2 DEF Only, Unlinked
<1>10. JoinedIn'
    <2>1. ASSUME NEW n \in Joined', NEW S \in Around(n)' PROVE n \in S
        <3>1. CASE n \in Range(nodes)
            <4>1. n \in Joined
                <5>1. ~Unlinked(t)
                    BY <1>2 DEF Unlinked
                <5> QED
                    BY <1>9, <3>1, <5>1 DEF Joined
            <4> QED
                BY <1>1, <1>7, <2>1, <4>1 DEF JoinedIn
        <3>2. CASE n \notin Range(nodes)
            <4>1. n = id
                BY <1>2, <2>1, <3>2 DEF Joined
            <4>2. nodes = <<>>
                <5>1. SUFFICES ASSUME entryPoint # NoNode PROVE FALSE
                    BY <1>1 DEF GraphFits, EntryFits
                <5>2. pc'[t] = "descend" /\ job'[t].id = id
                    BY <1>1, <5>1 DEF InsertNewDoes
                <5>3. Unlinked(t)'
                    BY <5>2, Bounds DEF Unlinked
                <5> QED
                    BY <2>1, <4>1, <5>2, <5>3 DEF Joined
            <4> QED
                BY <1>3, <4>1, <4>2 DEF Around
        <3> QED
            BY <3>1, <3>2
    <2> QED
        BY <2>1 DEF JoinedIn
<1>11. UpperIn'
    <2>1. ASSUME NEW S \in Around(NoNode)', NEW n \in Range(nodes)', NEW h \in 1 .. level'[n]
          PROVE  Range(friends'[n][h]) \subseteq S
        <3>1. S \in Around(NoNode)
            BY <1>7
        <3> QED
            BY <1>1, <1>2, <1>5, <3>1 DEF Reached, UpperIn
    <2> QED
        BY <2>1 DEF UpperIn
<1>12. ASSUME NEW u \in Threads, pc'[u] = pc[u], job'[u] = job[u] PROVE MetIn(u)'
    <2>1. MetIn(u) /\ Met(u)' = Met(u)
        BY <1>1, <1>12 DEF Reached, Met
    <2>2. MetAround(u)'
        BY <1>7, <1>12, <2>1 DEF MetIn, MetAround
    <2>3. OwnAround(u) => OwnAround(u)'
        BY <1>7, <1>12 DEF OwnAround
    <2>4. pc[u] = "descend" /\ job[u].id = NoNode /\ job[u].known # {} => Exposed' \subseteq Joined'
        <3>1. SUFFICES ASSUME pc[u] = "descend", job[u].id = NoNode, Exposed \subseteq Joined
                       PROVE  id \notin Exposed'
            BY <1>4, <2>1 DEF MetIn
        <3>2. job[u].at >= 1 /\ job[u].at \in Nat
            BY <1>1, <3>1, JobHas DEF ReachBase, Advances, TypeInv
        <3>3. job[u].res # {} /\ HasLevel(HitNodes(job[u].res), job[u].at)
            BY <3>1 DEF TypeInv, JobsFit, JobFits, HasLevel
        <3>4. PICK n \in Range(nodes) : level[n] >= job[u].at
            BY <3>3 DEF HitNodes, HasLevel
        <3>5. level[n] \in Nat
            BY <1>1, NodesAre
        <3> QED
            BY <1>4, <3>2, <3>4, <3>5
    <2> QED
        BY <1>12, <2>1, <2>2, <2>3, <2>4 DEF MetIn
<1>13. CASE entryPoint = NoNode
    <2>1. pc' = pc /\ job' = job
        BY <1>1, <1>13 DEF InsertNewDoes
    <2> QED
        BY <1>8, <1>10, <1>11, <1>12, <2>1 DEF Reached
<1>14. CASE entryPoint # NoNode
    <2>1. /\ pc'[t] = "descend" /\ job'[t].id = id /\ job'[t].known = {}
          /\ HitNodes(job'[t].cand) = {entryPoint} /\ HitNodes(job'[t].res) = {entryPoint}
        BY <1>1, <1>14, StartsHas DEF InsertNewDoes
    <2>2. Met(t)' = {entryPoint}
        BY <2>1 DEF Met, HitNodes
    <2>3. \A S \in Around(id)' : entryPoint \in S
        <3>1. id \notin Exposed /\ entryPoint \in Joined
            BY <1>1, <1>2, <1>14, AroundIs DEF ReachBase, EntryJoined
        <3> QED
            BY <1>1, <1>7, <3>1, AroundIs
    <2>4. MetIn(t)'
        BY <2>1, <2>2, <2>3 DEF MetIn, MetAround
    <2>5. \A u \in Threads \ {t} : MetIn(u)'
        BY <1>2, <1>12 DEF Only
    <2> QED
        BY <1>8, <1>10, <1>11, <2>4, <2>5 DEF Reached
<1> QED
    BY <1>13, <1>14

LEMMA ReachSame ==
    ASSUME Reached, nodes' = nodes, level' = level, friends' = friends, pc' = pc, job' = job, Joined' = Joined
    PROVE  Reached'
<1>1. Exposed' = Exposed
    BY DEF Exposed, IsFirst
<1>2. \A x : Around(x)' = Around(x)
    BY <1>1 DEF Around, Closed
<1>3. \A t \in Threads : Met(t)' = Met(t)
    BY DEF Met
<1>4. \A t \in Threads : MetIn(t)'
    BY <1>1, <1>2, <1>3 DEF Reached, MetIn, MetAround, OwnAround
<1>5. Mutual' /\ JoinedIn' /\ UpperIn'
    BY <1>2 DEF Reached, Mutual, JoinedIn, UpperIn
<1> QED
    BY <1>4, <1>5 DEF Reached

LEMMA ReachKept == ASSUME Orderly, TypeInv, ReachInv, [Next]_vars PROVE ReachInv'
<1>1. ReachBase' /\ Joined \subseteq Joined'
    BY BaseKept DEF ReachInv
<1>2. SUFFICES ASSUME ~trimmed' PROVE Reached'
    BY <1>1 DEF ReachInv
<1>3. ASSUME NEW t \in Threads, NEW id \in Ids, NEW v \in Vectors[id], NEW l \in Levels(id),
             InsertNew(t, id, v, l)
      PROVE  Reached'
    BY <1>1, <1>2, <1>3, ReachInsertNew DEF InsertNew
<1>4. ASSUME NEW t \in Threads, NEW id \in Ids, NEW v \in Vectors[id], InsertKnown(t, id, v) PROVE Reached'
    <2>1. /\ nodes' = nodes /\ level' = level /\ friends' = friends /\ pc' = pc /\ job' = job
          /\ entryPoint' = entryPoint /\ done' = done /\ trimmed' = trimmed
        BY <1>4 DEF InsertKnown, entry, threads, history
    <2>2. Joined' = Joined
        BY <2>1 DEF Joined, Unlinked
    <2> QED
        BY <1>2, <2>1, <2>2, ReachSame DEF ReachInv
<1>5. ASSUME NEW t \in Threads, NEW q \in Queries, Search(t, q) PROVE Reached'
    BY <1>1, <1>2, <1>5, ReachSearch DEF Search, history
<1>6. ASSUME NEW t \in Threads, NEW id \in Deletable, DeleteBegin(t, id) PROVE Reached'
    BY <1>2, <1>6 DEF DeleteBegin
<1>7. ASSUME NEW t \in Threads, Step(t) PROVE Reached'
    <2>1. pc[t] = "delete" => trimmed
        BY DEF ReachInv, ReachBase, Advances
    <2>2. CASE Expand(t) \/ Descend(t) \/ Gathered(t) \/ LockFirst(t)
        <3>1. ~trimmed
            BY <1>2, <2>2 DEF Expand, Descend, Gathered, LockFirst, history
        <3> QED
            BY <1>1, <2>2, <3>1, ReachExpand, ReachDescend, ReachGathered, ReachLockFirst
    <2>3. CASE Link(t) \/ Connected(t) \/ PruneRead(t)
        <3>1. ~trimmed
            BY <1>2, <2>3 DEF Link, Connected, PruneRead, history
        <3> QED
            BY <1>1, <2>3, <3>1, ReachLink, ReachConnected, ReachPruneRead
    <2>4. CASE PruneWrite(t)
        <3>1. ~trimmed
            BY <1>2, <2>4 DEF PruneWrite
        <3> QED
            BY <1>1, <1>2, <2>4, <3>1, ReachPruneWrite
    <2>5. CASE NextLevel(t) \/ Finish(t) \/ Answer(t)
        <3>1. ~trimmed
            BY <1>2, <2>5 DEF NextLevel, Finish, Answer, history
        <3> QED
            BY <1>1, <2>5, <3>1, ReachNextLevel, ReachReturn
    <2>6. CASE DeleteNext(t) \/ DeleteLevel(t) \/ DeleteEnd(t)
        BY <1>2, <2>1, <2>6 DEF DeleteNext, DeleteLevel, DeleteEnd, history
    <2> QED
        BY <1>7, <2>2, <2>3, <2>4, <2>5, <2>6 DEF Step
<1>8. ASSUME UNCHANGED vars PROVE Reached'
    <2>1. /\ nodes' = nodes /\ level' = level /\ friends' = friends /\ pc' = pc /\ job' = job
          /\ trimmed' = trimmed
        BY <1>8 DEF vars, graph, threads, history
    <2>2. Joined' = Joined
        BY <2>1 DEF Joined, Unlinked
    <2> QED
        BY <1>2, <2>1, <2>2, ReachSame DEF ReachInv
<1> QED
    BY <1>3, <1>4, <1>5, <1>6, <1>7, <1>8 DEF Next

LEMMA ReachInit == Init => ReachInv
<1> SUFFICES ASSUME Init PROVE Reached
    BY BaseInit DEF ReachInv
<1>1. Range(nodes) = {} /\ Joined = {}
    BY EmptyRange DEF Init, Joined
<1>2. Mutual /\ JoinedIn /\ UpperIn
    BY <1>1 DEF Mutual, JoinedIn, UpperIn
<1>3. \A t \in Threads : MetIn(t)
    BY DEF Init, MetIn, MetAround, Met
<1> QED
    BY <1>2, <1>3 DEF Reached

LEMMA ReachInvariant == Spec /\ []Orderly => []ReachInv
<1>1. TypeInv /\ Orderly /\ ReachInv /\ [Next]_vars => ReachInv'
    BY ReachKept
<1> QED
    BY <1>1, ReachInit, TypeInvariant, PTL DEF Spec

(* A closed set that has a node e of all sets around the first node has    *)
(* the joined nodes: what is outside of it is closed too, and would have e *)
(* if it had the first node.                                               *)
LEMMA Spread ==
    ASSUME TypeInv, Reached, Exposed \subseteq Joined, NEW e \in Range(nodes),
           \A T \in Around(NoNode) : e \in T,
           NEW S \in SUBSET Ids, Closed(S), e \in S
    PROVE  Joined \subseteq S
<1>1. GraphFits /\ JoinedIn /\ nodes # <<>> /\ nodes[1] \in Ids
    <2>1. nodes # <<>>
        BY EmptyRange
    <2> QED
        BY <2>1, NodesAre DEF TypeInv, Reached
<1>2. ASSUME NEW T \in SUBSET Ids, Closed(T), nodes[1] \in T PROVE T \in Around(NoNode)
    <2>1. \A x \in Exposed : T \in Around(x)
        BY <1>2 DEF Around
    <2>2. Exposed \subseteq T
        BY <1>1, <2>1 DEF JoinedIn
    <2> QED
        BY <1>2, <2>2 DEF Around
<1>3. Closed(Ids \ S)
    <2>1. ASSUME NEW n \in Range(nodes) \ S, NEW m \in Range(friends[n][0]) PROVE m \in Ids \ S
        <3>1. level[n] \in Nat /\ Range(nodes) \subseteq Ids
            BY <1>1, NodesAre
        <3>2. m \in Range(nodes)
            BY <1>1, <3>1, FriendsAre DEF TypeInv
        <3>3. n \in Range(friends[m][0])
            BY DEF Reached, Mutual
        <3> QED
            BY <3>1, <3>2, <3>3 DEF Closed
    <2> QED
        BY <2>1 DEF Closed
<1>4. nodes[1] \in S
    <2>1. nodes[1] \notin Ids \ S
        BY <1>2, <1>3
    <2> QED
        BY <1>1, <2>1
<1> QED
    BY <1>1, <1>2, <1>4, AroundIs

(* In two levels every node stays reachable at level 0 as long as no link  *)
(* is removed, however many insertions overlap and whichever half-inserted *)
(* nodes they meet; in any number of levels, if insertions do not overlap. *)
THEOREM ReachableCorrect == Spec /\ []Orderly => []AllReachable
<1>1. ASSUME TypeInv, ReachInv PROVE AllReachable
    <2> SUFFICES ASSUME AllIdle, ~trimmed, NEW S \in SUBSET Ids, entryPoint \in S, Closed(S)
                 PROVE  Range(nodes) \subseteq S
        BY DEF AllReachable
    <2>1. Reached /\ ReachBase /\ GraphFits /\ JoinedIn
        BY <1>1 DEF ReachInv, Reached, TypeInv
    <2>2. Joined = Range(nodes)
        BY DEF Joined, Unlinked, AllIdle
    <2>3. entryPoint \in Range(nodes)
        BY <2>1, Bounds DEF GraphFits
    <2>4. Exposed \subseteq Joined /\ \A T \in Around(NoNode) : entryPoint \in T
        BY <2>1, <2>2, <2>3, AroundIs
    <2> QED
        BY <1>1, <2>1, <2>2, <2>3, <2>4, Spread
<1> QED
    BY <1>1, TypeInvariant, ReachInvariant, PTL

-----------------------------------------------------------------------------
(* What a search finds.  known are the nodes there were when it began, if  *)
(* all of them were linked; at level 0 it follows at least the links there *)
(* were when it came there, which lead from its first node to all of known.*)

Knows(t) == pc[t] # "idle" /\ job[t].known # {} => job[t].id = NoNode /\ job[t].known \subseteq Joined
Searches(t) == pc[t] = "gather" /\ job[t].id = NoNode
Leads(t, R) ==
    \A S \in SUBSET Ids :
        job[t].seen \subseteq S /\ (\A p \in R : p[1] \in S => p[2] \in S) => job[t].known \subseteq S
Links(R) == \A p \in R : p[1] \in Range(nodes) /\ p[2] \in Range(friends[p[1]][0])
Guided(t, R) ==
    /\ Links(R) /\ Leads(t, R)
    /\ \A p \in R : p[1] \in job[t].seen \ HitNodes(job[t].cand) => p[2] \in job[t].seen
Sees(t) ==
    /\ HitNodes(job[t].res) \cup HitNodes(job[t].cand) \subseteq job[t].seen
    /\ job[t].seen \subseteq Range(nodes)
    /\ Len(nodes) <= Ef => job[t].seen = HitNodes(job[t].res)
    /\ \A r, s \in job[t].res : r.node = s.node => r = s
Tracks(t) ==
    Searches(t) => /\ Sees(t)
                   /\ ~trimmed /\ job[t].known # {} => \E R \in SUBSET (Ids \X Ids) : Guided(t, R)
SearchInv == \A t \in Threads : Knows(t) /\ Tracks(t)

(* Fewer nodes than a search has room for: as many hits as there are nodes *)
(* are the hits of all nodes.                                              *)
LEMMA HitsFit ==
    ASSUME GraphFits, NEW H, IsFiniteSet(H), HitNodes(H) \subseteq Range(nodes),
           \A r, s \in H : r.node = s.node => r = s
    PROVE  /\ Cardinality(H) \in Nat /\ Cardinality(H) <= Len(nodes)
           /\ Cardinality(H) >= Len(nodes) => HitNodes(H) = Range(nodes)
<1>1. /\ Len(nodes) \in Nat /\ IsFiniteSet(Range(nodes)) /\ Range(nodes) = {nodes[i] : i \in 1 .. Len(nodes)}
      /\ Cardinality(H) \in Nat
    BY NodesAre, FS_CardinalityType
<1>3. Cardinality(Range(nodes)) <= Len(nodes) /\ Cardinality(Range(nodes)) \in Nat
    <2> DEFINE g == [i \in 1 .. Len(nodes) |-> nodes[i]]
    <2>1. g \in Surjection(1 .. Len(nodes), Range(nodes))
        BY <1>1 DEF Surjection
    <2>2. ExistsSurjection(1 .. Len(nodes), Range(nodes))
        BY <2>1 DEF ExistsSurjection
    <2> QED
        BY <1>1, <2>2, FS_SurjCardinalityBound, FS_CardinalityType
<1>4. IsFiniteSet(HitNodes(H)) /\ Cardinality(HitNodes(H)) = Cardinality(H)
    <2> DEFINE g == [r \in H |-> r.node]
    <2>1. g \in Bijection(H, HitNodes(H))
        <3>1. g \in [H -> HitNodes(H)]
            BY DEF HitNodes
        <3>2. \A r, s \in H : g[r] = g[s] => r = s
            OBVIOUS
        <3>3. \A n \in HitNodes(H) : \E r \in H : g[r] = n
            BY DEF HitNodes
        <3> QED
            BY <3>1, <3>2, <3>3 DEF Bijection, Injection, IsInjective, Surjection
    <2>2. ExistsBijection(H, HitNodes(H))
        BY <2>1 DEF ExistsBijection
    <2> QED
        BY <2>2, FS_Bijection
<1>5. Cardinality(HitNodes(H)) <= Cardinality(Range(nodes))
    BY <1>1, FS_Subset
<1>6. Cardinality(H) <= Len(nodes)
    BY <1>1, <1>3, <1>4, <1>5
<1>7. ASSUME Cardinality(H) >= Len(nodes) PROVE HitNodes(H) = Range(nodes)
    <2>1. Cardinality(HitNodes(H)) = Cardinality(Range(nodes))
        BY <1>1, <1>3, <1>4, <1>5, <1>7
    <2> QED
        BY <1>1, <2>1, FS_Subset
<1> QED
    BY <1>1, <1>6, <1>7

(* A step of one goroutine.                                                *)
LEMMA TracksStep ==
    ASSUME SearchInv, NEW t \in Threads, Only(t), Joined \subseteq Joined',
           Range(nodes) \subseteq Range(nodes)', Len(nodes') <= Ef => Len(nodes) <= Ef,
           ~trimmed' => ~trimmed /\ LinksGrow,
           Knows(t)', Tracks(t)'
    PROVE  SearchInv'
<1>1. ASSUME NEW u \in Threads, u # t PROVE Knows(u)' /\ Tracks(u)'
    <2>1. pc'[u] = pc[u] /\ job'[u] = job[u] /\ Knows(u) /\ Tracks(u)
        BY <1>1 DEF Only, SearchInv
    <2>2. Knows(u)'
        BY <2>1 DEF Knows
    <2>3. Searches(u)' = Searches(u)
        BY <2>1 DEF Searches
    <2>4. Sees(u) => Sees(u)'
        BY <2>1 DEF Sees, HitNodes
    <2>5. ASSUME ~trimmed', NEW R, Guided(u, R) PROVE Guided(u, R)'
        <3>1. Links(R)'
            BY <2>5 DEF Guided, Links, LinksGrow
        <3>2. Leads(u, R)'
            BY <2>1, <2>5 DEF Guided, Leads
        <3> QED
            BY <2>1, <2>5, <3>1, <3>2 DEF Guided, HitNodes
    <2>6. Tracks(u)'
        BY <2>1, <2>3, <2>4, <2>5 DEF Tracks
    <2> QED
        BY <2>2, <2>6
<1> QED
    BY <1>1 DEF SearchInv

(* Steps that are none of a search at level 0.                             *)
LEMMA TracksOther ==
    ASSUME SearchInv, NEW t \in Threads, Only(t), Joined \subseteq Joined', nodes' = nodes,
           ~trimmed' => ~trimmed /\ LinksGrow, ~Searches(t)',
           \/ pc'[t] = "idle" \/ job'[t].known = {}
           \/ pc[t] # "idle" /\ job'[t].id = job[t].id /\ job'[t].known = job[t].known
    PROVE  SearchInv'
<1>1. Knows(t)'
    BY DEF SearchInv, Knows
<1> QED
    BY <1>1, TracksStep DEF Tracks

(* A search comes to level 0.                                              *)
LEMMA GuideStarts ==
    ASSUME TypeInv, NEW t \in Threads, SameNodes, friends' = friends, NEW e \in Range(nodes),
           Starts(job'[t], e, 0),
           ~trimmed' /\ job'[t].known # {} =>
               /\ Reached /\ job'[t].known \subseteq Joined /\ Exposed \subseteq Joined
               /\ \A T \in Around(NoNode) : e \in T
    PROVE  Tracks(t)'
<1>0. PICK R : R = {p \in Ids \X Ids : p[1] \in Range(nodes) /\ p[2] \in Range(friends[p[1]][0])}
    OBVIOUS
<1>1. /\ job'[t].seen = {e} /\ HitNodes(job'[t].cand) = {e} /\ HitNodes(job'[t].res) = {e}
      /\ \A r, s \in job'[t].res : r = s
    BY StartsHas
<1>2. nodes' = nodes
    BY DEF SameNodes
<1>3. Sees(t)'
    BY <1>1, <1>2 DEF Sees, HitNodes
<1>4. ASSUME ~trimmed', job'[t].known # {} PROVE Guided(t, R)'
    <2>1. Links(R)'
        BY <1>0, <1>2 DEF Links
    <2>2. ASSUME NEW S \in SUBSET Ids, e \in S, \A p \in R : p[1] \in S => p[2] \in S
          PROVE  job'[t].known \subseteq S
        <3>1. ASSUME NEW n \in Range(nodes) \cap S, NEW m \in Range(friends[n][0]) PROVE m \in S
            <4>1. level[n] \in Nat /\ Range(nodes) \subseteq Ids
                BY NodesAre DEF TypeInv
            <4>2. m \in Range(nodes)
                BY <4>1, FriendsAre DEF TypeInv
            <4>3. <<n, m>> \in R
                BY <1>0, <4>1, <4>2
            <4> QED
                BY <2>2, <4>3
        <3>2. Closed(S)
            BY <3>1 DEF Closed
        <3> QED
            BY <1>4, <2>2, <3>2, Spread
    <2>3. Leads(t, R)'
        BY <1>1, <2>2 DEF Leads
    <2> QED
        BY <1>1, <2>1, <2>3 DEF Guided, HitNodes
<1>5. R \in SUBSET (Ids \X Ids)
    BY <1>0
<1> QED
    BY <1>3, <1>4, <1>5 DEF Tracks

LEMMA TracksDescend ==
    ASSUME TypeInv, ReachInv, SearchInv, Joined \subseteq Joined', NEW t \in Threads, Descend(t)
    PROVE  SearchInv'
<1>1. SameNodes /\ friends' = friends /\ DescendDoes(t) /\ trimmed' = trimmed /\ nodes' = nodes
    BY DescendStep DEF Descend, SameNodes, graph, history
<1>2. Only(t) /\ pc[t] = "descend" /\ job'[t].id = job[t].id /\ job'[t].known = job[t].known
    BY <1>1 DEF DescendDoes
<1>3. LinksGrow
    BY <1>1 DEF LinksGrow
<1>4. CASE ~Searches(t)'
    BY <1>1, <1>2, <1>3, <1>4, TracksOther
<1>5. CASE Searches(t)'
    <2>1. job[t].id = NoNode /\ pc'[t] = "gather"
        BY <1>2, <1>5 DEF Searches
    <2>2. PICK e \in HitNodes(job[t].res) : Starts(job'[t], e, 0)
        BY <1>1, <2>1 DEF DescendDoes
    <2>3. e \in Range(nodes) /\ e \in Met(t)
        BY <1>2 DEF TypeInv, JobsFit, JobFits, HasLevel, Met
    <2>4. ASSUME ~trimmed', job'[t].known # {}
          PROVE  /\ Reached /\ job'[t].known \subseteq Joined /\ Exposed \subseteq Joined
                 /\ \A T \in Around(NoNode) : e \in T
        <3>1. Reached /\ MetIn(t) /\ Knows(t)
            BY <1>1, <2>4 DEF ReachInv, Reached, SearchInv
        <3> QED
            BY <1>2, <2>1, <2>3, <2>4, <3>1 DEF MetIn, MetAround, Knows
    <2>5. Tracks(t)'
        BY <1>1, <2>2, <2>3, <2>4, GuideStarts
    <2>6. Knows(t)'
        BY <1>2 DEF SearchInv, Knows
    <2> QED
        BY <1>1, <1>2, <1>3, <2>5, <2>6, TracksStep
<1> QED
    BY <1>4, <1>5

LEMMA TracksSearch ==
    ASSUME TypeInv, ReachInv, SearchInv, Joined \subseteq Joined', NEW t \in Threads, NEW q \in Queries,
           Search(t, q)
    PROVE  SearchInv'
<1>1. SameNodes /\ friends' = friends /\ SearchDoes(t) /\ trimmed' = trimmed /\ nodes' = nodes
    BY SearchStep DEF Search, SameNodes, graph, history
<1>2. /\ Only(t) /\ job'[t].id = NoNode /\ job'[t].known = {n \in done : done = Range(nodes)}
      /\ entryPoint # NoNode /\ pc'[t] = IF maxLevel > 0 THEN "descend" ELSE "gather"
      /\ Starts(job'[t], entryPoint, maxLevel)
    BY <1>1 DEF SearchDoes
<1>3. LinksGrow
    BY <1>1 DEF LinksGrow
<1>4. job'[t].known \subseteq Joined /\ (job'[t].known # {} => Range(nodes) \subseteq Joined)
    BY <1>2 DEF ReachInv, ReachBase
<1>5. Knows(t)'
    BY <1>2, <1>4 DEF Knows
<1>6. Tracks(t)'
    <2>1. CASE maxLevel > 0
        BY <1>2, <2>1 DEF Tracks, Searches
    <2>2. CASE ~(maxLevel > 0)
        <3>1. maxLevel = 0
            BY <2>2, Bounds DEF TypeInv, GraphFits
        <3>2. entryPoint \in Joined /\ entryPoint \in Range(nodes)
            BY <1>2 DEF ReachInv, ReachBase, EntryJoined, Joined
        <3>3. ASSUME ~trimmed', job'[t].known # {}
              PROVE  Reached /\ Exposed \subseteq Joined /\ \A T \in Around(NoNode) : entryPoint \in T
            <4>1. Reached /\ JoinedIn /\ GraphFits
                BY <1>1, <3>3 DEF ReachInv, Reached, TypeInv
            <4> QED
                BY <1>4, <3>2, <3>3, <4>1, AroundIs
        <3>4. Starts(job'[t], entryPoint, 0)
            BY <1>2, <3>1
        <3> QED
            BY <1>1, <1>4, <3>2, <3>3, <3>4, GuideStarts
    <2> QED
        BY <2>1, <2>2
<1> QED
    BY <1>1, <1>2, <1>3, <1>5, <1>6, TracksStep

LEMMA HitsAre ==
    ASSUME NEW q, NEW S
    PROVE  /\ HitNodes({Hit(q, n) : n \in S}) = S
           /\ \A r, s \in {Hit(q, n) : n \in S} : r.node = s.node => r = s
<1>1. \A n \in S : Hit(q, n).node = n
    BY DEF Hit
<1>2. \A r \in {Hit(q, n) : n \in S} : r.node \in S /\ r = Hit(q, r.node)
    BY <1>1
<1>3. \A r, s \in {Hit(q, n) : n \in S} : r.node = s.node => r = s
    BY <1>2
<1>4. \A n \in S : n \in HitNodes({Hit(q, x) : x \in S})
    BY <1>1 DEF HitNodes
<1>5. HitNodes({Hit(q, n) : n \in S}) \subseteq S
    BY <1>2 DEF HitNodes
<1> QED
    BY <1>3, <1>4, <1>5

(* As long as nothing is deleted, the neighbours of a candidate are read   *)
(* without a gap.                                                          *)
LEMMA NothingMoves ==
    ASSUME TypeInv, ReachBase, ~trimmed, NEW n \in Range(nodes), NEW seen,
           NEW next \in Neighbours(n, 0, seen)
    PROVE  next = Range(friends[n][0]) \ seen
<1>1. Moving(n, 0) = {}
    BY DEF Moving, ReachBase, Advances
<1>2. 0 \in DOMAIN friends[n]
    <2>1. level[n] \in Nat
        BY NodesAre DEF TypeInv
    <2>2. 0 <= level[n]
        BY <2>1
    <2> QED
        BY <2>2, FriendsAre DEF TypeInv
<1> QED
    BY <1>1, <1>2 DEF Neighbours

LEMMA SeesExpand ==
    ASSUME TypeInv, NEW t \in Threads, Searches(t), Sees(t), NEW c, NEW next, ExpandTo(t, c, next),
           nodes' = nodes
    PROVE  Sees(t)'
<1> DEFINE new == {Hit(job[t].q, n) : n \in next}
           old == job[t].res
<1>1. /\ c \in job[t].cand /\ next \cap job[t].seen = {}
      /\ job'[t].cand = (job[t].cand \ {c}) \cup new
      /\ job'[t].seen = job[t].seen \cup next
      /\ job'[t].res \in Closest(old, new, Width(t))
    BY DEF ExpandTo
<1>2. /\ HitNodes(job'[t].cand) \subseteq HitNodes(job[t].cand) \cup next
      /\ HitNodes(job'[t].res) \subseteq HitNodes(old) \cup next
      /\ next \subseteq Range(nodes) /\ IsFiniteSet(new) /\ IsFiniteSet(old) /\ old # {}
      /\ Width(t) \in Nat \ {0}
    <2>1. pc[t] \in {"descend", "gather"} /\ old # {}
        BY DEF Searches, TypeInv, JobsFit, JobFits
    <2> QED
        BY <2>1, ExpandAdds
<1>3. /\ HitNodes(old) \cup HitNodes(job[t].cand) \subseteq job[t].seen /\ job[t].seen \subseteq Range(nodes)
      /\ Len(nodes) <= Ef => job[t].seen = HitNodes(old)
      /\ \A r, s \in old : r.node = s.node => r = s
    BY DEF Sees
<1>4. HitNodes(new) = next /\ \A r, s \in new : r.node = s.node => r = s
    BY HitsAre
<1>5. \A r \in old, s \in new : r.node # s.node
    <2>1. \A r \in old : r.node \in HitNodes(old)
        BY DEF HitNodes
    <2>2. \A s \in new : s.node \in HitNodes(new)
        BY DEF HitNodes
    <2> HIDE DEF new, old
    <2> QED
        BY <1>1, <1>3, <1>4, <2>1, <2>2
<1>6. /\ \A r, s \in old \cup new : r.node = s.node => r = s
      /\ HitNodes(old \cup new) = HitNodes(old) \cup next
    BY <1>3, <1>4, <1>5 DEF HitNodes
<1>7. job'[t].res \subseteq old \cup new
    BY <1>1, <1>2, ClosestIs
<1>8. ASSUME Len(nodes) <= Ef PROVE job'[t].seen = HitNodes(job'[t].res)
    <2>1. GraphFits /\ Width(t) = Ef /\ IsFiniteSet(old \cup new)
        BY <1>2, FS_Union DEF TypeInv, Searches, Width
    <2>2. HitNodes(old \cup new) \subseteq Range(nodes)
        BY <1>2, <1>3, <1>6
    <2>3. PICK H : H = old \cup new
        OBVIOUS
    <2>4. Cardinality(H) \in Nat /\ Cardinality(H) <= Len(nodes)
        BY <1>6, <2>1, <2>2, <2>3, HitsFit
    <2>5. Cardinality(old \cup new) <= Ef
        BY <1>8, <2>1, <2>3, <2>4, NodesAre, Bounds
    <2>6. PICK S \in Closest(old, new, Ef) : S = job'[t].res
        BY <1>1, <2>1
    <2>7. S = old \cup new
        <3> HIDE DEF old, new
        <3> QED
            BY <1>2, <2>5, <2>6, Bounds, ClosestAll
    <2> QED
        BY <1>1, <1>3, <1>6, <1>8, <2>6, <2>7
<1>9. HitNodes(job'[t].res) \cup HitNodes(job'[t].cand) \subseteq job'[t].seen
    BY <1>1, <1>2, <1>3
<1>10. job'[t].seen \subseteq Range(nodes)
    BY <1>1, <1>2, <1>3
<1>11. \A r, s \in job'[t].res : r.node = s.node => r = s
    BY <1>6, <1>7
<1>12. Sees(t)' <=> /\ HitNodes(job'[t].res) \cup HitNodes(job'[t].cand) \subseteq job'[t].seen
                    /\ job'[t].seen \subseteq Range(nodes)
                    /\ Len(nodes) <= Ef => job'[t].seen = HitNodes(job'[t].res)
                    /\ \A r, s \in job'[t].res : r.node = s.node => r = s
    BY DEF Sees, HitNodes
<1> QED
    BY <1>8, <1>9, <1>10, <1>11, <1>12

LEMMA TracksExpand ==
    ASSUME TypeInv, ReachInv, SearchInv, Joined \subseteq Joined', NEW t \in Threads, Expand(t)
    PROVE  SearchInv'
<1>1. /\ SameNodes /\ friends' = friends /\ ExpandDoes(t) /\ trimmed' = trimmed /\ nodes' = nodes
      /\ GraphFits /\ ReachBase
    BY ExpandStep DEF Expand, SameNodes, graph, history, TypeInv, ReachInv
<1>2. /\ Only(t) /\ pc'[t] = pc[t] /\ pc[t] \in {"descend", "gather"} /\ job'[t].id = job[t].id
      /\ job'[t].known = job[t].known
    BY <1>1 DEF ExpandDoes
<1>3. PICK c, next : ExpandTo(t, c, next)
    BY <1>1 DEF ExpandDoes
<1>4. LinksGrow
    BY <1>1 DEF LinksGrow
<1>5. Searches(t)' = Searches(t)
    BY <1>2 DEF Searches
<1>6. CASE ~Searches(t)
    BY <1>1, <1>2, <1>4, <1>5, <1>6, TracksOther
<1>7. CASE Searches(t)
    <2>1. Knows(t)' /\ Tracks(t) /\ Sees(t)
        BY <1>2, <1>7 DEF SearchInv, Knows, Tracks
    <2>2. Sees(t)'
        BY <1>1, <1>3, <1>7, <2>1, SeesExpand
    <2>3. ASSUME ~trimmed', NEW R, Guided(t, R) PROVE Guided(t, R)'
        <3>1. /\ c \in job[t].cand /\ c.node \in Range(nodes)
              /\ next \in Neighbours(c.node, job[t].at, job[t].seen)
              /\ job'[t].cand = (job[t].cand \ {c}) \cup {Hit(job[t].q, n) : n \in next}
              /\ job'[t].seen = job[t].seen \cup next
            BY <1>3 DEF ExpandTo
        <3>2. job[t].at = 0
            BY <1>1, <1>7 DEF ReachBase, Advances, Searches
        <3>3. next = Range(friends[c.node][0]) \ job[t].seen
            BY <1>1, <2>3, <3>1, <3>2, NothingMoves
        <3>4. Links(R)' /\ Links(R)
            BY <1>1, <2>3 DEF Guided, Links
        <3>5. Leads(t, R)'
            BY <1>2, <2>3, <3>1 DEF Guided, Leads
        <3>6. /\ next \subseteq HitNodes(job'[t].cand)
              /\ HitNodes(job[t].cand) \subseteq HitNodes(job'[t].cand) \cup {c.node}
            <4>1. PICK new : new = {Hit(job[t].q, n) : n \in next}
                OBVIOUS
            <4>2. HitNodes(new) = next
                BY <4>1, HitsAre
            <4>3. HitNodes(new) \subseteq HitNodes(job'[t].cand)
                BY <3>1, <4>1 DEF HitNodes
            <4>4. HitNodes(job[t].cand) \subseteq HitNodes(job'[t].cand) \cup {c.node}
                BY <3>1 DEF HitNodes
            <4> QED
                BY <4>2, <4>3, <4>4
        <3>7. ASSUME NEW p \in R, p[1] \in job'[t].seen \ HitNodes(job'[t].cand) PROVE p[2] \in job'[t].seen
            <4>1. p[1] \in job[t].seen
                BY <3>1, <3>6, <3>7
            <4>2. CASE p[1] = c.node
                BY <3>1, <3>3, <3>4, <4>2 DEF Links
            <4>3. CASE p[1] # c.node
                <5>1. p[1] \in job[t].seen \ HitNodes(job[t].cand)
                    BY <3>6, <3>7, <4>1, <4>3
                <5> QED
                    BY <2>3, <3>1, <5>1 DEF Guided
            <4> QED
                BY <4>2, <4>3
        <3> QED
            BY <3>4, <3>5, <3>7 DEF Guided, HitNodes
    <2>4. Tracks(t)'
        BY <1>1, <1>2, <1>7, <2>1, <2>2, <2>3 DEF Tracks
    <2> QED
        BY <1>1, <1>2, <1>4, <2>1, <2>4, TracksStep
<1> QED
    BY <1>6, <1>7

LEMMA TracksInsertNew ==
    ASSUME TypeInv, ReachInv, SearchInv, Joined \subseteq Joined', NEW t \in Threads, NEW id \in Ids,
           NEW v \in Vectors[id], NEW l \in Levels(id), InsertNew(t, id, v, l)
    PROVE  SearchInv'
<1>1. InsertNewDoes(t, id, l) /\ InsertChanges(id, l) /\ trimmed' = trimmed /\ GraphFits
    BY InsertNewStep, InsertChangesStep DEF InsertNew, TypeInv
<1>2. /\ Only(t) /\ pc[t] = "idle" /\ Range(nodes)' = Range(nodes) \cup {id} /\ id \notin Range(nodes)
      /\ Len(nodes') = Len(nodes) + 1 /\ Len(nodes) \in Nat /\ Range(nodes) \subseteq Ids
    BY <1>1, NodesAre DEF InsertNewDoes, InsertChanges
<1>3. Len(nodes') <= Ef => Len(nodes) <= Ef
    BY <1>2, Bounds
<1>4. LinksGrow
    <2>1. nodes # <<>> => nodes' # <<>> /\ nodes'[1] = nodes[1]
        <3>1. nodes = <<>> <=> Len(nodes) = 0
            BY <1>1, RangeIs DEF GraphFits
        <3>2. nodes = <<>> \/ 1 \in 1 .. Len(nodes)
            BY <1>2, <3>1
        <3> QED
            BY <1>1, <1>2, <3>2, EmptyRange DEF InsertChanges
    <2>2. \A n \in Range(nodes) : friends'[n] = friends[n]
        BY <1>1, <1>2 DEF InsertChanges
    <2> QED
        BY <1>2, <2>1, <2>2 DEF LinksGrow
<1>5. Knows(t)' /\ Tracks(t)'
    <2>1. CASE entryPoint = NoNode
        BY <1>1, <1>2, <2>1 DEF InsertNewDoes, Knows, Tracks, Searches
    <2>2. CASE entryPoint # NoNode
        BY <1>1, <2>2 DEF InsertNewDoes, Knows, Tracks, Searches
    <2> QED
        BY <2>1, <2>2
<1> QED
    BY <1>1, <1>2, <1>3, <1>4, <1>5, TracksStep

LEMMA TracksSame ==
    ASSUME SearchInv, nodes' = nodes, friends' = friends, pc' = pc, job' = job, trimmed' = trimmed,
           Joined \subseteq Joined'
    PROVE  SearchInv'
<1>1. ASSUME NEW t \in Threads PROVE Knows(t)' /\ Tracks(t)'
    <2>1. Knows(t) /\ Tracks(t)
        BY DEF SearchInv
    <2>2. Knows(t)'
        BY <2>1 DEF Knows
    <2>3. Sees(t)' = Sees(t) /\ Searches(t)' = Searches(t) /\ \A R : Guided(t, R)' = Guided(t, R)
        BY DEF Sees, HitNodes, Searches, Guided, Links, Leads
    <2> QED
        BY <2>1, <2>2, <2>3 DEF Tracks
<1> QED
    BY <1>1 DEF SearchInv

LEMMA SearchKept == ASSUME TypeInv, ReachInv, SearchInv, [Next]_vars PROVE SearchInv'
<1>1. Joined \subseteq Joined'
    BY BaseKept DEF ReachInv
<1>2. ASSUME NEW t \in Threads, NEW id \in Ids, NEW v \in Vectors[id], InsertKnown(t, id, v) PROVE SearchInv'
    BY <1>1, <1>2, TracksSame DEF InsertKnown, threads, history
<1>3. ASSUME NEW t \in Threads, NEW id \in Deletable, DeleteBegin(t, id) PROVE SearchInv'
    <2>1. nodes' = nodes /\ trimmed'
        BY <1>3 DEF DeleteBegin
    <2>2. Only(t) /\ pc'[t] = "delete" /\ job'[t].known = {}
        BY <1>3, DeleteBeginStep DEF DeleteBeginDoes
    <2> QED
        BY <1>1, <2>1, <2>2, TracksOther DEF Searches
<1>4. ASSUME NEW t \in Threads, Gathered(t) \/ LockFirst(t) \/ Connected(t) \/ PruneRead(t) PROVE SearchInv'
    <2>1. nodes' = nodes /\ friends' = friends /\ trimmed' = trimmed
        BY <1>4 DEF Gathered, LockFirst, Connected, PruneRead, graph, history
    <2>2. /\ Only(t) /\ pc[t] # "idle" /\ pc'[t] # "gather" /\ job'[t].id = job[t].id
          /\ job'[t].known = job[t].known
        BY <1>4, GatheredStep, LockFirstStep, ConnectedStep, PruneReadStep
           DEF GatheredDoes, LockFirstDoes, ConnectedDoes, PruneReadDoes
    <2>3. LinksGrow
        BY <2>1 DEF LinksGrow
    <2> QED
        BY <1>1, <2>1, <2>2, <2>3, TracksOther DEF Searches
<1>5. ASSUME NEW t \in Threads, Link(t) PROVE SearchInv'
    <2>1. nodes' = nodes /\ trimmed' = trimmed /\ LinksGrow
        BY <1>5, LinkAtZero DEF Link, graph, history
    <2>2. /\ Only(t) /\ pc[t] # "idle" /\ pc'[t] # "gather" /\ job'[t].id = job[t].id
          /\ job'[t].known = job[t].known
        BY <1>5, LinkStep DEF LinkDoes
    <2> QED
        BY <1>1, <2>1, <2>2, TracksOther DEF Searches
<1>6. ASSUME NEW t \in Threads, PruneWrite(t) PROVE SearchInv'
    <2>1. nodes' = nodes /\ (~trimmed' => ~trimmed /\ LinksGrow)
        BY <1>6, PruneAtZero DEF PruneWrite, graph
    <2>2. /\ Only(t) /\ pc[t] # "idle" /\ pc'[t] # "gather" /\ job'[t].id = job[t].id
          /\ job'[t].known = job[t].known
        BY <1>6, PruneWriteStep DEF PruneWriteDoes
    <2> QED
        BY <1>1, <2>1, <2>2, TracksOther DEF Searches
<1>7. ASSUME NEW t \in Threads, NextLevel(t) PROVE SearchInv'
    <2>1. nodes' = nodes /\ friends' = friends /\ trimmed' = trimmed
        BY <1>7 DEF NextLevel, graph, history
    <2>2. /\ Only(t) /\ pc[t] # "idle" /\ job'[t].id = job[t].id /\ job'[t].known = job[t].known
          /\ job[t].id # NoNode
        BY <1>7, NextLevelStep, NodesAre DEF NextLevelDoes, TypeInv
    <2>3. LinksGrow
        BY <2>1 DEF LinksGrow
    <2> QED
        BY <1>1, <2>1, <2>2, <2>3, TracksOther DEF Searches
<1>8. ASSUME NEW t \in Threads, Finish(t) \/ Answer(t) PROVE SearchInv'
    <2>1. nodes' = nodes /\ friends' = friends /\ trimmed' = trimmed
        BY <1>8 DEF Finish, Answer, graph, history
    <2>2. Only(t) /\ pc'[t] = "idle"
        BY <1>8, ReturnStep DEF Finish, Answer, ReturnDoes
    <2>3. LinksGrow
        BY <2>1 DEF LinksGrow
    <2> QED
        BY <1>1, <2>1, <2>2, <2>3, TracksOther DEF Searches
<1>9. ASSUME NEW t \in Threads, DeleteNext(t) \/ DeleteLevel(t) PROVE SearchInv'
    <2>1. nodes' = nodes /\ trimmed' = trimmed
        BY <1>9 DEF DeleteNext, DeleteLevel, graph, history
    <2>2. /\ Only(t) /\ pc[t] = "delete" /\ pc'[t] = "delete" /\ job'[t].id = job[t].id
          /\ job'[t].known = job[t].known
        BY <1>9, DeleteNextStep, DeleteLevelStep DEF DeleteDoes
    <2>3. trimmed
        BY <2>2 DEF ReachInv, ReachBase, Advances
    <2> QED
        BY <1>1, <2>1, <2>2, <2>3, TracksOther DEF Searches
<1>10. ASSUME NEW t \in Threads, DeleteEnd(t) PROVE SearchInv'
    <2>1. nodes' = nodes /\ trimmed' = trimmed /\ friends' = friends
        BY <1>10 DEF DeleteEnd, graph, history
    <2>2. Only(t) /\ pc'[t] = "idle"
        BY <1>10, ReturnStep DEF DeleteEnd, ReturnDoes
    <2>3. LinksGrow
        BY <2>1 DEF LinksGrow
    <2> QED
        BY <1>1, <2>1, <2>2, <2>3, TracksOther DEF Searches
<1>11. ASSUME NEW t \in Threads, Step(t) PROVE SearchInv'
    BY <1>1, <1>4, <1>5, <1>6, <1>7, <1>8, <1>9, <1>10, <1>11, TracksExpand, TracksDescend DEF Step
<1>12. ASSUME UNCHANGED vars PROVE SearchInv'
    BY <1>1, <1>12, TracksSame DEF vars, graph, threads, history
<1> QED
    BY <1>1, <1>2, <1>3, <1>11, <1>12, TracksSearch, TracksInsertNew DEF Next

LEMMA SearchInvariant == Spec /\ []Orderly => []SearchInv
<1>1. Init => SearchInv
    BY DEF Init, SearchInv, Knows, Tracks, Searches
<1>2. TypeInv /\ ReachInv /\ SearchInv /\ [Next]_vars => SearchInv'
    BY SearchKept
<1> QED
    BY <1>1, <1>2, TypeInvariant, ReachInvariant, PTL DEF Spec

(* A search that began when all nodes were linked, and has room for all,   *)
(* returns each of them that is not deleted: it ends with no link left to  *)
(* follow, or with a hit for every node there is.                          *)
THEOREM SettledCorrect == Spec /\ []Orderly => []SettledAreFound
<1>1. ASSUME TypeInv, SearchInv PROVE SettledAreFound
    <2> SUFFICES ASSUME NEW t \in Threads, Found(t), ~trimmed, Len(nodes) <= Ef, job[t].known # {}
                 PROVE  job[t].known \subseteq HitNodes(job[t].res)
        BY DEF SettledAreFound, Results, HitNodes
    <2>1. Searches(t) /\ LayerDone(t) /\ Knows(t) /\ Tracks(t)
        BY <1>1 DEF Found, Searches, SearchInv
    <2>2. Sees(t) /\ job[t].seen = HitNodes(job[t].res)
        BY <2>1 DEF Tracks, Sees
    <2>3. CASE job[t].cand = {}
        <3>1. PICK R : Guided(t, R)
            BY <2>1 DEF Tracks
        <3>2. HitNodes(job[t].cand) = {}
            BY <2>3 DEF HitNodes
        <3>3. \A p \in R : p[1] \in job[t].seen => p[2] \in job[t].seen
            BY <3>1, <3>2 DEF Guided
        <3>4. job[t].seen \in SUBSET Ids
            BY <1>1, JobHas DEF TypeInv
        <3> QED
            BY <2>2, <3>1, <3>3, <3>4 DEF Guided, Leads
    <2>4. CASE job[t].cand # {}
        <3>1. Cardinality(job[t].res) >= Ef /\ GraphFits /\ IsFiniteSet(job[t].res)
            BY <1>1, <2>1, <2>4 DEF LayerDone, Width, Searches, TypeInv, JobsFit, JobFits
        <3>2. /\ HitNodes(job[t].res) \subseteq Range(nodes)
              /\ \A r, s \in job[t].res : r.node = s.node => r = s
            BY <2>2 DEF Sees
        <3>3. Cardinality(job[t].res) >= Len(nodes)
            <4>1. Cardinality(job[t].res) \in Nat /\ Len(nodes) \in Nat /\ Ef \in Nat
                BY <3>1, FS_CardinalityType, NodesAre, Bounds
            <4> QED
                BY <3>1, <4>1
        <3>4. HitNodes(job[t].res) = Range(nodes)
            BY <3>1, <3>2, <3>3, HitsFit
        <3>5. job[t].known \subseteq Range(nodes)
            BY <2>1 DEF Knows, Joined, Searches
        <3> QED
            BY <3>4, <3>5
    <2> QED
        BY <2>3, <2>4
<1> QED
    BY <1>1, TypeInvariant, SearchInvariant, PTL

(* Both of them in a graph of two levels, whatever goroutines do.          *)
COROLLARY TwoLevels == ASSUME LevelCap <= 1 PROVE Spec => [](AllReachable /\ SettledAreFound)
<1>1. Orderly
    BY DEF Orderly
<1> QED
    BY <1>1, ReachableCorrect, SettledCorrect, PTL
=============================================================================
