------------------------ MODULE LayeredIndex_proofs ------------------------
(***************************************************************************)
(* Theorems about LayeredIndex, for any ids, vectors, limits and numbers   *)
(* of insertions and processes, and both implementations.                  *)
(***************************************************************************)
EXTENDS LayeredIndex, FiniteSetTheorems, WellFoundedInduction, TLAPS

-----------------------------------------------------------------------------
(* Numbers, and functions that are defined along a sequence.               *)

LEMMA LeastElement ==
    ASSUME NEW S \in SUBSET Nat, S # {}
    PROVE  \E x \in S : \A y \in S : x <= y
<1> DEFINE Below(n) == 0 .. n - 1
           Family == {Below(n) : n \in S}
<1>1. Family \subseteq FiniteSubsetsOf(Nat) /\ Family # {}
    <2>1. \A n \in S : IsFiniteSet(Below(n)) /\ Below(n) \in SUBSET Nat
        BY FS_Interval
    <2> QED
        BY <2>1 DEF FiniteSubsetsOf
<1>2. PICK least \in Family : \A b \in Family : <<b, least>> \notin StrictSubsetOrdering(Nat)
    <2> HIDE DEF Family
    <2> QED
        BY <1>1, WFMin, FS_StrictSubsetOrderingWellFounded
<1>3. PICK x \in S : least = Below(x)
    OBVIOUS
<1>4. ASSUME NEW y \in S, ~(x <= y) PROVE FALSE
    <2>1. Below(y) \subseteq Below(x) /\ y \in Below(x) /\ y \notin Below(y)
        BY <1>4
    <2>2. <<Below(y), Below(x)>> \in StrictSubsetOrdering(Nat)
        BY <2>1 DEF StrictSubsetOrdering
    <2> QED
        BY <1>2, <1>3, <2>2
<1> QED
    BY <1>4

(* Induction, for a set of numbers.                                        *)
LEMMA Induction ==
    ASSUME NEW S \in SUBSET Nat, 0 \in S, \A n \in S : n + 1 \in S
    PROVE  S = Nat
<1>1. SUFFICES ASSUME Nat \ S # {} PROVE FALSE
    OBVIOUS
<1>2. PICK x \in Nat \ S : \A y \in Nat \ S : x <= y
    BY <1>1, LeastElement
<1>3. x - 1 \in Nat /\ x - 1 \in S
    BY <1>2
<1> QED
    BY <1>2, <1>3

(* What holds at 0 and is kept by every step holds at n.                   *)
LEMMA StaysIn ==
    ASSUME NEW S, NEW n \in Nat, NEW h, h[0] \in S,
           \A m \in 1 .. n : h[m - 1] \in S => h[m] \in S
    PROVE  \A m \in 0 .. n : h[m] \in S
<1> DEFINE Good == {m \in Nat : m <= n => h[m] \in S}
<1>1. 0 \in Good
    OBVIOUS
<1>2. ASSUME NEW m \in Good PROVE m + 1 \in Good
    <2>1. m + 1 \in Nat /\ (m + 1) - 1 = m
        OBVIOUS
    <2>2. m + 1 <= n => m + 1 \in 1 .. n /\ h[m] \in S
        BY <2>1
    <2>3. m + 1 <= n => h[m + 1] \in S
        BY <2>1, <2>2
    <2> QED
        BY <2>1, <2>3
<1>3. Good = Nat
    <2>1. Good \in SUBSET Nat
        OBVIOUS
    <2> HIDE DEF Good
    <2> QED
        BY <1>1, <1>2, <2>1, Induction
<1> QED
    BY <1>3

IsFold(g, step, init, seq, m) ==
    g = [n \in 0 .. m |-> IF n = 0 THEN init ELSE step[<<g[n - 1], seq[n]>>]]

LEMMA FoldExists ==
    ASSUME NEW S, NEW T, NEW step \in [S \X T -> S], NEW init \in S, NEW seq \in Seq(T)
    PROVE  \E g \in [0 .. Len(seq) -> S] : IsFold(g, step, init, seq, Len(seq))
<1> DEFINE Folded == {m \in Nat : m <= Len(seq) =>
                                    \E g \in [0 .. m -> S] : IsFold(g, step, init, seq, m)}
<1>1. 0 \in Folded
    <2> DEFINE first == [n \in 0 .. 0 |-> init]
    <2>1. first \in [0 .. 0 -> S]
        OBVIOUS
    <2>2. IsFold(first, step, init, seq, 0)
        BY DEF IsFold
    <2> QED
        BY <2>1, <2>2
<1>2. ASSUME NEW m \in Folded PROVE m + 1 \in Folded
    <2> SUFFICES ASSUME m + 1 <= Len(seq)
                 PROVE  \E g \in [0 .. m + 1 -> S] : IsFold(g, step, init, seq, m + 1)
        OBVIOUS
    <2>1. PICK g \in [0 .. m -> S] : IsFold(g, step, init, seq, m)
        OBVIOUS
    <2>2. m \in Nat /\ m + 1 \in 1 .. Len(seq) /\ seq[m + 1] \in T /\ g[m] \in S
        BY <2>1
    <2> DEFINE next == step[<<g[m], seq[m + 1]>>]
               longer == [n \in 0 .. m + 1 |-> IF n = m + 1 THEN next ELSE g[n]]
    <2>3. next \in S
        BY <2>2
    <2>4. longer \in [0 .. m + 1 -> S]
        BY <2>1, <2>2, <2>3
    <2>5. ASSUME NEW n \in 0 .. m + 1
          PROVE  longer[n] = IF n = 0 THEN init ELSE step[<<longer[n - 1], seq[n]>>]
        <3>1. CASE n = m + 1
            <4>1. n - 1 = m /\ m \in 0 .. m + 1 /\ m # m + 1 /\ n # 0
                BY <2>2, <3>1
            <4>2. longer[n - 1] = g[m]
                BY <4>1
            <4> QED
                BY <3>1, <4>1, <4>2
        <3>2. CASE n # m + 1 /\ n # 0
            <4>1. n \in 0 .. m /\ n - 1 \in 0 .. m + 1 /\ n - 1 # m + 1
                BY <2>2, <3>2
            <4>2. longer[n] = g[n] /\ longer[n - 1] = g[n - 1]
                BY <3>2, <4>1
            <4>3. g[n] = step[<<g[n - 1], seq[n]>>]
                BY <2>1, <3>2, <4>1 DEF IsFold
            <4> QED
                BY <3>2, <4>2, <4>3
        <3>3. CASE n = 0
            <4>1. 0 \in 0 .. m /\ 0 # m + 1
                BY <2>2
            <4>2. g[0] = init
                BY <2>1, <4>1 DEF IsFold
            <4> QED
                BY <3>3, <4>1, <4>2
        <3> QED
            BY <2>2, <3>1, <3>2, <3>3
    <2>6. IsFold(longer, step, init, seq, m + 1)
        <3>1. longer = [n \in 0 .. m + 1 |-> longer[n]]
            OBVIOUS
        <3> HIDE DEF longer, next
        <3> QED
            BY <2>5, <3>1 DEF IsFold
    <2> HIDE DEF longer, next
    <2> QED
        BY <2>4, <2>6
<1>3. Folded = Nat
    <2>1. Folded \in SUBSET Nat
        OBVIOUS
    <2> HIDE DEF Folded
    <2> QED
        BY <1>1, <1>2, <2>1, Induction
<1>4. Len(seq) \in Folded
    <2>1. Len(seq) \in Nat
        OBVIOUS
    <2> HIDE DEF Folded
    <2> QED
        BY <1>3, <2>1
<1> QED
    BY <1>4

-----------------------------------------------------------------------------
(* Maps.                                                                   *)

Maps(A, B) == UNION {[D -> B] : D \in SUBSET A}

LEMMA MapIs ==
    ASSUME NEW A, NEW B, NEW g
    PROVE  g \in Maps(A, B) <=> g \in [DOMAIN g -> B] /\ DOMAIN g \subseteq A
BY DEF Maps

LEMMA MapSetTo ==
    ASSUME NEW A, NEW B, NEW g \in Maps(A, B), NEW x \in A, NEW v \in B
    PROVE  /\ SetTo(g, x, v) \in Maps(A, B) /\ DOMAIN SetTo(g, x, v) = DOMAIN g \cup {x}
           /\ SetTo(g, x, v)[x] = v
           /\ \A y \in DOMAIN g : y # x => SetTo(g, x, v)[y] = g[y]
<1>1. g \in [DOMAIN g -> B] /\ DOMAIN g \subseteq A
    BY MapIs
<1>2. SetTo(g, x, v) = [y \in DOMAIN g \cup {x} |-> IF y = x THEN v ELSE g[y]]
    BY DEF SetTo
<1>3. /\ SetTo(g, x, v) \in [DOMAIN g \cup {x} -> B]
      /\ DOMAIN SetTo(g, x, v) = DOMAIN g \cup {x}
    BY <1>1, <1>2
<1>4. SetTo(g, x, v) \in Maps(A, B)
    BY <1>1, <1>3, MapIs
<1> QED
    BY <1>2, <1>3, <1>4

LEMMA MapPut ==
    ASSUME NEW g, NEW x, NEW v
    PROVE  Put(g, x, v) = SetTo(g, x, v)
BY DEF Put, SetTo

LEMMA MapWithout ==
    ASSUME NEW A, NEW B, NEW g \in Maps(A, B), NEW S
    PROVE  /\ Without(g, S) \in Maps(A, B) /\ DOMAIN Without(g, S) = DOMAIN g \ S
           /\ \A y \in DOMAIN g \ S : Without(g, S)[y] = g[y]
<1>1. g \in [DOMAIN g -> B] /\ DOMAIN g \subseteq A
    BY MapIs
<1>2. Without(g, S) \in [DOMAIN g \ S -> B] /\ DOMAIN Without(g, S) = DOMAIN g \ S
    BY <1>1 DEF Without
<1>3. Without(g, S) \in Maps(A, B)
    BY <1>1, <1>2, MapIs
<1> QED
    BY <1>2, <1>3 DEF Without

LEMMA EmptyMap ==
    ASSUME NEW A, NEW B
    PROVE  /\ Nothing \in Maps(A, B) /\ DOMAIN Nothing = {}
           /\ <<>> \in Maps(A, B) /\ DOMAIN <<>> = {}
<1>1. Nothing \in [{} -> B] /\ DOMAIN Nothing = {}
    BY DEF Nothing
<1>2. DOMAIN <<>> = {} /\ <<>> = [x \in {} |-> x]
    OBVIOUS
<1>3. <<>> \in [{} -> B]
    BY <1>2
<1> QED
    BY <1>1, <1>2, <1>3, MapIs

-----------------------------------------------------------------------------
(* The elements of a sequence that are in a set.                           *)

AmongTable(s, S) ==
    CHOOSE kept : kept = [n \in 0 .. Len(s) |->
                             IF n = 0 THEN <<>>
                             ELSE IF s[n] \in S THEN Append(kept[n - 1], s[n]) ELSE kept[n - 1]]

LEMMA AmongStep ==
    ASSUME NEW T, NEW s \in Seq(T), NEW S
    PROVE  /\ Among(s, S) = AmongTable(s, S)[Len(s)]
           /\ AmongTable(s, S)[0] = <<>>
           /\ \A n \in 1 .. Len(s) :
                 AmongTable(s, S)[n] = IF s[n] \in S THEN Append(AmongTable(s, S)[n - 1], s[n])
                                       ELSE AmongTable(s, S)[n - 1]
<1> DEFINE step == [p \in Seq(T) \X T |-> IF p[2] \in S THEN Append(p[1], p[2]) ELSE p[1]]
           Is(kept) == kept = [n \in 0 .. Len(s) |->
                             IF n = 0 THEN <<>>
                             ELSE IF s[n] \in S THEN Append(kept[n - 1], s[n]) ELSE kept[n - 1]]
<1>1. step \in [Seq(T) \X T -> Seq(T)] /\ <<>> \in Seq(T)
    OBVIOUS
<1>2. PICK g \in [0 .. Len(s) -> Seq(T)] : IsFold(g, step, <<>>, s, Len(s))
    <2> HIDE DEF step
    <2> QED
        BY <1>1, FoldExists
<1>3. ASSUME NEW n \in 0 .. Len(s)
      PROVE  g[n] = IF n = 0 THEN <<>>
                    ELSE IF s[n] \in S THEN Append(g[n - 1], s[n]) ELSE g[n - 1]
    <2>1. g[n] = IF n = 0 THEN <<>> ELSE step[<<g[n - 1], s[n]>>]
        <3> HIDE DEF step
        <3> QED
            BY <1>2 DEF IsFold
    <2>2. CASE n # 0
        <3>1. n - 1 \in 0 .. Len(s) /\ g[n - 1] \in Seq(T) /\ s[n] \in T
            BY <1>2, <2>2
        <3>2. step[<<g[n - 1], s[n]>>] = IF s[n] \in S THEN Append(g[n - 1], s[n]) ELSE g[n - 1]
            BY <3>1
        <3> QED
            BY <2>1, <2>2, <3>2
    <2>3. CASE n = 0
        BY <2>1, <2>3
    <2> QED
        BY <2>2, <2>3
<1>4. g = [n \in 0 .. Len(s) |-> g[n]]
    BY <1>2
<1>5. \E kept : Is(kept)
    BY <1>3, <1>4
<1> DEFINE table == AmongTable(s, S)
<1>6. Is(table)
    BY <1>5 DEF AmongTable
<1>7. Among(s, S) = table[Len(s)]
    BY DEF Among, AmongTable
<1>8. Len(s) \in Nat
    OBVIOUS
<1> HIDE DEF table
<1>9. \A n \in 0 .. Len(s) :
          table[n] = IF n = 0 THEN <<>>
                     ELSE IF s[n] \in S THEN Append(table[n - 1], s[n]) ELSE table[n - 1]
    BY <1>6
<1>10. /\ table[0] = <<>>
       /\ \A n \in 1 .. Len(s) :
             table[n] = IF s[n] \in S THEN Append(table[n - 1], s[n]) ELSE table[n - 1]
    BY <1>8, <1>9
<1> QED
    BY <1>7, <1>10 DEF table

(* q has elements of the first n of s, which are in S, and none twice      *)
(* unless s has.                                                           *)
KeptUpTo(T, s, S, n, q) ==
    /\ q \in Seq(T)
    /\ \A p \in 1 .. Len(q) : q[p] \in S /\ \E m \in 1 .. n : q[p] = s[m]
    /\ IsInjective(s) => IsInjective(q)

LEMMA AppendElement ==
    ASSUME NEW T, NEW q \in Seq(T), NEW e \in T
    PROVE  /\ Append(q, e) \in Seq(T) /\ Len(Append(q, e)) = Len(q) + 1 /\ Len(q) \in Nat
           /\ DOMAIN q = 1 .. Len(q) /\ DOMAIN Append(q, e) = 1 .. Len(q) + 1
           /\ Append(q, e)[Len(q) + 1] = e
           /\ \A p \in 1 .. Len(q) : Append(q, e)[p] = q[p]
OBVIOUS

LEMMA KeptStep ==
    ASSUME NEW T, NEW s \in Seq(T), NEW S, NEW n \in 1 .. Len(s), NEW q,
           KeptUpTo(T, s, S, n - 1, q)
    PROVE  KeptUpTo(T, s, S, n, IF s[n] \in S THEN Append(q, s[n]) ELSE q)
<1> n \in Nat /\ n \in DOMAIN s /\ s[n] \in T /\ DOMAIN s = 1 .. Len(s) /\ Len(s) \in Nat
    OBVIOUS
<1>1. q \in Seq(T) /\ Len(q) \in Nat /\ DOMAIN q = 1 .. Len(q)
    BY DEF KeptUpTo
<1>2. \A p \in 1 .. Len(q) : q[p] \in S /\ \E m \in 1 .. n - 1 : q[p] = s[m]
    BY DEF KeptUpTo
<1>3. \A p \in 1 .. Len(q) : q[p] \in S /\ \E m \in 1 .. n : q[p] = s[m]
    BY <1>2
<1>4. CASE s[n] \notin S
    BY <1>3, <1>4 DEF KeptUpTo
<1>5. CASE s[n] \in S
    <2> DEFINE r == Append(q, s[n])
    <2>1. /\ r \in Seq(T) /\ Len(r) = Len(q) + 1 /\ r[Len(q) + 1] = s[n]
          /\ DOMAIN r = 1 .. Len(q) + 1 /\ \A p \in 1 .. Len(q) : r[p] = q[p]
        BY <1>1, AppendElement
    <2> HIDE DEF r
    <2>2. \A p \in 1 .. Len(r) : p \in 1 .. Len(q) \/ p = Len(q) + 1
        BY <1>1, <2>1
    <2>3. \A p \in 1 .. Len(r) : r[p] \in S /\ \E m \in 1 .. n : r[p] = s[m]
        <3> SUFFICES ASSUME NEW p \in 1 .. Len(r)
                     PROVE  r[p] \in S /\ \E m \in 1 .. n : r[p] = s[m]
            OBVIOUS
        <3>1. CASE p \in 1 .. Len(q)
            BY <1>3, <2>1, <3>1
        <3>2. CASE p = Len(q) + 1
            BY <1>5, <2>1, <3>2
        <3> QED
            BY <2>2, <3>1, <3>2
    <2>4. ASSUME IsInjective(s) PROVE IsInjective(r)
        <3>1. IsInjective(q)
            BY <2>4 DEF KeptUpTo
        <3>2. ASSUME NEW p \in 1 .. Len(q) PROVE q[p] # s[n]
            <4>1. PICK m \in 1 .. n - 1 : q[p] = s[m]
                BY <1>2
            <4>2. m \in DOMAIN s /\ m # n
                BY <4>1
            <4> QED
                BY <2>4, <4>1, <4>2 DEF IsInjective
        <3>3. ASSUME NEW a \in DOMAIN r, NEW b \in DOMAIN r, r[a] = r[b] PROVE a = b
            <4>1. CASE a \in 1 .. Len(q) /\ b \in 1 .. Len(q)
                BY <1>1, <2>1, <3>1, <3>3, <4>1 DEF IsInjective
            <4>2. CASE a = Len(q) + 1 \/ b = Len(q) + 1
                BY <1>1, <2>1, <2>2, <3>2, <3>3, <4>2
            <4> QED
                BY <1>1, <2>1, <2>2, <4>1, <4>2
        <3> QED
            BY <3>3 DEF IsInjective
    <2>5. KeptUpTo(T, s, S, n, r)
        BY <2>1, <2>3, <2>4 DEF KeptUpTo
    <2> QED
        BY <1>5, <2>5 DEF r
<1> QED
    BY <1>4, <1>5

LEMMA KeptAll ==
    ASSUME NEW T, NEW s \in Seq(T), NEW S
    PROVE  \A n \in 0 .. Len(s) : KeptUpTo(T, s, S, n, AmongTable(s, S)[n])
<1> DEFINE table == AmongTable(s, S)
           Good == {n \in Nat : n <= Len(s) => KeptUpTo(T, s, S, n, table[n])}
<1>1. /\ table[0] = <<>>
      /\ \A n \in 1 .. Len(s) :
            table[n] = IF s[n] \in S THEN Append(table[n - 1], s[n]) ELSE table[n - 1]
    BY AmongStep
<1> HIDE DEF table
<1>2. 0 \in Good
    <2>1. KeptUpTo(T, s, S, 0, <<>>)
        BY DEF KeptUpTo, IsInjective
    <2> QED
        BY <1>1, <2>1
<1>3. ASSUME NEW n \in Good PROVE n + 1 \in Good
    <2> SUFFICES ASSUME n + 1 <= Len(s) PROVE KeptUpTo(T, s, S, n + 1, table[n + 1])
        OBVIOUS
    <2>1. /\ n \in Nat /\ n + 1 \in 1 .. Len(s) /\ (n + 1) - 1 = n
          /\ KeptUpTo(T, s, S, n, table[n])
        OBVIOUS
    <2>2. KeptUpTo(T, s, S, n + 1, IF s[n + 1] \in S THEN Append(table[n], s[n + 1]) ELSE table[n])
        BY <2>1, KeptStep
    <2>3. table[n + 1] = IF s[n + 1] \in S THEN Append(table[n], s[n + 1]) ELSE table[n]
        BY <1>1, <2>1
    <2> QED
        BY <2>2, <2>3
<1>4. Good = Nat
    <2>1. Good \in SUBSET Nat
        OBVIOUS
    <2> HIDE DEF Good
    <2> QED
        BY <1>2, <1>3, <2>1, Induction
<1>5. \A n \in 0 .. Len(s) : n \in Good
    BY <1>4
<1> QED
    BY <1>5 DEF table

(* The last element of s, if it is kept, is the last again.                *)
EndsLike(q, s) == \A p \in 1 .. Len(q) : q[p] = s[Len(s)] => p = Len(q)

LEMMA AmongIs ==
    ASSUME NEW T, NEW s \in Seq(T), NEW S
    PROVE  /\ Among(s, S) \in Seq(T)
           /\ \A p \in 1 .. Len(Among(s, S)) :
                 Among(s, S)[p] \in S /\ \E m \in 1 .. Len(s) : Among(s, S)[p] = s[m]
           /\ IsInjective(s) => IsInjective(Among(s, S)) /\ EndsLike(Among(s, S), s)
<1> DEFINE q == Among(s, S)
           end == Len(s)
<1>1. end \in Nat /\ DOMAIN s = 1 .. end
    OBVIOUS
<1>2. KeptUpTo(T, s, S, end, q)
    BY <1>1, KeptAll, AmongStep
<1>3. ASSUME IsInjective(s) PROVE EndsLike(q, s)
    <2> SUFFICES ASSUME NEW p \in 1 .. Len(q), q[p] = s[end] PROVE p = Len(q)
        BY DEF EndsLike
    <2>1. q[p] \in S /\ \E m \in 1 .. end : q[p] = s[m]
        BY <1>2 DEF KeptUpTo
    <2>2. end \in 1 .. end /\ s[end] \in T
        BY <1>1, <2>1
    <2> DEFINE r == AmongTable(s, S)[end - 1]
    <2>3. q = IF s[end] \in S THEN Append(r, s[end]) ELSE r
        <3> DEFINE table == AmongTable(s, S)
        <3>1. /\ q = table[end]
              /\ \A n \in 1 .. end :
                    table[n] = IF s[n] \in S THEN Append(table[n - 1], s[n]) ELSE table[n - 1]
            BY AmongStep
        <3>2. r = table[end - 1]
            OBVIOUS
        <3> HIDE DEF table, q, r
        <3> QED
            BY <2>2, <3>1, <3>2
    <2>4. end - 1 \in 0 .. end
        BY <1>1, <2>2
    <2>5. KeptUpTo(T, s, S, end - 1, r)
        BY <2>4, KeptAll
    <2> HIDE DEF r
    <2>6. r \in Seq(T) /\ \A a \in 1 .. Len(r) : \E m \in 1 .. end - 1 : r[a] = s[m]
        BY <2>5 DEF KeptUpTo
    <2>7. q = Append(r, s[end])
        BY <2>1, <2>3
    <2>8. /\ Len(q) = Len(r) + 1 /\ Len(r) \in Nat
          /\ \A a \in 1 .. Len(r) : q[a] = r[a]
        BY <2>2, <2>6, <2>7, AppendElement
    <2>9. ASSUME p \in 1 .. Len(r) PROVE FALSE
        <3>1. PICK m \in 1 .. end - 1 : r[p] = s[m]
            BY <2>6, <2>9
        <3>2. m \in 1 .. end /\ m # end
            <4> HIDE DEF end
            <4> QED
                BY <1>1
        <3>3. m \in DOMAIN s /\ end \in DOMAIN s
            BY <1>1, <2>2, <3>2
        <3>4. s[m] = s[end]
            <4>1. q[p] = r[p]
                BY <2>8, <2>9
            <4> HIDE DEF q
            <4> QED
                BY <3>1, <4>1
        <3> QED
            BY <1>3, <3>2, <3>3, <3>4 DEF IsInjective
    <2> HIDE DEF q
    <2> QED
        BY <2>8, <2>9
<1> QED
    BY <1>2, <1>3 DEF KeptUpTo

-----------------------------------------------------------------------------
(* The LRU list: it names an id at most once, and one that is not hot in   *)
(* its oldest entry at most.                                               *)

GoneIsLast(lru, H) == \A n \in 1 .. Len(lru) : lru[n] \notin H => n = Len(lru)
IsLRU(T, lru, H) == lru \in Seq(T) /\ IsInjective(lru) /\ GoneIsLast(lru, H)

LEMMA LRURemoveIs ==
    ASSUME NEW T, NEW lru, NEW H, IsLRU(T, lru, H), NEW S
    PROVE  /\ IsLRU(T, LRURemove(lru, S), H \ S)
           /\ \A n \in 1 .. Len(LRURemove(lru, S)) : LRURemove(lru, S)[n] \notin S
<1> DEFINE others == ToSet(lru) \ S
           q == Among(lru, others)
<1>1. lru \in Seq(T) /\ IsInjective(lru) /\ GoneIsLast(lru, H)
    BY DEF IsLRU
<1>2. /\ q \in Seq(T)
      /\ \A p \in 1 .. Len(q) :
            q[p] \in ToSet(lru) \ S /\ \E m \in 1 .. Len(lru) : q[p] = lru[m]
      /\ IsInjective(q) /\ EndsLike(q, lru)
    <2>1. \A p \in 1 .. Len(q) : q[p] \in others /\ \E m \in 1 .. Len(lru) : q[p] = lru[m]
        <3> HIDE DEF others
        <3> QED
            BY <1>1, AmongIs
    <2>2. q \in Seq(T) /\ IsInjective(q) /\ EndsLike(q, lru)
        <3> HIDE DEF others
        <3> QED
            BY <1>1, AmongIs
    <2> QED
        BY <2>1, <2>2
<1>3. LRURemove(lru, S) = q
    BY DEF LRURemove
<1> HIDE DEF q
<1>4. GoneIsLast(q, H \ S)
    <2> SUFFICES ASSUME NEW n \in 1 .. Len(q), q[n] \notin H \ S PROVE n = Len(q)
        BY DEF GoneIsLast
    <2>1. PICK m \in 1 .. Len(lru) : q[n] = lru[m]
        BY <1>2
    <2>2. lru[m] \notin H
        BY <1>2, <2>1
    <2>3. m = Len(lru)
        BY <1>1, <2>2 DEF GoneIsLast
    <2> QED
        BY <1>2, <2>1, <2>3 DEF EndsLike
<1> QED
    BY <1>2, <1>3, <1>4 DEF IsLRU

LEMMA FrontIs ==
    ASSUME NEW T, NEW lru, NEW H, IsLRU(T, lru, H), lru # <<>>
    PROVE  /\ IsLRU(T, Front(lru), H)
           /\ \A n \in 1 .. Len(Front(lru)) : Front(lru)[n] = lru[n] /\ n \in 1 .. Len(lru)
<1>1. lru \in Seq(T) /\ IsInjective(lru) /\ GoneIsLast(lru, H)
    BY DEF IsLRU
<1>2. PICK len \in Nat : len = Len(lru)
    BY <1>1
<1>3. len # 0
    BY <1>1, <1>2
<1>4. /\ Front(lru) \in Seq(T) /\ Len(Front(lru)) = len - 1
      /\ \A n \in 1 .. len - 1 : Front(lru)[n] = lru[n]
    BY <1>1, <1>2, <1>3 DEF Front
<1>5. DOMAIN Front(lru) = 1 .. len - 1 /\ DOMAIN lru = 1 .. len
    BY <1>1, <1>2, <1>4
<1>6. \A n \in 1 .. len - 1 : n \in 1 .. len /\ n # len
    BY <1>2
<1>7. IsInjective(Front(lru))
    BY <1>1, <1>4, <1>5, <1>6 DEF IsInjective
<1>8. GoneIsLast(Front(lru), H)
    BY <1>1, <1>2, <1>4, <1>6 DEF GoneIsLast
<1> QED
    BY <1>2, <1>4, <1>6, <1>7, <1>8 DEF IsLRU

LEMMA PushIs ==
    ASSUME NEW T, NEW lru, NEW H, IsLRU(T, lru, H), NEW id \in T, id \in H,
           \A n \in 1 .. Len(lru) : lru[n] # id
    PROVE  IsLRU(T, <<id>> \o lru, H)
<1>1. lru \in Seq(T) /\ IsInjective(lru) /\ GoneIsLast(lru, H)
    BY DEF IsLRU
<1>2. PICK len \in Nat : len = Len(lru)
    BY <1>1
<1> DEFINE q == <<id>> \o lru
<1>3. /\ q \in Seq(T) /\ Len(q) = len + 1 /\ q[1] = id
      /\ \A n \in 2 .. len + 1 : q[n] = lru[n - 1]
    BY <1>1, <1>2
<1>4. DOMAIN q = 1 .. len + 1 /\ DOMAIN lru = 1 .. len
    BY <1>1, <1>2, <1>3
<1> HIDE DEF q
<1>5. ASSUME NEW n \in 1 .. len + 1
      PROVE  n = 1 \/ (n \in 2 .. len + 1 /\ n - 1 \in 1 .. len)
    BY <1>2
<1>6. \A n \in 2 .. len + 1 : n - 1 \in 1 .. len /\ q[n] # id
    <2> SUFFICES ASSUME NEW n \in 2 .. len + 1 PROVE n - 1 \in 1 .. len /\ q[n] # id
        OBVIOUS
    <2>1. n - 1 \in 1 .. len
        BY <1>2
    <2> QED
        BY <1>2, <1>3, <2>1
<1>7. ASSUME NEW a \in 1 .. len + 1, NEW b \in 1 .. len + 1, q[a] = q[b] PROVE a = b
    <2>1. CASE a = 1 \/ b = 1
        BY <1>3, <1>5, <1>6, <1>7, <2>1
    <2>2. CASE a # 1 /\ b # 1
        <3>1. a \in 2 .. len + 1 /\ b \in 2 .. len + 1
            BY <1>5, <2>2
        <3>2. a - 1 \in DOMAIN lru /\ b - 1 \in DOMAIN lru /\ lru[a - 1] = lru[b - 1]
            BY <1>3, <1>4, <1>6, <1>7, <3>1
        <3>3. a - 1 = b - 1
            BY <1>1, <3>2 DEF IsInjective
        <3> QED
            BY <3>3
    <2> QED
        BY <2>1, <2>2
<1>8. IsInjective(q)
    BY <1>4, <1>7 DEF IsInjective
<1>9. ASSUME NEW n \in 1 .. len + 1, q[n] \notin H PROVE n = len + 1
    <2>1. n \in 2 .. len + 1 /\ n - 1 \in 1 .. len
        BY <1>3, <1>5, <1>9
    <2>2. lru[n - 1] \notin H
        BY <1>3, <1>9, <2>1
    <2>3. n - 1 = len
        BY <1>1, <1>2, <2>1, <2>2 DEF GoneIsLast
    <2> QED
        BY <1>2, <2>3
<1>10. GoneIsLast(q, H)
    BY <1>3, <1>9 DEF GoneIsLast
<1> QED
    BY <1>3, <1>8, <1>10 DEF IsLRU, q

LEMMA LRUGrows ==
    ASSUME NEW T, NEW lru, NEW H, IsLRU(T, lru, H), NEW G, H \subseteq G
    PROVE  IsLRU(T, lru, G)
BY DEF IsLRU, GoneIsLast

LEMMA LRUPutIs ==
    ASSUME NEW T, NEW lru, NEW H, IsLRU(T, lru, H), NEW id \in T, id \in H
    PROVE  IsLRU(T, LRUPut(lru, id), H)
<1>1. CASE Contains(lru, id)
    <2> DEFINE q == LRURemove(lru, {id})
    <2>1. IsLRU(T, q, H \ {id}) /\ \A n \in 1 .. Len(q) : q[n] \notin {id}
        BY LRURemoveIs
    <2>2. LRUPut(lru, id) = <<id>> \o q
        BY <1>1 DEF LRUPut
    <2> HIDE DEF q
    <2>3. IsLRU(T, q, H)
        BY <2>1, LRUGrows
    <2> QED
        BY <2>1, <2>2, <2>3, PushIs
<1>2. CASE ~Contains(lru, id) /\ Len(lru) >= FineLRUSize /\ lru # <<>>
    <2>1. LRUPut(lru, id) = <<id>> \o Front(lru)
        BY <1>2 DEF LRUPut
    <2>2. IsLRU(T, Front(lru), H) /\ \A n \in 1 .. Len(Front(lru)) : Front(lru)[n] # id
        BY <1>2, FrontIs DEF Contains
    <2> QED
        BY <2>1, <2>2, PushIs
<1>3. CASE ~Contains(lru, id) /\ ~(Len(lru) >= FineLRUSize /\ lru # <<>>)
    <2>1. LRUPut(lru, id) = <<id>> \o lru
        BY <1>3 DEF LRUPut
    <2> QED
        BY <1>3, <2>1, PushIs DEF Contains
<1> QED
    BY <1>1, <1>2, <1>3

LEMMA EmptyLRU ==
    ASSUME NEW T, NEW H
    PROVE  IsLRU(T, <<>>, H)
<1>1. <<>> \in Seq(T) /\ Len(<<>>) = 0 /\ DOMAIN <<>> = {}
    OBVIOUS
<1> QED
    BY <1>1 DEF IsLRU, IsInjective, GoneIsLast

-----------------------------------------------------------------------------
(* The fine layer.                                                         *)

Counts == 0 .. FinePromoteThreshold
FineRecords == [hot : Maps(Ids, Vectors), count : Maps(Ids, Counts), lru : Seq(Ids)]
FineGood(f) ==
    /\ f \in FineRecords
    /\ Cardinality(DOMAIN f.hot) <= FineMaxSize
    /\ IsLRU(Ids, f.lru, DOMAIN f.hot)

LEMMA FineIs ==
    ASSUME NEW f, FineGood(f)
    PROVE  /\ f.hot \in Maps(Ids, Vectors) /\ f.count \in Maps(Ids, Counts) /\ f.lru \in Seq(Ids)
           /\ f = [hot |-> f.hot, count |-> f.count, lru |-> f.lru]
           /\ DOMAIN f.hot \subseteq Ids /\ DOMAIN f.count \subseteq Ids
           /\ Cardinality(DOMAIN f.hot) <= FineMaxSize
           /\ IsLRU(Ids, f.lru, DOMAIN f.hot)
BY MapIs DEF FineGood, FineRecords

LEMMA FineFrom ==
    ASSUME NEW hot \in Maps(Ids, Vectors), NEW count \in Maps(Ids, Counts), NEW lru,
           Cardinality(DOMAIN hot) <= FineMaxSize, IsLRU(Ids, lru, DOMAIN hot)
    PROVE  FineGood([hot |-> hot, count |-> count, lru |-> lru])
<1>1. lru \in Seq(Ids)
    BY DEF IsLRU
<1> QED
    BY <1>1 DEF FineGood, FineRecords

LEMMA FewIds ==
    ASSUME NEW S \in SUBSET Ids, NEW R \in SUBSET S
    PROVE  /\ IsFiniteSet(S) /\ Cardinality(S) \in Nat /\ Cardinality(R) \in Nat
           /\ Cardinality(R) <= Cardinality(S)
           /\ \A x \in Ids : Cardinality(S \cup {x}) <= Cardinality(S) + 1
<1>1. IsFiniteSet(Ids) /\ IsFiniteSet(S) /\ IsFiniteSet(R)
    BY CoarseAssumption, FS_Subset
<1>2. \A x \in Ids : Cardinality(S \cup {x}) <= Cardinality(S) + 1
    <2> SUFFICES ASSUME NEW x \in Ids
                 PROVE  Cardinality(S \cup {x}) <= Cardinality(S) + 1
        OBVIOUS
    <2>1. Cardinality(S) \in Nat
        BY <1>1, FS_CardinalityType
    <2>2. CASE x \in S
        <3>1. S \cup {x} = S
            BY <2>2
        <3> QED
            BY <2>1, <3>1
    <2>3. CASE x \notin S
        <3>1. Cardinality(S \cup {x}) = Cardinality(S) + 1
            BY <1>1, <2>3, FS_AddElement
        <3> QED
            BY <2>1, <3>1
    <2> QED
        BY <2>2, <2>3
<1> QED
    BY <1>1, <1>2, FS_Subset, FS_CardinalityType

LEMMA NewFineGood == FineGood(NewFineIndex)
<1>1. /\ <<>> \in Maps(Ids, Vectors) /\ <<>> \in Maps(Ids, Counts) /\ DOMAIN <<>> = {}
    BY EmptyMap
<1>2. Cardinality({}) <= FineMaxSize
    BY FS_EmptySet, FineAssumption
<1>3. IsLRU(Ids, <<>>, {})
    BY EmptyLRU
<1>4. FineGood([hot |-> <<>>, count |-> <<>>, lru |-> <<>>])
    BY <1>1, <1>2, <1>3, FineFrom
<1> QED
    BY <1>4 DEF NewFineIndex

LEMMA FineInsertGood ==
    ASSUME NEW f, FineGood(f), NEW id \in Ids, NEW vector \in Vectors
    PROVE  FineGood(FineInsert(f, id, vector)) /\ DOMAIN f.hot \subseteq DOMAIN FineInsert(f, id, vector).hot
<1>1. CASE FineIsFull(f)
    BY <1>1 DEF FineInsert
<1>2. CASE ~FineIsFull(f)
    <2>1. /\ f.hot \in Maps(Ids, Vectors) /\ f.count \in Maps(Ids, Counts)
          /\ DOMAIN f.hot \subseteq Ids /\ IsLRU(Ids, f.lru, DOMAIN f.hot)
        BY FineIs
    <2>2. 0 \in Counts
        BY FineAssumption DEF Counts
    <2> DEFINE hot == SetTo(f.hot, id, vector)
               count == SetTo(f.count, id, 0)
               lru == LRUPut(f.lru, id)
    <2>3. hot \in Maps(Ids, Vectors) /\ DOMAIN hot = DOMAIN f.hot \cup {id}
        <3>1. DOMAIN hot = DOMAIN f.hot \cup {id}
            BY DEF SetTo
        <3>2. hot \in Maps(Ids, Vectors)
            BY <2>1, MapSetTo
        <3> QED
            BY <3>1, <3>2
    <2>4. count \in Maps(Ids, Counts)
        <3>1. PICK zero \in Counts : zero = 0
            BY <2>2
        <3>2. PICK g \in Maps(Ids, Counts) : g = f.count
            BY <2>1
        <3>3. SetTo(g, id, zero) \in Maps(Ids, Counts)
            BY MapSetTo
        <3> QED
            BY <3>1, <3>2, <3>3
    <2>5. Cardinality(DOMAIN f.hot) < FineMaxSize
        BY <1>2, <2>1, FewIds, FineAssumption DEF FineIsFull
    <2>6. Cardinality(DOMAIN f.hot \cup {id}) <= FineMaxSize
        <3>1. /\ Cardinality(DOMAIN f.hot \cup {id}) <= Cardinality(DOMAIN f.hot) + 1
              /\ Cardinality(DOMAIN f.hot) \in Nat
            BY <2>1, FewIds
        <3>2. DOMAIN f.hot \cup {id} \subseteq Ids
            BY <2>1
        <3>3. Cardinality(DOMAIN f.hot \cup {id}) \in Nat
            BY <3>2, FewIds
        <3> QED
            BY <2>5, <3>1, <3>3, FineAssumption
    <2>7. IsLRU(Ids, lru, DOMAIN hot)
        <3>1. IsLRU(Ids, f.lru, DOMAIN f.hot \cup {id}) /\ id \in DOMAIN f.hot \cup {id}
            BY <2>1, LRUGrows
        <3> QED
            BY <2>3, <3>1, LRUPutIs
    <2>8. FineInsert(f, id, vector) = [hot |-> hot, count |-> count, lru |-> lru]
        BY <1>2 DEF FineInsert
    <2> HIDE DEF hot, count, lru
    <2>9. FineGood([hot |-> hot, count |-> count, lru |-> lru])
        BY <2>3, <2>4, <2>6, <2>7, FineFrom
    <2> QED
        BY <2>3, <2>8, <2>9
<1> QED
    BY <1>1, <1>2

LEMMA RecordAccessGood ==
    ASSUME NEW f, FineGood(f), NEW id \in Ids
    PROVE  FineGood(RecordAccess(f, id)) /\ RecordAccess(f, id).hot = f.hot
<1>1. /\ f.hot \in Maps(Ids, Vectors) /\ f.count \in Maps(Ids, Counts)
      /\ f = [hot |-> f.hot, count |-> f.count, lru |-> f.lru]
      /\ Cardinality(DOMAIN f.hot) <= FineMaxSize /\ IsLRU(Ids, f.lru, DOMAIN f.hot)
    BY FineIs
<1> DEFINE n == IF id \in DOMAIN f.count THEN f.count[id] ELSE 0
           m == IF n < FinePromoteThreshold THEN n + 1 ELSE n
           count == SetTo(f.count, id, m)
           lru == IF id \in DOMAIN f.hot THEN LRUPut(f.lru, id) ELSE f.lru
<1>2. n \in Counts
    BY <1>1, MapIs, FineAssumption DEF Counts
<1>3. m \in Counts
    <2> HIDE DEF n
    <2> QED
        BY <1>2, FineAssumption DEF Counts
<1>4. RecordAccess(f, id) = [hot |-> f.hot, count |-> count, lru |-> lru]
    <2>1. RecordAccess(f, id) = [f EXCEPT !.count = count, !.lru = lru]
        BY DEF RecordAccess
    <2> HIDE DEF count, lru
    <2> QED
        BY <1>1, <2>1
<1>5. count \in Maps(Ids, Counts)
    <2> HIDE DEF m
    <2> QED
        BY <1>1, <1>3, MapSetTo
<1>6. IsLRU(Ids, lru, DOMAIN f.hot)
    BY <1>1, LRUPutIs
<1> HIDE DEF count, lru
<1>7. FineGood([hot |-> f.hot, count |-> count, lru |-> lru])
    BY <1>1, <1>5, <1>6, FineFrom
<1> QED
    BY <1>4, <1>7

LEMMA ForgetGood ==
    ASSUME NEW f, FineGood(f), NEW S, NEW lru, IsLRU(Ids, lru, DOMAIN f.hot \ S)
    PROVE  /\ FineGood([Forget(f, S) EXCEPT !.lru = lru])
           /\ Forget(f, S).lru = f.lru
           /\ lru = f.lru => [Forget(f, S) EXCEPT !.lru = lru] = Forget(f, S)
<1>1. /\ f.hot \in Maps(Ids, Vectors) /\ f.count \in Maps(Ids, Counts)
      /\ f = [hot |-> f.hot, count |-> f.count, lru |-> f.lru]
      /\ DOMAIN f.hot \subseteq Ids /\ Cardinality(DOMAIN f.hot) <= FineMaxSize
    BY FineIs
<1> DEFINE hot == Without(f.hot, S)
           count == Without(f.count, S)
<1>2. hot \in Maps(Ids, Vectors) /\ DOMAIN hot = DOMAIN f.hot \ S /\ count \in Maps(Ids, Counts)
    <2>1. ASSUME NEW g \in Maps(Ids, Vectors) PROVE Without(g, S) \in Maps(Ids, Vectors)
        BY MapWithout
    <2>2. ASSUME NEW g \in Maps(Ids, Counts) PROVE Without(g, S) \in Maps(Ids, Counts)
        BY MapWithout
    <2>3. DOMAIN hot = DOMAIN f.hot \ S
        BY DEF Without
    <2> QED
        BY <1>1, <2>1, <2>2, <2>3
<1>3. Forget(f, S) = [hot |-> hot, count |-> count, lru |-> f.lru]
    <2>1. Forget(f, S) = [f EXCEPT !.hot = hot, !.count = count]
        BY DEF Forget
    <2> HIDE DEF hot, count
    <2> QED
        BY <1>1, <2>1
<1>4. Cardinality(DOMAIN hot) <= FineMaxSize
    <2>1. /\ DOMAIN hot \subseteq DOMAIN f.hot
        BY <1>2
    <2>2. /\ Cardinality(DOMAIN hot) <= Cardinality(DOMAIN f.hot)
          /\ Cardinality(DOMAIN hot) \in Nat /\ Cardinality(DOMAIN f.hot) \in Nat
        BY <1>1, <2>1, FewIds
    <2> QED
        BY <1>1, <2>2, FineAssumption
<1> HIDE DEF hot, count
<1>5. FineGood([hot |-> hot, count |-> count, lru |-> lru])
    BY <1>2, <1>4, FineFrom
<1>6. [Forget(f, S) EXCEPT !.lru = lru] = [hot |-> hot, count |-> count, lru |-> lru]
    BY <1>3
<1> QED
    BY <1>3, <1>5, <1>6

LEMMA EvictOneGood ==
    ASSUME NEW f, FineGood(f)
    PROVE  FineGood(EvictOne(f))
<1>1. CASE f.lru = <<>>
    BY <1>1 DEF EvictOne
<1>2. CASE f.lru # <<>>
    <2>1. f.lru \in Seq(Ids) /\ IsInjective(f.lru) /\ GoneIsLast(f.lru, DOMAIN f.hot)
        BY FineIs DEF IsLRU
    <2>2. PICK lru \in Seq(Ids) : lru = f.lru
        BY <2>1
    <2>3. PICK len \in Nat : len = Len(lru)
        OBVIOUS
    <2>4. DOMAIN lru = 1 .. len /\ len # 0
        BY <1>2, <2>2, <2>3
    <2>5. ASSUME NEW n \in 1 .. len, lru[n] \notin DOMAIN f.hot \ {Last(lru)} PROVE n = len
        <3>1. CASE lru[n] \notin DOMAIN f.hot
            BY <2>1, <2>2, <2>3, <3>1 DEF GoneIsLast
        <3>2. CASE lru[n] = lru[len]
            <4>1. n \in DOMAIN lru /\ len \in DOMAIN lru
                BY <2>4
            <4> QED
                BY <2>1, <2>2, <3>2, <4>1 DEF IsInjective
        <3> QED
            BY <2>3, <2>5, <3>1, <3>2 DEF Last
    <2>6. IsLRU(Ids, f.lru, DOMAIN f.hot \ {Last(f.lru)})
        BY <2>1, <2>2, <2>3, <2>5 DEF IsLRU, GoneIsLast
    <2>7. EvictOne(f) = Forget(f, {Last(f.lru)})
        BY <1>2 DEF EvictOne
    <2> DEFINE S == {Last(f.lru)}
    <2>8. IsLRU(Ids, lru, DOMAIN f.hot \ S)
        BY <2>2, <2>6
    <2> HIDE DEF S
    <2>9. FineGood([Forget(f, S) EXCEPT !.lru = lru]) /\ [Forget(f, S) EXCEPT !.lru = lru] = Forget(f, S)
        BY <2>2, <2>8, ForgetGood
    <2> QED
        BY <2>7, <2>9 DEF S
<1> QED
    BY <1>1, <1>2

LEMMA ForgetFoundGood ==
    ASSUME NEW f, FineGood(f), NEW S
    PROVE  FineGood([Forget(f, S) EXCEPT !.lru = LRURemove(@, S)])
<1>1. IsLRU(Ids, f.lru, DOMAIN f.hot)
    BY FineIs
<1>2. IsLRU(Ids, LRURemove(f.lru, S), DOMAIN f.hot \ S)
    BY <1>1, LRURemoveIs
<1>3. /\ FineGood([Forget(f, S) EXCEPT !.lru = LRURemove(f.lru, S)])
      /\ Forget(f, S).lru = f.lru
    BY <1>2, ForgetGood
<1>4. [Forget(f, S) EXCEPT !.lru = LRURemove(@, S)] = [Forget(f, S) EXCEPT !.lru = LRURemove(f.lru, S)]
    BY <1>3
<1> QED
    BY <1>3, <1>4

LEMMA FineSavedGood ==
    ASSUME NEW f, FineGood(f)
    PROVE  FineGood(FineSaved(f)) /\ FineSaved(f).hot = f.hot
<1>1. /\ f.hot \in Maps(Ids, Vectors) /\ f.count \in Maps(Ids, Counts)
      /\ f = [hot |-> f.hot, count |-> f.count, lru |-> f.lru]
      /\ Cardinality(DOMAIN f.hot) <= FineMaxSize
    BY FineIs
<1>2. FineSaved(f) = [hot |-> f.hot, count |-> f.count, lru |-> <<>>]
    BY <1>1 DEF FineSaved
<1>3. IsLRU(Ids, <<>>, DOMAIN f.hot)
    BY EmptyLRU
<1> QED
    BY <1>1, <1>2, <1>3, FineFrom

(* What is done for every id of a sequence.                                *)
LEMMA RecordAccessesGood ==
    ASSUME NEW f, FineGood(f), NEW ids \in Seq(Ids)
    PROVE  FineGood(RecordAccesses(f, ids)) /\ RecordAccesses(f, ids).hot = f.hot
<1> DEFINE S == {x \in FineRecords : FineGood(x) /\ x.hot = f.hot}
           step == [p \in S \X Ids |-> RecordAccess(p[1], p[2])]
           Is(after) == after = [n \in 0 .. Len(ids) |->
                             IF n = 0 THEN f ELSE RecordAccess(after[n - 1], ids[n])]
           table == CHOOSE after : Is(after)
<1>1. ASSUME NEW x \in S, NEW y \in Ids PROVE RecordAccess(x, y) \in S
    BY RecordAccessGood DEF FineGood
<1>2. step \in [S \X Ids -> S]
    <2> HIDE DEF S
    <2> QED
        BY <1>1
<1>3. f \in S
    BY DEF FineGood
<1>4. \E after : Is(after)
    <2>1. PICK g \in [0 .. Len(ids) -> S] : IsFold(g, step, f, ids, Len(ids))
        <3> HIDE DEF step, S
        <3> QED
            BY <1>2, <1>3, FoldExists
    <2>2. ASSUME NEW n \in 0 .. Len(ids), n # 0
          PROVE  g[n] = RecordAccess(g[n - 1], ids[n])
        <3>1. g[n] = step[<<g[n - 1], ids[n]>>]
            <4> HIDE DEF step
            <4> QED
                BY <2>1, <2>2 DEF IsFold
        <3>2. n - 1 \in 0 .. Len(ids) /\ n \in 1 .. Len(ids)
            BY <2>2
        <3>3. g[n - 1] \in S /\ ids[n] \in Ids
            <4> HIDE DEF S
            <4> QED
                BY <2>1, <3>2
        <3> HIDE DEF S
        <3> QED
            BY <3>1, <3>3
    <2>3. g[0] = f
        <3>1. 0 \in 0 .. Len(ids)
            OBVIOUS
        <3> HIDE DEF step
        <3> QED
            BY <2>1, <3>1 DEF IsFold
    <2>4. g = [n \in 0 .. Len(ids) |-> g[n]]
        <3> HIDE DEF S
        <3> QED
            BY <2>1
    <2>5. \A n \in 0 .. Len(ids) : g[n] = IF n = 0 THEN f ELSE RecordAccess(g[n - 1], ids[n])
        BY <2>2, <2>3
    <2>6. Is(g)
        <3> HIDE DEF S, step
        <3> QED
            BY <2>4, <2>5
    <2> QED
        BY <2>6
<1>5. Is(table)
    <2> HIDE DEF Is
    <2> QED
        BY <1>4
<1>6. RecordAccesses(f, ids) = table[Len(ids)]
    BY DEF RecordAccesses
<1> HIDE DEF table
<1>7. /\ table[0] = f
      /\ \A n \in 1 .. Len(ids) : table[n] = RecordAccess(table[n - 1], ids[n])
    <2>1. Len(ids) \in Nat
        OBVIOUS
    <2> QED
        BY <1>5, <2>1
<1>8. \A n \in 0 .. Len(ids) : table[n] \in S
    <2>1. ASSUME NEW n \in 1 .. Len(ids), table[n - 1] \in S PROVE table[n] \in S
        <3>1. ids[n] \in Ids
            OBVIOUS
        <3> HIDE DEF S
        <3> QED
            BY <1>1, <1>7, <2>1, <3>1
    <2>2. table[0] \in S /\ Len(ids) \in Nat
        BY <1>3, <1>7
    <2> HIDE DEF S
    <2> QED
        BY <2>1, <2>2, StaysIn
<1>9. table[Len(ids)] \in S
    <2>1. Len(ids) \in 0 .. Len(ids)
        OBVIOUS
    <2> HIDE DEF S
    <2> QED
        BY <1>8, <2>1
<1> QED
    BY <1>6, <1>9

LEMMA promoteHotDataGood ==
    ASSUME NEW f, FineGood(f), NEW c, NEW merged, NEW T \in SUBSET Ids, merged \in Seq(T),
           \A id \in T \ DOMAIN f.hot : CanGet(c, disk, id) => GetVector(c, disk, id) \in Vectors
    PROVE  FineGood(promoteHotData(f, c, merged))
<1> DEFINE S == {x \in FineRecords : FineGood(x) /\ DOMAIN f.hot \subseteq DOMAIN x.hot}
           step == [p \in S \X T |-> PromoteIfHot(p[1], c, p[2])]
           Is(after) == after = [n \in 0 .. Len(merged) |->
                             IF n = 0 THEN f ELSE PromoteIfHot(after[n - 1], c, merged[n])]
           table == CHOOSE after : Is(after)
<1>1. ASSUME NEW x \in S, NEW y \in T PROVE PromoteIfHot(x, c, y) \in S
    <2>1. CASE IsHotEnough(x, y) /\ y \notin DOMAIN x.hot /\ CanGet(c, disk, y)
        <3>1. GetVector(c, disk, y) \in Vectors /\ y \in Ids
            BY <2>1
        <3>2. PICK vector \in Vectors : vector = GetVector(c, disk, y)
            BY <3>1
        <3>3. PromoteIfHot(x, c, y) = FineInsert(x, y, vector)
            BY <2>1, <3>2 DEF PromoteIfHot
        <3>4. /\ FineGood(FineInsert(x, y, vector))
              /\ DOMAIN x.hot \subseteq DOMAIN FineInsert(x, y, vector).hot
            BY <3>1, FineInsertGood
        <3> QED
            BY <3>3, <3>4 DEF FineGood
    <2>2. CASE ~(IsHotEnough(x, y) /\ y \notin DOMAIN x.hot /\ CanGet(c, disk, y))
        BY <2>2 DEF PromoteIfHot
    <2> QED
        BY <2>1, <2>2
<1>2. step \in [S \X T -> S]
    <2> HIDE DEF S
    <2> QED
        BY <1>1
<1>3. f \in S
    BY DEF FineGood
<1>4. \E after : Is(after)
    <2>1. PICK g \in [0 .. Len(merged) -> S] : IsFold(g, step, f, merged, Len(merged))
        <3> HIDE DEF step, S
        <3> QED
            BY <1>2, <1>3, FoldExists
    <2>2. ASSUME NEW n \in 0 .. Len(merged), n # 0
          PROVE  g[n] = PromoteIfHot(g[n - 1], c, merged[n])
        <3>1. g[n] = step[<<g[n - 1], merged[n]>>]
            <4> HIDE DEF step
            <4> QED
                BY <2>1, <2>2 DEF IsFold
        <3>2. n - 1 \in 0 .. Len(merged) /\ n \in 1 .. Len(merged)
            BY <2>2
        <3>3. g[n - 1] \in S /\ merged[n] \in T
            <4> HIDE DEF S
            <4> QED
                BY <2>1, <3>2
        <3> HIDE DEF S
        <3> QED
            BY <3>1, <3>3
    <2>3. g[0] = f
        <3>1. 0 \in 0 .. Len(merged)
            OBVIOUS
        <3> HIDE DEF step
        <3> QED
            BY <2>1, <3>1 DEF IsFold
    <2>4. g = [n \in 0 .. Len(merged) |-> g[n]]
        <3> HIDE DEF S
        <3> QED
            BY <2>1
    <2>5. \A n \in 0 .. Len(merged) : g[n] = IF n = 0 THEN f ELSE PromoteIfHot(g[n - 1], c, merged[n])
        BY <2>2, <2>3
    <2>6. Is(g)
        <3> HIDE DEF S, step
        <3> QED
            BY <2>4, <2>5
    <2> QED
        BY <2>6
<1>5. Is(table)
    <2> HIDE DEF Is
    <2> QED
        BY <1>4
<1>6. promoteHotData(f, c, merged) = table[Len(merged)]
    BY DEF promoteHotData
<1> HIDE DEF table
<1>7. /\ table[0] = f
      /\ \A n \in 1 .. Len(merged) : table[n] = PromoteIfHot(table[n - 1], c, merged[n])
    <2>1. Len(merged) \in Nat
        OBVIOUS
    <2> QED
        BY <1>5, <2>1
<1>8. \A n \in 0 .. Len(merged) : table[n] \in S
    <2>1. ASSUME NEW n \in 1 .. Len(merged), table[n - 1] \in S PROVE table[n] \in S
        <3>1. merged[n] \in T
            OBVIOUS
        <3> HIDE DEF S
        <3> QED
            BY <1>1, <1>7, <2>1, <3>1
    <2>2. table[0] \in S /\ Len(merged) \in Nat
        BY <1>3, <1>7
    <2> HIDE DEF S
    <2> QED
        BY <2>1, <2>2, StaysIn
<1>9. table[Len(merged)] \in S
    <2>1. Len(merged) \in 0 .. Len(merged)
        OBVIOUS
    <2> HIDE DEF S
    <2> QED
        BY <1>8, <2>1
<1> QED
    BY <1>6, <1>9

LEMMA FineLoadGood ==
    ASSUME NEW f, FineGood(f), NEW order \in Seq(DOMAIN f.hot)
    PROVE  FineGood(FineLoad(f, order))
<1> DEFINE S == {l \in Seq(Ids) : IsLRU(Ids, l, DOMAIN f.hot)}
           step == [p \in S \X DOMAIN f.hot |-> LRUPut(p[1], p[2])]
           Is(after) == after = [n \in 0 .. Len(order) |->
                             IF n = 0 THEN <<>> ELSE LRUPut(after[n - 1], order[n])]
           table == CHOOSE after : Is(after)
<1>1. ASSUME NEW x \in S, NEW y \in DOMAIN f.hot PROVE LRUPut(x, y) \in S
    <2>1. y \in Ids
        BY FineIs
    <2>2. IsLRU(Ids, LRUPut(x, y), DOMAIN f.hot)
        BY <2>1, LRUPutIs
    <2> QED
        BY <2>2 DEF IsLRU
<1>2. step \in [S \X DOMAIN f.hot -> S]
    <2> HIDE DEF S
    <2> QED
        BY <1>1
<1>3. <<>> \in S
    BY EmptyLRU DEF IsLRU
<1>4. \E after : Is(after)
    <2>1. PICK g \in [0 .. Len(order) -> S] : IsFold(g, step, <<>>, order, Len(order))
        <3> HIDE DEF step, S
        <3> QED
            BY <1>2, <1>3, FoldExists
    <2>2. ASSUME NEW n \in 0 .. Len(order), n # 0
          PROVE  g[n] = LRUPut(g[n - 1], order[n])
        <3>1. g[n] = step[<<g[n - 1], order[n]>>]
            <4> HIDE DEF step
            <4> QED
                BY <2>1, <2>2 DEF IsFold
        <3>2. n - 1 \in 0 .. Len(order) /\ n \in 1 .. Len(order)
            BY <2>2
        <3>3. g[n - 1] \in S /\ order[n] \in DOMAIN f.hot
            <4> HIDE DEF S
            <4> QED
                BY <2>1, <3>2
        <3> HIDE DEF S
        <3> QED
            BY <3>1, <3>3
    <2>3. g[0] = <<>>
        <3>1. 0 \in 0 .. Len(order)
            OBVIOUS
        <3> HIDE DEF step
        <3> QED
            BY <2>1, <3>1 DEF IsFold
    <2>4. g = [n \in 0 .. Len(order) |-> g[n]]
        <3> HIDE DEF S
        <3> QED
            BY <2>1
    <2>5. \A n \in 0 .. Len(order) : g[n] = IF n = 0 THEN <<>> ELSE LRUPut(g[n - 1], order[n])
        BY <2>2, <2>3
    <2>6. Is(g)
        <3> HIDE DEF S, step
        <3> QED
            BY <2>4, <2>5
    <2> QED
        BY <2>6
<1>5. Is(table)
    <2> HIDE DEF Is
    <2> QED
        BY <1>4
<1>6. FineLoad(f, order) = [f EXCEPT !.lru = table[Len(order)]]
    BY DEF FineLoad
<1> HIDE DEF table
<1>7. /\ table[0] = <<>>
      /\ \A n \in 1 .. Len(order) : table[n] = LRUPut(table[n - 1], order[n])
    <2>1. Len(order) \in Nat
        OBVIOUS
    <2> QED
        BY <1>5, <2>1
<1>8. \A n \in 0 .. Len(order) : table[n] \in S
    <2>1. ASSUME NEW n \in 1 .. Len(order), table[n - 1] \in S PROVE table[n] \in S
        <3>1. order[n] \in DOMAIN f.hot
            OBVIOUS
        <3> HIDE DEF S
        <3> QED
            BY <1>1, <1>7, <2>1, <3>1
    <2>2. table[0] \in S /\ Len(order) \in Nat
        BY <1>3, <1>7
    <2> HIDE DEF S
    <2> QED
        BY <2>1, <2>2, StaysIn
<1>9. table[Len(order)] \in S
    <2>1. Len(order) \in 0 .. Len(order)
        OBVIOUS
    <2> HIDE DEF S
    <2> QED
        BY <1>8, <2>1
<1> QED
    <2>1. PICK lru \in Seq(Ids) : lru = table[Len(order)] /\ IsLRU(Ids, lru, DOMAIN f.hot)
        BY <1>9
    <2>2. /\ f.hot \in Maps(Ids, Vectors) /\ f.count \in Maps(Ids, Counts)
          /\ f = [hot |-> f.hot, count |-> f.count, lru |-> f.lru]
          /\ Cardinality(DOMAIN f.hot) <= FineMaxSize
        BY FineIs
    <2>3. FineLoad(f, order) = [hot |-> f.hot, count |-> f.count, lru |-> lru]
        BY <1>6, <2>1, <2>2
    <2> QED
        BY <2>1, <2>2, <2>3, FineFrom

-----------------------------------------------------------------------------
(* The coarse layer and its directory.                                     *)

(* The page an id is put on, unless a later page has been loaded for it,   *)
(* which no search reads.                                                  *)
Home(id) == IF PageOf(id) < MaxPages THEN PageOf(id) ELSE evictPage

Pages == [vectors : Maps(Ids, Vectors), loaded : BOOLEAN]
CoarseRecords ==
    [pages : Maps(Nat, Pages), slots : Nat, pageMap : Maps(Ids, PageIndexes),
     totalPages : Nat, dirty : SUBSET PageIndexes]
Directories ==
    [file : Maps(Nat, Pages), hasMetadata : BOOLEAN, totalPages : Nat,
     pageMap : Maps(Ids, PageIndexes)]

AtHome(page, i) == \A id \in DOMAIN page.vectors : Home(id) = i

CoarseGood(c) ==
    /\ c \in CoarseRecords
    /\ DOMAIN c.pages \subseteq 0 .. c.slots - 1
    /\ Cardinality(DOMAIN c.pages) <= c.totalPages
    /\ \A i \in DOMAIN c.pages :
          /\ i < MaxPages => AtHome(c.pages[i], i)
          /\ i >= MaxPages => ~c.pages[i].loaded
    /\ \A id \in DOMAIN c.pageMap :
          \/ c.pageMap[id] = Home(id)
          \/ c.pageMap[id] \in DOMAIN c.pages /\ c.pageMap[id] < c.totalPages
    /\ \A i \in DOMAIN c.pages : i >= MaxPages => i < c.totalPages

DirectoryGood(d) ==
    /\ d \in Directories
    /\ \A i \in DOMAIN d.file : i < MaxPages /\ AtHome(d.file[i], i)
    /\ ~d.hasMetadata => d.totalPages = 0
    /\ \A id \in DOMAIN d.pageMap : d.pageMap[id] = Home(id) \/ d.pageMap[id] < d.totalPages

Located(c) == \A id \in DOMAIN c.pageMap : c.pageMap[id] \in DOMAIN c.pages
Counted(d) == \A id \in DOMAIN d.pageMap : d.pageMap[id] < d.totalPages

OnDisk(c, d, i) == i \in DOMAIN d.file /\ d.file[i].vectors = c.pages[i].vectors

LEMMA PageNumbers ==
    /\ PageIndexes \subseteq Nat
    /\ 0 .. MaxPages \subseteq PageIndexes
    /\ MaxPages \in Nat \ {0}
    /\ \A id \in Ids : /\ PageOf(id) \in Nat /\ PageOf(id) \in PageIndexes
                       /\ Home(id) \in Nat /\ Home(id) \in PageIndexes /\ Home(id) < MaxPages
<1>1. \A id \in Ids : PageOf(id) \in Nat
    BY CoarseAssumption DEF PageOf
<1>2. MaxPages \in Nat \ {0}
    BY CoarseAssumption
<1>3. PageIndexes \subseteq Nat /\ 0 .. MaxPages \subseteq PageIndexes
    BY <1>1, <1>2 DEF PageIndexes
<1>4. \A id \in Ids : PageOf(id) \in PageIndexes
    BY DEF PageIndexes
<1>5. 0 \in PageIndexes
    BY <1>2, <1>3
<1> QED
    BY <1>1, <1>2, <1>3, <1>4, <1>5 DEF Home, evictPage

LEMMA CoarseIs ==
    ASSUME NEW c, CoarseGood(c)
    PROVE  /\ c = [pages |-> c.pages, slots |-> c.slots, pageMap |-> c.pageMap,
                   totalPages |-> c.totalPages, dirty |-> c.dirty]
           /\ c.pages \in Maps(Nat, Pages) /\ c.slots \in Nat
           /\ c.pageMap \in Maps(Ids, PageIndexes)
           /\ c.totalPages \in Nat /\ c.dirty \subseteq PageIndexes
           /\ \A i \in DOMAIN c.pages :
                 /\ i \in Nat /\ i \in 0 .. c.slots - 1 /\ c.pages[i] \in Pages
                 /\ c.pages[i].vectors \in Maps(Ids, Vectors) /\ c.pages[i].loaded \in BOOLEAN
           /\ \A id \in DOMAIN c.pageMap : id \in Ids /\ c.pageMap[id] \in PageIndexes
<1>1. c \in CoarseRecords /\ DOMAIN c.pages \subseteq 0 .. c.slots - 1
    BY DEF CoarseGood
<1>2. /\ c.pages \in Maps(Nat, Pages) /\ c.slots \in Nat
      /\ c.pageMap \in Maps(Ids, PageIndexes)
      /\ c.totalPages \in Nat /\ c.dirty \subseteq PageIndexes
      /\ c = [pages |-> c.pages, slots |-> c.slots, pageMap |-> c.pageMap,
              totalPages |-> c.totalPages, dirty |-> c.dirty]
    BY <1>1 DEF CoarseRecords
<1>3. \A i \in DOMAIN c.pages : i \in Nat /\ c.pages[i] \in Pages
    BY <1>2, MapIs
<1>4. \A id \in DOMAIN c.pageMap : id \in Ids /\ c.pageMap[id] \in PageIndexes
    BY <1>2, MapIs
<1>5. \A page \in Pages : page.vectors \in Maps(Ids, Vectors) /\ page.loaded \in BOOLEAN
    BY DEF Pages
<1> QED
    BY <1>1, <1>2, <1>3, <1>4, <1>5

LEMMA DirectoryIs ==
    ASSUME NEW d, DirectoryGood(d)
    PROVE  /\ d = [file |-> d.file, hasMetadata |-> d.hasMetadata,
                   totalPages |-> d.totalPages, pageMap |-> d.pageMap]
           /\ d.file \in Maps(Nat, Pages) /\ d.hasMetadata \in BOOLEAN
           /\ d.pageMap \in Maps(Ids, PageIndexes) /\ d.totalPages \in Nat
           /\ \A i \in DOMAIN d.file :
                 /\ i \in Nat /\ i < MaxPages /\ d.file[i] \in Pages
                 /\ d.file[i].vectors \in Maps(Ids, Vectors) /\ d.file[i].loaded \in BOOLEAN
           /\ \A id \in DOMAIN d.pageMap : id \in Ids /\ d.pageMap[id] \in PageIndexes
<1>1. d \in Directories /\ \A i \in DOMAIN d.file : i < MaxPages
    BY DEF DirectoryGood
<1>2. /\ d.file \in Maps(Nat, Pages) /\ d.hasMetadata \in BOOLEAN
      /\ d.pageMap \in Maps(Ids, PageIndexes) /\ d.totalPages \in Nat
      /\ d = [file |-> d.file, hasMetadata |-> d.hasMetadata,
              totalPages |-> d.totalPages, pageMap |-> d.pageMap]
    BY <1>1 DEF Directories
<1>3. \A i \in DOMAIN d.file : i \in Nat /\ d.file[i] \in Pages
    BY <1>2, MapIs
<1>4. \A id \in DOMAIN d.pageMap : id \in Ids /\ d.pageMap[id] \in PageIndexes
    BY <1>2, MapIs
<1>5. \A page \in Pages : page.vectors \in Maps(Ids, Vectors) /\ page.loaded \in BOOLEAN
    BY DEF Pages
<1> QED
    BY <1>1, <1>2, <1>3, <1>4, <1>5

(* What a search meets on a page belongs there.                            *)
LEMMA OnPageIs ==
    ASSUME NEW c, CoarseGood(c), NEW d, DirectoryGood(d), NEW i \in DOMAIN c.pages
    PROVE  /\ OnPage(c, d, i) \in Maps(Ids, Vectors)
           /\ \A id \in DOMAIN OnPage(c, d, i) :
                 id \in Ids /\ Home(id) = i /\ OnPage(c, d, i)[id] \in Vectors
<1>1. i \in Nat /\ c.pages[i].vectors \in Maps(Ids, Vectors) /\ c.pages[i].loaded \in BOOLEAN
    BY CoarseIs
<1> DEFINE found == OnPage(c, d, i)
<1>2. CASE c.pages[i].loaded
    <2>1. found = c.pages[i].vectors
        BY <1>2 DEF OnPage
    <2>2. i < MaxPages
        BY <1>1, <1>2, PageNumbers DEF CoarseGood
    <2>3. AtHome(c.pages[i], i)
        BY <2>2 DEF CoarseGood
    <2> HIDE DEF found
    <2> QED
        BY <1>1, <2>1, <2>3, MapIs DEF AtHome, found
<1>3. CASE ~c.pages[i].loaded /\ i \in DOMAIN d.file
    <2>1. found = d.file[i].vectors
        BY <1>3 DEF OnPage
    <2>2. AtHome(d.file[i], i) /\ d.file[i].vectors \in Maps(Ids, Vectors)
        BY <1>3, DirectoryIs DEF DirectoryGood
    <2> HIDE DEF found
    <2> QED
        BY <2>1, <2>2, MapIs DEF AtHome, found
<1>4. CASE ~c.pages[i].loaded /\ i \notin DOMAIN d.file
    <2>1. found = Nothing
        BY <1>4 DEF OnPage
    <2> HIDE DEF found
    <2> QED
        BY <2>1, EmptyMap DEF found
<1> QED
    BY <1>1, <1>2, <1>3, <1>4

ShownAt(c, d, id) == Home(id) \in DOMAIN c.pages /\ id \in DOMAIN OnPage(c, d, Home(id))

LEMMA VisibleIs ==
    ASSUME NEW c, CoarseGood(c), NEW d, DirectoryGood(d)
    PROVE  /\ \A id \in Ids : PagesWith(c, d, id) = {i \in {Home(id)} : ShownAt(c, d, id)}
           /\ DOMAIN Visible(c, d) = {id \in Ids : ShownAt(c, d, id)}
           /\ \A id \in DOMAIN Visible(c, d) :
                 /\ Visible(c, d)[id] = OnPage(c, d, Home(id))[id]
                 /\ Visible(c, d)[id] \in Vectors
<1>1. ASSUME NEW id \in Ids
      PROVE  PagesWith(c, d, id) = {i \in {Home(id)} : ShownAt(c, d, id)}
    <2>1. \A i \in PagesWith(c, d, id) : i = Home(id)
        BY OnPageIs DEF PagesWith
    <2> QED
        BY <2>1 DEF PagesWith, ShownAt
<1>2. DOMAIN Visible(c, d) = {x \in Ids : PagesWith(c, d, x) # {}}
    BY DEF Visible
<1>3. DOMAIN Visible(c, d) = {id \in Ids : ShownAt(c, d, id)}
    <2>1. \A id \in Ids : PagesWith(c, d, id) # {} <=> ShownAt(c, d, id)
        BY <1>1
    <2> QED
        BY <1>2, <2>1
<1>4. ASSUME NEW id \in DOMAIN Visible(c, d)
      PROVE  /\ Visible(c, d)[id] = OnPage(c, d, Home(id))[id]
             /\ Visible(c, d)[id] \in Vectors
    <2>1. id \in Ids /\ ShownAt(c, d, id)
        BY <1>3
    <2>2. PagesWith(c, d, id) = {Home(id)}
        BY <1>1, <2>1
    <2>3. (CHOOSE i \in PagesWith(c, d, id) : TRUE) = Home(id)
        BY <2>2
    <2>4. Visible(c, d)[id] = OnPage(c, d, CHOOSE i \in PagesWith(c, d, id) : TRUE)[id]
        BY <1>2 DEF Visible
    <2>5. Visible(c, d)[id] = OnPage(c, d, Home(id))[id]
        BY <2>3, <2>4
    <2>6. OnPage(c, d, Home(id))[id] \in Vectors
        BY <2>1, OnPageIs DEF ShownAt
    <2> QED
        BY <2>5, <2>6
<1> QED
    BY <1>1, <1>3, <1>4

(* A search finds the same where every page shows the same.                *)
LEMMA SameVisible ==
    ASSUME NEW c, NEW d, NEW c2, NEW d2, DOMAIN c2.pages = DOMAIN c.pages,
           \A i \in DOMAIN c.pages : OnPage(c2, d2, i) = OnPage(c, d, i)
    PROVE  Visible(c2, d2) = Visible(c, d)
<1>1. ASSUME NEW id PROVE PagesWith(c2, d2, id) = PagesWith(c, d, id)
    BY DEF PagesWith
<1>2. ASSUME NEW id, PagesWith(c, d, id) # {}
      PROVE  OnPage(c2, d2, CHOOSE i \in PagesWith(c2, d2, id) : TRUE)[id]
                 = OnPage(c, d, CHOOSE i \in PagesWith(c, d, id) : TRUE)[id]
    <2>1. PICK S : S = PagesWith(c, d, id)
        OBVIOUS
    <2>2. PICK j : j = CHOOSE i \in S : TRUE
        OBVIOUS
    <2>3. j \in S
        BY <1>2, <2>1, <2>2
    <2>4. j \in DOMAIN c.pages
        BY <2>1, <2>3 DEF PagesWith
    <2>5. PagesWith(c2, d2, id) = S
        BY <1>1, <2>1
    <2>6. (CHOOSE i \in PagesWith(c, d, id) : TRUE) = j
        BY <2>1, <2>2
    <2>7. (CHOOSE i \in PagesWith(c2, d2, id) : TRUE) = j
        BY <2>2, <2>5
    <2>8. OnPage(c2, d2, j) = OnPage(c, d, j)
        BY <2>4
    <2> QED
        BY <2>6, <2>7, <2>8
<1> DEFINE ids == {x \in Ids : PagesWith(c, d, x) # {}}
<1>3. Visible(c2, d2) = [id \in ids |-> OnPage(c2, d2, CHOOSE i \in PagesWith(c2, d2, id) : TRUE)[id]]
    BY <1>1 DEF Visible
<1>4. Visible(c, d) = [id \in ids |-> OnPage(c, d, CHOOSE i \in PagesWith(c, d, id) : TRUE)[id]]
    BY DEF Visible
<1> QED
    BY <1>2, <1>3, <1>4

(* The history: what a save wrote is on its page in the directory, under   *)
(* the metadata, and it is shown while the index is open.                  *)
SafeOn(d, s) ==
    /\ DOMAIN s \subseteq Ids
    /\ \A id \in DOMAIN s :
          /\ s[id].page = Home(id) /\ d.hasMetadata /\ Home(id) < d.totalPages
          /\ Home(id) \in DOMAIN d.file /\ id \in DOMAIN d.file[Home(id)].vectors
          /\ d.file[Home(id)].vectors[id] = s[id].vector
ShownIn(c, d, s) ==
    \A id \in DOMAIN s : ShownAt(c, d, id) /\ OnPage(c, d, Home(id))[id] = s[id].vector
CleanOn(c, d) == \A i \in LoadedPages(c) \ c.dirty : OnDisk(c, d, i)

(* The invariant of the coarse layer c, the directory d and the history s, *)
(* while the index is open (u) or closed.                                  *)
OpenGood(dl, c, d, s) ==
    /\ d.totalPages <= c.totalPages
    /\ dl => CleanOn(c, d)
    /\ ShownIn(c, d, s)
StoreGood(dl, u, c, d, s) ==
    /\ CoarseGood(c) /\ DirectoryGood(d)
    /\ ~dl => Located(c) /\ Counted(d)
    /\ SafeOn(d, s)
    /\ u => OpenGood(dl, c, d, s)

LEMMA StillShownIs ==
    ASSUME NEW c, CoarseGood(c), NEW d, DirectoryGood(d), NEW s
    PROVE  /\ DOMAIN StillShown(s, Visible(c, d)) \subseteq DOMAIN s
           /\ \A id \in DOMAIN StillShown(s, Visible(c, d)) :
                 StillShown(s, Visible(c, d))[id] = s[id]
           /\ ShownIn(c, d, StillShown(s, Visible(c, d)))
<1> DEFINE shown == Visible(c, d)
           kept == {id \in DOMAIN s \cap DOMAIN shown : shown[id] = s[id].vector}
<1>1. StillShown(s, shown) = [id \in kept |-> s[id]]
    BY DEF StillShown
<1>2. \A id \in DOMAIN shown : ShownAt(c, d, id) /\ shown[id] = OnPage(c, d, Home(id))[id]
    BY VisibleIs
<1> HIDE DEF shown
<1>3. ShownIn(c, d, StillShown(s, shown))
    BY <1>1, <1>2 DEF ShownIn
<1> QED
    BY <1>1, <1>3 DEF shown

LEMMA SafePart ==
    ASSUME NEW d, NEW s, SafeOn(d, s), NEW s2, DOMAIN s2 \subseteq DOMAIN s,
           \A id \in DOMAIN s2 : s2[id] = s[id]
    PROVE  SafeOn(d, s2)
BY DEF SafeOn

(* Reading: some of the pages are loaded.                                  *)
IsRead(dl, c, d, c2) ==
    /\ c2 = [pages |-> c2.pages, slots |-> c.slots, pageMap |-> c.pageMap,
             totalPages |-> c.totalPages, dirty |-> c.dirty]
    /\ c2.pages = [i \in DOMAIN c.pages |-> c2.pages[i]]
    /\ \A i \in DOMAIN c.pages : c2.pages[i] \in {c.pages[i], loadPage(c, d, i, dl)}

LEMMA loadPageIs ==
    ASSUME NEW dl, NEW c, CoarseGood(c), NEW d, DirectoryGood(d), NEW i \in DOMAIN c.pages,
           NEW page, page \in {c.pages[i], loadPage(c, d, i, dl)}
    PROVE  /\ page \in Pages
           /\ i < MaxPages => AtHome(page, i)
           /\ i >= MaxPages => ~page.loaded
           /\ page.loaded => page.vectors = OnPage(c, d, i)
           /\ ~page.loaded => ~c.pages[i].loaded
           /\ page.loaded => page = c.pages[i] \/ (i \in DOMAIN d.file /\ page.vectors = d.file[i].vectors)
<1>1. /\ i \in Nat /\ c.pages[i] \in Pages /\ c.pages[i].loaded \in BOOLEAN
      /\ i < MaxPages => AtHome(c.pages[i], i)
      /\ i >= MaxPages => ~c.pages[i].loaded
    BY CoarseIs DEF CoarseGood
<1>2. CASE page = c.pages[i]
    BY <1>1, <1>2 DEF OnPage
<1>3. CASE page # c.pages[i]
    <2>1. /\ ~c.pages[i].loaded /\ i \in DOMAIN d.file
          /\ page = IF dl THEN [d.file[i] EXCEPT !.loaded = TRUE] ELSE d.file[i]
        BY <1>3 DEF loadPage
    <2>2. d.file[i] \in Pages /\ i < MaxPages /\ AtHome(d.file[i], i)
        BY <2>1, DirectoryIs DEF DirectoryGood
    <2>3. page \in Pages /\ page.vectors = d.file[i].vectors
        BY <2>1, <2>2 DEF Pages
    <2>4. OnPage(c, d, i) = d.file[i].vectors
        BY <2>1 DEF OnPage
    <2> QED
        BY <1>1, <2>1, <2>2, <2>3, <2>4, PageNumbers DEF AtHome
<1> QED
    BY <1>2, <1>3

ShowSame(c, d, c2, d2) == Visible(c2, d2) = Visible(c, d)

LEMMA ReadKeeps ==
    ASSUME NEW dl, NEW c, NEW d, NEW s, StoreGood(dl, TRUE, c, d, s), NEW c2, IsRead(dl, c, d, c2)
    PROVE  /\ StoreGood(dl, TRUE, c2, d, StillShown(s, Visible(c2, d)))
           /\ ShowSame(c, d, c2, d)
<1>1. /\ CoarseGood(c) /\ DirectoryGood(d) /\ SafeOn(d, s) /\ (~dl => Located(c) /\ Counted(d))
      /\ d.totalPages <= c.totalPages /\ (dl => CleanOn(c, d)) /\ ShownIn(c, d, s)
    BY DEF StoreGood, OpenGood
<1>2. /\ DOMAIN c2.pages = DOMAIN c.pages /\ c2.slots = c.slots /\ c2.pageMap = c.pageMap
      /\ c2.totalPages = c.totalPages /\ c2.dirty = c.dirty
      /\ c2 = [pages |-> c2.pages, slots |-> c.slots, pageMap |-> c.pageMap,
               totalPages |-> c.totalPages, dirty |-> c.dirty]
      /\ c2.pages = [i \in DOMAIN c.pages |-> c2.pages[i]]
    BY DEF IsRead
<1>3. \A i \in DOMAIN c.pages : c2.pages[i] \in {c.pages[i], loadPage(c, d, i, dl)}
    BY DEF IsRead
<1>4. \A i \in DOMAIN c.pages :
          /\ c2.pages[i] \in Pages
          /\ i < MaxPages => AtHome(c2.pages[i], i)
          /\ i >= MaxPages => ~c2.pages[i].loaded
          /\ c2.pages[i].loaded => c2.pages[i].vectors = OnPage(c, d, i)
          /\ ~c2.pages[i].loaded => ~c.pages[i].loaded
          /\ c2.pages[i].loaded =>
                \/ c2.pages[i] = c.pages[i]
                \/ i \in DOMAIN d.file /\ c2.pages[i].vectors = d.file[i].vectors
    <2> SUFFICES ASSUME NEW i \in DOMAIN c.pages
                 PROVE  /\ c2.pages[i] \in Pages
                        /\ i < MaxPages => AtHome(c2.pages[i], i)
                        /\ i >= MaxPages => ~c2.pages[i].loaded
                        /\ c2.pages[i].loaded => c2.pages[i].vectors = OnPage(c, d, i)
                        /\ ~c2.pages[i].loaded => ~c.pages[i].loaded
                        /\ c2.pages[i].loaded =>
                              \/ c2.pages[i] = c.pages[i]
                              \/ i \in DOMAIN d.file /\ c2.pages[i].vectors = d.file[i].vectors
        OBVIOUS
    <2>1. PICK page \in {c.pages[i], loadPage(c, d, i, dl)} : page = c2.pages[i]
        BY <1>3
    <2>2. /\ page \in Pages
          /\ i < MaxPages => AtHome(page, i)
          /\ i >= MaxPages => ~page.loaded
          /\ page.loaded => page.vectors = OnPage(c, d, i)
          /\ ~page.loaded => ~c.pages[i].loaded
          /\ page.loaded => page = c.pages[i] \/ (i \in DOMAIN d.file /\ page.vectors = d.file[i].vectors)
        BY <1>1, loadPageIs
    <2> QED
        BY <2>1, <2>2
<1>5. CoarseGood(c2)
    <2>1. /\ c.pages \in Maps(Nat, Pages) /\ c.slots \in Nat /\ c.pageMap \in Maps(Ids, PageIndexes)
          /\ c.totalPages \in Nat /\ c.dirty \in SUBSET PageIndexes
        BY <1>1, CoarseIs
    <2>2. DOMAIN c.pages \subseteq Nat
        BY <2>1, MapIs
    <2>3. c2.pages \in [DOMAIN c2.pages -> Pages]
        BY <1>2, <1>4
    <2>4. c2.pages \in Maps(Nat, Pages)
        BY <1>2, <2>2, <2>3, MapIs
    <2>5. c2 \in CoarseRecords
        BY <1>2, <2>1, <2>4 DEF CoarseRecords
    <2> QED
        BY <1>1, <1>2, <1>4, <2>5 DEF CoarseGood
<1>6. \A i \in DOMAIN c.pages : OnPage(c2, d, i) = OnPage(c, d, i)
    BY <1>4 DEF OnPage
<1>7. Visible(c2, d) = Visible(c, d)
    BY <1>2, <1>6, SameVisible
<1>8. ASSUME dl PROVE CleanOn(c2, d)
    <2> SUFFICES ASSUME NEW i \in LoadedPages(c2) \ c2.dirty PROVE OnDisk(c2, d, i)
        BY DEF CleanOn
    <2>1. i \in DOMAIN c.pages /\ c2.pages[i].loaded /\ i \notin c.dirty
        BY <1>2 DEF LoadedPages
    <2>2. CASE c2.pages[i] = c.pages[i]
        <3>1. i \in LoadedPages(c) \ c.dirty
            BY <2>1, <2>2 DEF LoadedPages
        <3> QED
            BY <1>1, <1>8, <2>2, <3>1 DEF CleanOn, OnDisk
    <2>3. CASE c2.pages[i] # c.pages[i]
        BY <1>4, <2>1, <2>3 DEF OnDisk
    <2> QED
        BY <2>2, <2>3
<1>9. ~dl => Located(c2) /\ Counted(d)
    BY <1>1, <1>2 DEF Located
<1> DEFINE s2 == StillShown(s, Visible(c2, d))
<1>10. DOMAIN s2 \subseteq DOMAIN s /\ (\A id \in DOMAIN s2 : s2[id] = s[id]) /\ ShownIn(c2, d, s2)
    BY <1>1, <1>5, StillShownIs
<1> HIDE DEF s2
<1>11. SafeOn(d, s2)
    BY <1>1, <1>10, SafePart
<1>12. StoreGood(dl, TRUE, c2, d, s2)
    BY <1>1, <1>2, <1>5, <1>8, <1>9, <1>10, <1>11 DEF StoreGood, OpenGood
<1> QED
    BY <1>7, <1>12 DEF s2, ShowSame

LEMMA LoadOneIs ==
    ASSUME NEW dl, NEW c, CoarseGood(c), NEW d, NEW i \in DOMAIN c.pages
    PROVE  IsRead(dl, c, d, LoadOne(c, d, i, dl))
<1> DEFINE page == loadPage(c, d, i, dl)
           c2 == LoadOne(c, d, i, dl)
<1>1. c = [pages |-> c.pages, slots |-> c.slots, pageMap |-> c.pageMap,
           totalPages |-> c.totalPages, dirty |-> c.dirty]
      /\ c.pages = [j \in DOMAIN c.pages |-> c.pages[j]]
    BY CoarseIs, MapIs
<1>2. c2 = [c EXCEPT !.pages = [c.pages EXCEPT ![i] = page]]
    BY DEF LoadOne
<1> DEFINE pages == [c.pages EXCEPT ![i] = page]
<1>3. /\ pages = [j \in DOMAIN c.pages |-> pages[j]]
      /\ \A j \in DOMAIN c.pages : pages[j] = IF j = i THEN page ELSE c.pages[j]
    <2> HIDE DEF page
    <2> QED
        BY <1>1
<1> HIDE DEF pages
<1>4. c2 = [pages |-> pages, slots |-> c.slots, pageMap |-> c.pageMap,
            totalPages |-> c.totalPages, dirty |-> c.dirty]
    <2>1. c2 = [c EXCEPT !.pages = pages]
        BY <1>2 DEF pages
    <2> HIDE DEF c2
    <2> QED
        BY <1>1, <2>1
<1>5. c2.pages = pages
    <2> HIDE DEF c2
    <2> QED
        BY <1>4
<1> HIDE DEF c2
<1>6. IsRead(dl, c, d, c2)
    BY <1>3, <1>4, <1>5 DEF IsRead
<1> QED
    BY <1>6 DEF c2

LEMMA LoadAllIs ==
    ASSUME NEW dl, NEW c, CoarseGood(c), NEW d
    PROVE  IsRead(dl, c, d, LoadAll(c, d, dl))
<1>1. c = [pages |-> c.pages, slots |-> c.slots, pageMap |-> c.pageMap,
           totalPages |-> c.totalPages, dirty |-> c.dirty]
    BY CoarseIs
<1> DEFINE pages == [i \in DOMAIN c.pages |-> loadPage(c, d, i, dl)]
           c2 == LoadAll(c, d, dl)
<1>2. c2 = [c EXCEPT !.pages = pages]
    BY DEF LoadAll
<1>3. /\ pages = [j \in DOMAIN c.pages |-> pages[j]]
      /\ \A j \in DOMAIN c.pages : pages[j] = loadPage(c, d, j, dl)
    OBVIOUS
<1> HIDE DEF pages, c2
<1>4. c2 = [pages |-> pages, slots |-> c.slots, pageMap |-> c.pageMap,
            totalPages |-> c.totalPages, dirty |-> c.dirty]
    BY <1>1, <1>2
<1>5. c2.pages = pages
    BY <1>4
<1>6. IsRead(dl, c, d, c2)
    BY <1>3, <1>4, <1>5 DEF IsRead
<1> QED
    BY <1>6 DEF c2

LEMMA NothingRead ==
    ASSUME NEW dl, NEW c, CoarseGood(c), NEW d
    PROVE  IsRead(dl, c, d, c)
<1>1. /\ c = [pages |-> c.pages, slots |-> c.slots, pageMap |-> c.pageMap,
              totalPages |-> c.totalPages, dirty |-> c.dirty]
      /\ c.pages = [j \in DOMAIN c.pages |-> c.pages[j]]
    BY CoarseIs, MapIs
<1> QED
    BY <1>1 DEF IsRead

LEMMA GetLoadsIs ==
    ASSUME NEW dl, NEW c, CoarseGood(c), NEW d, NEW id \in Ids, ~GetPanics(c, id)
    PROVE  IsRead(dl, c, d, GetLoads(c, d, id, dl))
<1>1. CASE id \notin DOMAIN c.pageMap
    BY <1>1, NothingRead DEF GetLoads
<1>2. CASE id \in DOMAIN c.pageMap
    <2>1. PICK i \in DOMAIN c.pages : i = c.pageMap[id]
        BY <1>2 DEF GetPanics
    <2>2. GetLoads(c, d, id, dl) = LoadOne(c, d, i, dl)
        BY <1>2, <2>1 DEF GetLoads
    <2> QED
        BY <2>2, LoadOneIs
<1> QED
    BY <1>1, <1>2

(* A vector that GetVector finds.                                          *)
LEMMA GetVectorIs ==
    ASSUME NEW c, CoarseGood(c), NEW d, DirectoryGood(d), NEW id \in Ids,
           id \in DOMAIN c.pageMap => c.pageMap[id] \in DOMAIN c.pages, CanGet(c, d, id)
    PROVE  GetVector(c, d, id) \in Vectors
<1>1. PICK i \in DOMAIN c.pages : i = c.pageMap[id]
    BY DEF CanGet
<1>2. id \in DOMAIN OnPage(c, d, i) /\ GetVector(c, d, id) = OnPage(c, d, i)[id]
    BY <1>1 DEF CanGet, GetVector
<1> QED
    BY <1>2, OnPageIs

-----------------------------------------------------------------------------
(* Saving.                                                                 *)

LEMMA HistoryKept ==
    ASSUME NEW dl, NEW c, CoarseGood(c), NEW d, DirectoryGood(d), ~dl => Located(c) /\ Counted(d),
           d.totalPages <= c.totalPages, dl => CleanOn(c, d), NEW s, SafeOn(d, s)
    PROVE  StoreGood(dl, TRUE, c, d, StillShown(s, Visible(c, d)))
<1> DEFINE s2 == StillShown(s, Visible(c, d))
<1>1. DOMAIN s2 \subseteq DOMAIN s /\ (\A id \in DOMAIN s2 : s2[id] = s[id]) /\ ShownIn(c, d, s2)
    BY StillShownIs
<1> HIDE DEF s2
<1>2. SafeOn(d, s2)
    BY <1>1, SafePart
<1>3. StoreGood(dl, TRUE, c, d, s2)
    BY <1>1, <1>2 DEF StoreGood, OpenGood
<1> QED
    BY <1>3 DEF s2

LEMMA SavePagesIs ==
    ASSUME NEW c, CoarseGood(c), NEW d, DirectoryGood(d), NEW S \in SUBSET LoadedPages(c)
    PROVE  /\ DirectoryGood(SavePages(c, d, S))
           /\ SavePages(c, d, S).hasMetadata = d.hasMetadata
           /\ SavePages(c, d, S).totalPages = d.totalPages
           /\ SavePages(c, d, S).pageMap = d.pageMap
           /\ DOMAIN SavePages(c, d, S).file = S \cup DOMAIN d.file
           /\ \A i \in S : SavePages(c, d, S).file[i] = c.pages[i]
           /\ \A i \in DOMAIN d.file \ S : SavePages(c, d, S).file[i] = d.file[i]
<1>1. /\ d = [file |-> d.file, hasMetadata |-> d.hasMetadata,
              totalPages |-> d.totalPages, pageMap |-> d.pageMap]
      /\ d.file \in Maps(Nat, Pages) /\ d.hasMetadata \in BOOLEAN
      /\ d.pageMap \in Maps(Ids, PageIndexes) /\ d.totalPages \in Nat
      /\ \A i \in DOMAIN d.file :
            i \in Nat /\ i < MaxPages /\ d.file[i] \in Pages /\ AtHome(d.file[i], i)
    BY DirectoryIs DEF DirectoryGood
<1>2. \A i \in S :
          i \in Nat /\ i < MaxPages /\ c.pages[i] \in Pages /\ AtHome(c.pages[i], i)
    <2> SUFFICES ASSUME NEW i \in S
                 PROVE  i \in Nat /\ i < MaxPages /\ c.pages[i] \in Pages /\ AtHome(c.pages[i], i)
        OBVIOUS
    <2>1. i \in DOMAIN c.pages /\ c.pages[i].loaded
        BY DEF LoadedPages
    <2>2. i \in Nat /\ c.pages[i] \in Pages /\ ~(i >= MaxPages)
        BY <2>1, CoarseIs DEF CoarseGood
    <2>3. i < MaxPages
        BY <2>2, PageNumbers
    <2> QED
        BY <2>1, <2>2, <2>3 DEF CoarseGood
<1> DEFINE file == [i \in S \cup DOMAIN d.file |-> IF i \in S THEN c.pages[i] ELSE d.file[i]]
           d2 == SavePages(c, d, S)
<1>3. d2 = [d EXCEPT !.file = file]
    BY DEF SavePages
<1>4. /\ DOMAIN file = S \cup DOMAIN d.file
      /\ \A i \in S : file[i] = c.pages[i]
      /\ \A i \in DOMAIN d.file \ S : file[i] = d.file[i]
      /\ file = [i \in DOMAIN file |-> file[i]]
    OBVIOUS
<1> HIDE DEF file, d2
<1>5. d2 = [file |-> file, hasMetadata |-> d.hasMetadata,
            totalPages |-> d.totalPages, pageMap |-> d.pageMap]
    BY <1>1, <1>3
<1>6. /\ d2.file = file /\ d2.hasMetadata = d.hasMetadata
      /\ d2.totalPages = d.totalPages /\ d2.pageMap = d.pageMap
    BY <1>5
<1>7. \A i \in DOMAIN file :
          i \in Nat /\ i < MaxPages /\ file[i] \in Pages /\ AtHome(file[i], i)
    BY <1>1, <1>2, <1>4
<1>8. d2 \in Directories
    <2>1. file \in [DOMAIN file -> Pages] /\ DOMAIN file \subseteq Nat
        BY <1>4, <1>7
    <2>2. file \in Maps(Nat, Pages)
        BY <2>1, MapIs
    <2> QED
        BY <1>1, <1>5, <2>2 DEF Directories
<1>9. DirectoryGood(d2)
    BY <1>6, <1>7, <1>8 DEF DirectoryGood
<1> QED
    BY <1>4, <1>6, <1>9 DEF d2

(* A saved page of the index that is open is the same on disk.             *)
LEMMA SavePagesKeeps ==
    ASSUME NEW c, CoarseGood(c), NEW d, DirectoryGood(d), NEW S \in SUBSET LoadedPages(c),
           NEW d2, d2 = SavePages(c, d, S)
    PROVE  /\ \A i \in DOMAIN c.pages : OnPage(c, d2, i) = OnPage(c, d, i)
           /\ \A i \in S : OnDisk(c, d2, i)
           /\ \A i : OnDisk(c, d, i) => OnDisk(c, d2, i)
           /\ \A s : SafeOn(d, s) /\ ShownIn(c, d, s) => SafeOn(d2, s)
<1>1. /\ d2.hasMetadata = d.hasMetadata /\ d2.totalPages = d.totalPages
      /\ DOMAIN d2.file = S \cup DOMAIN d.file
      /\ \A i \in S : d2.file[i] = c.pages[i]
      /\ \A i \in DOMAIN d.file \ S : d2.file[i] = d.file[i]
    BY SavePagesIs
<1>2. \A i \in S : i \in DOMAIN c.pages /\ c.pages[i].loaded
    BY DEF LoadedPages
<1>3. ASSUME NEW i \in DOMAIN c.pages PROVE OnPage(c, d2, i) = OnPage(c, d, i)
    <2>1. CASE i \in S
        BY <1>2, <2>1 DEF OnPage
    <2>2. CASE i \notin S
        BY <1>1, <2>2 DEF OnPage
    <2> QED
        BY <2>1, <2>2
<1>4. /\ \A i \in S : OnDisk(c, d2, i)
      /\ \A i : OnDisk(c, d, i) => OnDisk(c, d2, i)
    BY <1>1 DEF OnDisk
<1>5. ASSUME NEW s, SafeOn(d, s), ShownIn(c, d, s), NEW id \in DOMAIN s
      PROVE  /\ s[id].page = Home(id) /\ d2.hasMetadata /\ Home(id) < d2.totalPages
             /\ Home(id) \in DOMAIN d2.file /\ id \in DOMAIN d2.file[Home(id)].vectors
             /\ d2.file[Home(id)].vectors[id] = s[id].vector
    <2>1. /\ s[id].page = Home(id) /\ d2.hasMetadata /\ Home(id) < d2.totalPages
          /\ Home(id) \in DOMAIN d2.file
        BY <1>1, <1>5 DEF SafeOn
    <2>2. CASE Home(id) \in S
        <3>1. ShownAt(c, d, id) /\ OnPage(c, d, Home(id))[id] = s[id].vector
            BY <1>5 DEF ShownIn
        <3>2. OnPage(c, d, Home(id)) = c.pages[Home(id)].vectors
            BY <1>2, <2>2 DEF OnPage
        <3>3. d2.file[Home(id)] = c.pages[Home(id)]
            BY <1>1, <2>2
        <3> QED
            BY <2>1, <3>1, <3>2, <3>3 DEF ShownAt
    <2>3. CASE Home(id) \notin S
        <3>1. d2.file[Home(id)] = d.file[Home(id)]
            BY <1>1, <2>1, <2>3
        <3> QED
            BY <1>5, <2>1, <3>1 DEF SafeOn
    <2> QED
        BY <2>2, <2>3
<1>6. ASSUME NEW s, SafeOn(d, s), ShownIn(c, d, s) PROVE SafeOn(d2, s)
    BY <1>5, <1>6 DEF SafeOn
<1> QED
    BY <1>3, <1>4, <1>6

LEMMA NoNilPages ==
    ASSUME NEW c, CoarseGood(c), ~HasNil(c)
    PROVE  DOMAIN c.pages = 0 .. c.slots - 1 /\ c.slots <= c.totalPages
<1>1. DOMAIN c.pages = 0 .. c.slots - 1 /\ c.slots \in Nat
    BY CoarseIs DEF CoarseGood, HasNil
<1>2. PICK slots \in Nat : slots = c.slots
    BY <1>1
<1>3. Cardinality(0 .. slots - 1) = slots
    BY FS_Interval
<1> QED
    BY <1>1, <1>2, <1>3 DEF CoarseGood

LEMMA CleanIs ==
    ASSUME NEW c, CoarseGood(c)
    PROVE  /\ CoarseGood(Clean(c)) /\ Clean(c).pages = c.pages
           /\ Clean(c).totalPages = c.totalPages /\ Clean(c).pageMap = c.pageMap
           /\ Clean(c).dirty = {} /\ LoadedPages(Clean(c)) = LoadedPages(c)
           /\ \A d, i : OnPage(Clean(c), d, i) = OnPage(c, d, i)
           /\ \A d, i : OnDisk(Clean(c), d, i) <=> OnDisk(c, d, i)
<1> DEFINE c2 == Clean(c)
<1>1. /\ c \in CoarseRecords
      /\ c = [pages |-> c.pages, slots |-> c.slots, pageMap |-> c.pageMap,
              totalPages |-> c.totalPages, dirty |-> c.dirty]
    BY CoarseIs DEF CoarseGood
<1>2. c2 = [pages |-> c.pages, slots |-> c.slots, pageMap |-> c.pageMap,
            totalPages |-> c.totalPages, dirty |-> {}]
    BY <1>1 DEF Clean
<1> HIDE DEF c2
<1>3. /\ c2.pages = c.pages /\ c2.slots = c.slots /\ c2.pageMap = c.pageMap
      /\ c2.totalPages = c.totalPages /\ c2.dirty = {}
    BY <1>2
<1>4. c2 \in CoarseRecords
    BY <1>1, <1>2 DEF CoarseRecords
<1>5. CoarseGood(c2)
    BY <1>3, <1>4 DEF CoarseGood
<1>6. /\ LoadedPages(c2) = LoadedPages(c)
      /\ \A d, i : OnPage(c2, d, i) = OnPage(c, d, i)
      /\ \A d, i : OnDisk(c2, d, i) <=> OnDisk(c, d, i)
    BY <1>3 DEF LoadedPages, OnPage, OnDisk
<1> QED
    BY <1>3, <1>5, <1>6 DEF c2

(* What a completed save promises is true, if it left every loaded page on *)
(* disk.                                                                   *)
LEMMA WrittenIs ==
    ASSUME NEW c, CoarseGood(c), NEW d, DirectoryGood(d), \A i \in LoadedPages(c) : OnDisk(c, d, i)
    PROVE  SafeOn(d, Written(c, d)) /\ ShownIn(c, d, Written(c, d))
<1> DEFINE s == Written(c, d)
           ids == {id \in DOMAIN Visible(c, d) : \E i \in PagesWith(c, d, id) : i < d.totalPages}
           pageOf(id) == CHOOSE i \in PagesWith(c, d, id) : i < d.totalPages
<1>1. s = [id \in ids |-> [vector |-> Visible(c, d)[id], page |-> pageOf(id)]]
    BY DEF Written
<1>2. DOMAIN Visible(c, d) = {id \in Ids : ShownAt(c, d, id)}
    BY VisibleIs
<1>3. \A id \in Ids : PagesWith(c, d, id) = {i \in {Home(id)} : ShownAt(c, d, id)}
    BY VisibleIs
<1>4. ASSUME NEW id \in ids
      PROVE  /\ id \in Ids /\ ShownAt(c, d, id) /\ Home(id) < d.totalPages /\ pageOf(id) = Home(id)
             /\ Visible(c, d)[id] = OnPage(c, d, Home(id))[id]
    <2>1. id \in Ids /\ ShownAt(c, d, id) /\ Visible(c, d)[id] = OnPage(c, d, Home(id))[id]
        BY <1>2, VisibleIs
    <2>2. PagesWith(c, d, id) = {Home(id)}
        <3>1. PagesWith(c, d, id) = {i \in {Home(id)} : ShownAt(c, d, id)}
            BY <1>3, <2>1
        <3> QED
            BY <2>1, <3>1
    <2>3. Home(id) < d.totalPages
        BY <2>2
    <2>4. pageOf(id) = Home(id)
        BY <2>2, <2>3
    <2> QED
        BY <2>1, <2>3, <2>4
<1> HIDE DEF ids, s, pageOf
<1>5. /\ DOMAIN s = ids
      /\ \A id \in ids : s[id].vector = Visible(c, d)[id] /\ s[id].page = pageOf(id)
    BY <1>1
<1>6. ShownIn(c, d, s)
    BY <1>4, <1>5 DEF ShownIn
<1>7. ASSUME NEW id \in ids
      PROVE  /\ d.hasMetadata /\ Home(id) \in DOMAIN d.file
             /\ d.file[Home(id)].vectors = OnPage(c, d, Home(id))
    <2>1. /\ id \in Ids /\ Home(id) < d.totalPages /\ Home(id) \in DOMAIN c.pages
          /\ id \in DOMAIN OnPage(c, d, Home(id))
        BY <1>4 DEF ShownAt
    <2>2. d.hasMetadata
        BY <2>1, PageNumbers DEF DirectoryGood
    <2>3. CASE c.pages[Home(id)].loaded
        <3>1. OnDisk(c, d, Home(id))
            BY <2>1, <2>3 DEF LoadedPages
        <3> QED
            BY <2>2, <2>3, <3>1 DEF OnDisk, OnPage
    <2>4. CASE ~c.pages[Home(id)].loaded
        BY <2>1, <2>2, <2>4, EmptyMap DEF OnPage
    <2> QED
        BY <2>3, <2>4
<1>8. SafeOn(d, s)
    <2>1. DOMAIN s \subseteq Ids
        BY <1>4, <1>5
    <2>2. ASSUME NEW id \in DOMAIN s
          PROVE  /\ s[id].page = Home(id) /\ d.hasMetadata /\ Home(id) < d.totalPages
                 /\ Home(id) \in DOMAIN d.file /\ id \in DOMAIN d.file[Home(id)].vectors
                 /\ d.file[Home(id)].vectors[id] = s[id].vector
        <3>1. ShownAt(c, d, id) /\ Home(id) < d.totalPages /\ s[id].page = Home(id)
            BY <1>4, <1>5
        <3>2. s[id].vector = OnPage(c, d, Home(id))[id]
            BY <1>4, <1>5
        <3>3. /\ d.hasMetadata /\ Home(id) \in DOMAIN d.file
              /\ d.file[Home(id)].vectors = OnPage(c, d, Home(id))
            BY <1>5, <1>7
        <3> QED
            BY <3>1, <3>2, <3>3 DEF ShownAt
    <2> QED
        BY <2>1, <2>2 DEF SafeOn
<1> QED
    BY <1>6, <1>8 DEF s

(* A save of the pages S, with or without metadata, and with or without    *)
(* the marks of dirty pages removed.                                       *)
SavesAll(c, d, S) == \A i \in LoadedPages(c) : i \in S \/ OnDisk(c, d, i)

SaveDone(dl, c, d, s, S, c2, d2) ==
    /\ StoreGood(dl, TRUE, c2, d2, StillShown(s, Visible(c2, d2)))
    /\ SafeOn(d2, s)
    /\ ShowSame(c, d, c2, d2)
    /\ SavesAll(c, d, S) => StoreGood(dl, TRUE, c2, d2, Written(c2, d2))

LEMMA SaveKeeps ==
    ASSUME NEW dl, NEW c, NEW d, NEW s, StoreGood(dl, TRUE, c, d, s),
           NEW S \in SUBSET LoadedPages(c), NEW d2, DirectoryGood(d2),
           d2.file = SavePages(c, d, S).file,
           d.totalPages <= d2.totalPages, d2.totalPages <= c.totalPages,
           d.hasMetadata => d2.hasMetadata, ~dl => Counted(d2),
           NEW c2 \in {c, Clean(c)},
           c2 = c \/ SavesAll(c, d, S)
    PROVE  SaveDone(dl, c, d, s, S, c2, d2)
<1> DEFINE d1 == SavePages(c, d, S)
<1>1. /\ CoarseGood(c) /\ DirectoryGood(d) /\ SafeOn(d, s) /\ (~dl => Located(c))
      /\ d.totalPages <= c.totalPages /\ (dl => CleanOn(c, d)) /\ ShownIn(c, d, s)
    BY DEF StoreGood, OpenGood
<1>2. /\ \A i \in DOMAIN c.pages : OnPage(c, d1, i) = OnPage(c, d, i)
      /\ \A i \in S : OnDisk(c, d1, i)
      /\ \A i : OnDisk(c, d, i) => OnDisk(c, d1, i)
      /\ SafeOn(d1, s)
    BY <1>1, SavePagesKeeps
<1>3. d1.hasMetadata = d.hasMetadata /\ d1.totalPages = d.totalPages
    BY <1>1, SavePagesIs
<1> HIDE DEF d1
<1>4. d2.file = d1.file
    BY DEF d1
<1>5. /\ CoarseGood(c2) /\ c2.pages = c.pages /\ c2.totalPages = c.totalPages
      /\ c2.pageMap = c.pageMap /\ LoadedPages(c2) = LoadedPages(c)
      /\ c2.dirty = c.dirty \/ c2.dirty = {}
      /\ c2 = c \/ c2.dirty = {}
    BY <1>1, CleanIs
<1>6. /\ \A i \in DOMAIN c.pages : OnPage(c2, d2, i) = OnPage(c, d, i)
      /\ \A i : OnDisk(c2, d2, i) <=> OnDisk(c, d1, i)
    <2>1. \A i \in DOMAIN c.pages : OnPage(c2, d2, i) = OnPage(c, d1, i)
        BY <1>4, <1>5 DEF OnPage
    <2>2. \A i : OnDisk(c2, d2, i) <=> OnDisk(c, d1, i)
        BY <1>4, <1>5 DEF OnDisk
    <2> QED
        BY <1>2, <2>1, <2>2
<1>7. Visible(c2, d2) = Visible(c, d)
    BY <1>5, <1>6, SameVisible
<1>8. SafeOn(d2, s)
    <2>1. \A id \in DOMAIN s : Home(id) < d2.totalPages
        <3> SUFFICES ASSUME NEW id \in DOMAIN s PROVE Home(id) < d2.totalPages
            OBVIOUS
        <3>1. id \in Ids /\ Home(id) < d.totalPages
            BY <1>1 DEF SafeOn
        <3>2. Home(id) \in Nat /\ d.totalPages \in Nat /\ d2.totalPages \in Nat
            BY <1>1, <3>1, PageNumbers, DirectoryIs
        <3> QED
            BY <3>1, <3>2
    <2> QED
        BY <1>1, <1>2, <1>3, <1>4, <2>1 DEF SafeOn
<1>9. SavesAll(c, d, S) => \A i \in LoadedPages(c2) : OnDisk(c2, d2, i)
    BY <1>2, <1>5, <1>6 DEF SavesAll
<1>10. dl => CleanOn(c2, d2)
    <2>1. CASE c2 = c
        BY <1>1, <1>2, <1>6, <2>1 DEF CleanOn
    <2>2. CASE SavesAll(c, d, S)
        BY <1>9, <2>2 DEF CleanOn
    <2> QED
        BY <2>1, <2>2
<1>11. (~dl => Located(c2) /\ Counted(d2)) /\ d2.totalPages <= c2.totalPages
    BY <1>1, <1>5 DEF Located
<1>12. StoreGood(dl, TRUE, c2, d2, StillShown(s, Visible(c2, d2)))
    BY <1>5, <1>8, <1>10, <1>11, HistoryKept
<1>13. ASSUME SavesAll(c, d, S)
       PROVE  StoreGood(dl, TRUE, c2, d2, Written(c2, d2))
    <2>1. SafeOn(d2, Written(c2, d2)) /\ ShownIn(c2, d2, Written(c2, d2))
        BY <1>5, <1>9, <1>13, WrittenIs
    <2> QED
        BY <1>5, <1>10, <1>11, <2>1 DEF StoreGood, OpenGood
<1> QED
    BY <1>7, <1>8, <1>12, <1>13 DEF ShowSame, SaveDone

LEMMA SaveIs ==
    ASSUME NEW c, CoarseGood(c), NEW d, DirectoryGood(d)
    PROVE  /\ DirectoryGood(Save(c, d)) /\ Save(c, d).hasMetadata
           /\ Save(c, d).totalPages = c.totalPages
           /\ Save(c, d).file = SavePages(c, d, LoadedPages(c)).file
           /\ Located(c) /\ ~HasNil(c) => Counted(Save(c, d))
<1> DEFINE d1 == SavePages(c, d, LoadedPages(c))
           d2 == Save(c, d)
<1>1. DirectoryGood(d1)
    BY SavePagesIs
<1>2. d2 = [d1 EXCEPT !.hasMetadata = TRUE, !.totalPages = c.totalPages, !.pageMap = c.pageMap]
    BY DEF Save
<1> HIDE DEF d1, d2
<1>3. d1 = [file |-> d1.file, hasMetadata |-> d1.hasMetadata,
            totalPages |-> d1.totalPages, pageMap |-> d1.pageMap]
      /\ d1.file \in Maps(Nat, Pages)
    BY <1>1, DirectoryIs
<1>4. d2 = [file |-> d1.file, hasMetadata |-> TRUE,
            totalPages |-> c.totalPages, pageMap |-> c.pageMap]
    BY <1>2, <1>3
<1>5. /\ d2.file = d1.file /\ d2.hasMetadata = TRUE
      /\ d2.totalPages = c.totalPages /\ d2.pageMap = c.pageMap
    BY <1>4
<1>6. c.totalPages \in Nat /\ c.pageMap \in Maps(Ids, PageIndexes)
    BY CoarseIs
<1>7. d2 \in Directories
    BY <1>3, <1>4, <1>6 DEF Directories
<1>8. DirectoryGood(d2)
    BY <1>1, <1>5, <1>7 DEF DirectoryGood, CoarseGood
<1>9. ASSUME Located(c), ~HasNil(c), NEW id \in DOMAIN c.pageMap
      PROVE  c.pageMap[id] < c.totalPages
    <2>1. c.pageMap[id] \in 0 .. c.slots - 1 /\ c.slots <= c.totalPages
        BY <1>9, NoNilPages DEF Located
    <2>2. c.slots \in Nat /\ c.totalPages \in Nat
        BY CoarseIs
    <2> QED
        BY <2>1, <2>2
<1>10. Located(c) /\ ~HasNil(c) => Counted(d2)
    BY <1>5, <1>9 DEF Counted
<1> QED
    BY <1>5, <1>8, <1>10 DEF d1, d2

-----------------------------------------------------------------------------
(* Opening.                                                                *)

LEMMA NewCoarseGood == CoarseGood(NewCoarseIndex) /\ Located(NewCoarseIndex)
<1> DEFINE c == NewCoarseIndex
<1>1. c = [pages |-> Nothing, slots |-> 0, pageMap |-> Nothing, totalPages |-> 0, dirty |-> {}]
    BY DEF NewCoarseIndex
<1> HIDE DEF c
<1>2. Nothing \in Maps(Nat, Pages) /\ Nothing \in Maps(Ids, PageIndexes) /\ DOMAIN Nothing = {}
    BY EmptyMap
<1>3. c \in CoarseRecords
    BY <1>1, <1>2 DEF CoarseRecords
<1>4. /\ c.pages = Nothing /\ c.pageMap = Nothing /\ c.totalPages = 0 /\ DOMAIN c.pages = {}
      /\ DOMAIN c.pageMap = {} /\ Cardinality({}) = 0
    BY <1>1, <1>2, FS_EmptySet
<1>5. CoarseGood(c) /\ Located(c)
    BY <1>3, <1>4 DEF CoarseGood, Located
<1> QED
    BY <1>5 DEF c

LEMMA LoadIs ==
    ASSUME NEW d, DirectoryGood(d)
    PROVE  /\ CoarseGood(Load(d)) /\ LoadedPages(Load(d)) = {}
           /\ Load(d).totalPages = d.totalPages
           /\ Counted(d) => Located(Load(d))
<1> DEFINE c == Load(d)
           pages == [i \in 0 .. d.totalPages - 1 |-> UnloadedPage]
<1>1. c = [pages |-> pages, slots |-> d.totalPages, pageMap |-> d.pageMap,
           totalPages |-> d.totalPages, dirty |-> {}]
    BY DEF Load
<1>2. /\ d.totalPages \in Nat /\ d.pageMap \in Maps(Ids, PageIndexes)
      /\ \A id \in DOMAIN d.pageMap : id \in Ids /\ d.pageMap[id] \in PageIndexes
      /\ \A id \in DOMAIN d.pageMap : d.pageMap[id] = Home(id) \/ d.pageMap[id] < d.totalPages
    BY DirectoryIs DEF DirectoryGood
<1>3. /\ UnloadedPage \in Pages /\ ~UnloadedPage.loaded /\ \A i : AtHome(UnloadedPage, i)
    BY EmptyMap DEF UnloadedPage, Pages, AtHome
<1>4. pages \in Maps(Nat, Pages) /\ DOMAIN pages = 0 .. d.totalPages - 1
    <2>1. pages \in [0 .. d.totalPages - 1 -> Pages] /\ DOMAIN pages = 0 .. d.totalPages - 1
        BY <1>3
    <2>2. 0 .. d.totalPages - 1 \subseteq Nat
        BY <1>2
    <2> HIDE DEF pages
    <2> QED
        BY <2>1, <2>2, MapIs
<1>5. \A i \in DOMAIN pages : pages[i] = UnloadedPage
    BY <1>4
<1> HIDE DEF pages, c
<1>6. /\ c.pages = pages /\ c.slots = d.totalPages /\ c.pageMap = d.pageMap
      /\ c.totalPages = d.totalPages
    BY <1>1
<1>7. c \in CoarseRecords
    BY <1>1, <1>2, <1>4 DEF CoarseRecords
<1>8. Cardinality(DOMAIN c.pages) = d.totalPages
    <2>1. PICK n \in Nat : n = d.totalPages
        BY <1>2
    <2>2. Cardinality(0 .. n - 1) = n
        BY FS_Interval
    <2> QED
        BY <1>4, <1>6, <2>1, <2>2
<1>9. \A id \in DOMAIN d.pageMap : d.pageMap[id] < d.totalPages => d.pageMap[id] \in DOMAIN pages
    <2> SUFFICES ASSUME NEW id \in DOMAIN d.pageMap, d.pageMap[id] < d.totalPages
                 PROVE  d.pageMap[id] \in 0 .. d.totalPages - 1
        BY <1>4
    <2>1. d.pageMap[id] \in Nat
        BY <1>2, PageNumbers
    <2> QED
        BY <1>2, <2>1
<1>10. \A i \in DOMAIN pages : i < d.totalPages
    BY <1>2, <1>4
<1>11. CoarseGood(c)
    <2>1. Cardinality(DOMAIN c.pages) <= c.totalPages
        BY <1>2, <1>6, <1>8
    <2>2. DOMAIN c.pages \subseteq 0 .. c.slots - 1
        BY <1>4, <1>6
    <2> QED
        BY <1>2, <1>3, <1>5, <1>6, <1>7, <1>9, <1>10, <2>1, <2>2 DEF CoarseGood
<1>12. LoadedPages(c) = {}
    BY <1>3, <1>5, <1>6 DEF LoadedPages
<1>13. Counted(d) => Located(c)
    BY <1>6, <1>9 DEF Counted, Located
<1> QED
    BY <1>6, <1>11, <1>12, <1>13 DEF c

LEMMA OpenKeeps ==
    ASSUME NEW dl, NEW c, NEW d, NEW s, StoreGood(dl, FALSE, c, d, s),
           NEW c2, c2 = IF d.hasMetadata THEN Load(d) ELSE NewCoarseIndex
    PROVE  StoreGood(dl, TRUE, c2, d, StillShown(s, Visible(c2, d)))
<1>1. DirectoryGood(d) /\ SafeOn(d, s) /\ (~dl => Counted(d))
    BY DEF StoreGood
<1>2. CoarseGood(c2) /\ (~dl => Located(c2)) /\ LoadedPages(c2) = {}
    <2>1. LoadedPages(NewCoarseIndex) = {}
        BY EmptyMap DEF LoadedPages, NewCoarseIndex
    <2> QED
        BY <1>1, <2>1, LoadIs, NewCoarseGood
<1>3. d.totalPages <= c2.totalPages
    <2>1. d.totalPages \in Nat
        BY <1>1, DirectoryIs
    <2>2. CASE d.hasMetadata
        BY <1>1, <2>1, <2>2, LoadIs
    <2>3. CASE ~d.hasMetadata
        BY <1>1, <2>3 DEF DirectoryGood, NewCoarseIndex
    <2> QED
        BY <2>2, <2>3
<1>4. CleanOn(c2, d)
    BY <1>2 DEF CleanOn
<1> QED
    BY <1>1, <1>2, <1>3, <1>4, HistoryKept

-----------------------------------------------------------------------------
(* Inserting.                                                              *)

(* The page of a new vector: the page itself before it takes the vector.   *)
PageFor(c, id) ==
    IF PageOf(id) \notin DOMAIN c.pages THEN NewPage ELSE c.pages[findOrCreatePage(c, id)]

LEMMA findOrCreatePageIs ==
    ASSUME NEW c, CoarseGood(c), NEW id \in Ids, ~InsertPanics(c, id),
           NEW i, i = findOrCreatePage(c, id)
    PROVE  /\ i \in Nat /\ i \in PageIndexes
           /\ PageFor(c, id) \in Pages
           /\ i < MaxPages => Home(id) = i /\ AtHome(PageFor(c, id), i)
           /\ i >= MaxPages => i \in DOMAIN c.pages /\ i < c.totalPages /\ ~PageFor(c, id).loaded
           /\ PageOf(id) \in DOMAIN c.pages => i \in DOMAIN c.pages
           /\ Evicts(c, id) => /\ i = 0 /\ 0 \in DOMAIN c.pages
                               /\ PageFor(c, id) = NewPage
<1>1. PageOf(id) \in Nat /\ PageOf(id) \in PageIndexes /\ MaxPages \in Nat \ {0} /\ 0 \in PageIndexes
    BY PageNumbers
<1>2. NewPage \in Pages /\ \A j : AtHome(NewPage, j)
    BY EmptyMap DEF NewPage, Pages, AtHome
<1>3. CASE Evicts(c, id)
    <2>1. PageOf(id) \notin DOMAIN c.pages /\ PageOf(id) >= MaxPages /\ i = 0
        BY <1>3 DEF Evicts, findOrCreatePage, evictPage
    <2>2. c.slots # 0 /\ ~HasNil(c) /\ c.slots \in Nat
        BY <1>3, CoarseIs DEF InsertPanics
    <2>3. 0 \in DOMAIN c.pages
        BY <2>2 DEF HasNil
    <2>4. Home(id) = 0
        BY <1>1, <2>1 DEF Home, evictPage
    <2>5. PageFor(c, id) = NewPage
        BY <2>1 DEF PageFor
    <2> QED
        BY <1>1, <1>2, <2>1, <2>3, <2>4, <2>5
<1>4. CASE ~Evicts(c, id) /\ PageOf(id) \notin DOMAIN c.pages
    <2>1. i = PageOf(id) /\ i < MaxPages
        BY <1>1, <1>4 DEF Evicts, findOrCreatePage
    <2>2. Home(id) = i
        BY <2>1 DEF Home
    <2>3. PageFor(c, id) = NewPage
        BY <1>4 DEF PageFor
    <2> QED
        BY <1>1, <1>2, <1>4, <2>1, <2>2, <2>3
<1>5. CASE PageOf(id) \in DOMAIN c.pages
    <2>1. i = PageOf(id) /\ ~Evicts(c, id)
        BY <1>5 DEF Evicts, findOrCreatePage
    <2>2. PageFor(c, id) = c.pages[i]
        BY <1>5 DEF PageFor
    <2>3. c.pages[i] \in Pages
        BY <1>5, <2>1, CoarseIs
    <2>4. /\ i < MaxPages => AtHome(c.pages[i], i)
          /\ i >= MaxPages => ~c.pages[i].loaded /\ i < c.totalPages
        BY <1>5, <2>1 DEF CoarseGood
    <2>5. i < MaxPages => Home(id) = i
        BY <2>1 DEF Home
    <2> QED
        BY <1>1, <1>5, <2>1, <2>2, <2>3, <2>4, <2>5
<1> QED
    BY <1>3, <1>4, <1>5

InsertedOn(dl, c, id, i, c2) ==
    /\ DOMAIN c2.pages = DOMAIN c.pages \cup {i}
    /\ \A j \in DOMAIN c.pages : j # i => c2.pages[j] = c.pages[j]
    /\ c2.pages[i].loaded = PageFor(c, id).loaded
    /\ DOMAIN c2.pages[i].vectors = DOMAIN PageFor(c, id).vectors \cup {id}
    /\ c2.dirty = IF dl THEN c.dirty \cup {i} ELSE c.dirty

LEMMA InsertIs ==
    ASSUME NEW dl, NEW c, CoarseGood(c), NEW id \in Ids, NEW vector \in Vectors, ~InsertPanics(c, id),
           NEW i, i = findOrCreatePage(c, id), NEW c2, c2 = Insert(c, id, vector, dl)
    PROVE  /\ CoarseGood(c2)
           /\ c.totalPages <= c2.totalPages
           /\ Located(c) => Located(c2)
           /\ InsertedOn(dl, c, id, i, c2)
<1> DEFINE new == PageOf(id) \notin DOMAIN c.pages
           page == PageFor(c, id)
           vectors == Put(page.vectors, id, vector)
           filled == [page EXCEPT !.vectors = vectors]
           pages == Put(c.pages, i, filled)
           pageMap == Put(c.pageMap, id, i)
<1>1. /\ i \in Nat /\ i \in PageIndexes /\ page \in Pages
      /\ i < MaxPages => Home(id) = i /\ AtHome(page, i)
      /\ i >= MaxPages => i \in DOMAIN c.pages /\ i < c.totalPages /\ ~page.loaded
      /\ ~new => i \in DOMAIN c.pages
    BY findOrCreatePageIs
<1>2. /\ c.pages \in Maps(Nat, Pages) /\ c.slots \in Nat
      /\ c.pageMap \in Maps(Ids, PageIndexes)
      /\ c.totalPages \in Nat /\ c.dirty \subseteq PageIndexes
      /\ \A j \in DOMAIN c.pages : j \in 0 .. c.slots - 1
    BY CoarseIs
<1>3. c2 = [pages |-> pages, slots |-> IF i < c.slots THEN c.slots ELSE i + 1, pageMap |-> pageMap,
            totalPages |-> c.totalPages + (IF new THEN 1 ELSE 0),
            dirty |-> IF dl THEN c.dirty \cup {i} ELSE c.dirty]
    BY DEF Insert, PageFor
<1>4. page.vectors \in Maps(Ids, Vectors) /\ page.loaded \in BOOLEAN
    BY <1>1 DEF Pages
<1> HIDE DEF page
<1>5. vectors \in Maps(Ids, Vectors) /\ DOMAIN vectors = DOMAIN page.vectors \cup {id}
    <2>1. vectors = SetTo(page.vectors, id, vector)
        BY MapPut
    <2>2. PICK g \in Maps(Ids, Vectors) : g = page.vectors
        BY <1>4
    <2>3. SetTo(g, id, vector) \in Maps(Ids, Vectors)
        BY MapSetTo
    <2>4. DOMAIN SetTo(g, id, vector) = DOMAIN g \cup {id}
        BY DEF SetTo
    <2> QED
        BY <2>1, <2>2, <2>3, <2>4
<1> HIDE DEF vectors
<1>6. filled \in Pages /\ filled.loaded = page.loaded /\ filled.vectors = vectors
    BY <1>1, <1>5 DEF Pages
<1> HIDE DEF filled
<1>7. /\ pages \in Maps(Nat, Pages) /\ DOMAIN pages = DOMAIN c.pages \cup {i} /\ pages[i] = filled
      /\ \A j \in DOMAIN c.pages : j # i => pages[j] = c.pages[j]
    <2>1. pages = SetTo(c.pages, i, filled)
        BY MapPut
    <2>2. SetTo(c.pages, i, filled) \in Maps(Nat, Pages)
        BY <1>1, <1>2, <1>6, MapSetTo
    <2> QED
        BY <2>1, <2>2 DEF SetTo
<1>8. /\ pageMap \in Maps(Ids, PageIndexes) /\ DOMAIN pageMap = DOMAIN c.pageMap \cup {id}
      /\ pageMap[id] = i /\ \A x \in DOMAIN c.pageMap : x # id => pageMap[x] = c.pageMap[x]
    <2>1. pageMap = SetTo(c.pageMap, id, i)
        BY MapPut
    <2>2. SetTo(c.pageMap, id, i) \in Maps(Ids, PageIndexes)
        BY <1>1, <1>2, MapSetTo
    <2> QED
        BY <2>1, <2>2 DEF SetTo
<1> HIDE DEF pages, pageMap, new
<1>9. /\ c2.pages = pages /\ c2.slots = (IF i < c.slots THEN c.slots ELSE i + 1)
      /\ c2.pageMap = pageMap /\ c2.totalPages = c.totalPages + (IF new THEN 1 ELSE 0)
      /\ c2.dirty = IF dl THEN c.dirty \cup {i} ELSE c.dirty
    BY <1>3
<1>10. /\ c2.slots \in Nat /\ c.slots <= c2.slots /\ i < c2.slots
       /\ c2.totalPages \in Nat /\ c.totalPages <= c2.totalPages
       /\ new => c2.totalPages = c.totalPages + 1
    BY <1>1, <1>2, <1>9
<1>11. c2 \in CoarseRecords
    <2>1. c2.dirty \in SUBSET PageIndexes
        BY <1>1, <1>2, <1>9
    <2>2. c2 = [pages |-> c2.pages, slots |-> c2.slots, pageMap |-> c2.pageMap,
                totalPages |-> c2.totalPages, dirty |-> c2.dirty]
        BY <1>3
    <2> QED
        BY <1>7, <1>8, <1>9, <1>10, <2>1, <2>2 DEF CoarseRecords
<1>12. DOMAIN c2.pages \subseteq 0 .. c2.slots - 1
    <2>1. \A j \in DOMAIN c.pages : j \in 0 .. c2.slots - 1
        BY <1>2, <1>10
    <2>2. i \in 0 .. c2.slots - 1
        BY <1>1, <1>10
    <2> QED
        BY <1>7, <1>9, <2>1, <2>2
<1>13. Cardinality(DOMAIN c2.pages) <= c2.totalPages
    <2>1. Cardinality(DOMAIN c.pages) <= c.totalPages
        BY DEF CoarseGood
    <2>2. IsFiniteSet(DOMAIN c.pages)
        <3>1. PICK n \in Nat : n = c.slots
            BY <1>2
        <3>2. IsFiniteSet(0 .. n - 1)
            BY FS_Interval
        <3>3. DOMAIN c.pages \subseteq 0 .. n - 1
            BY <1>2, <3>1
        <3> QED
            BY <3>2, <3>3, FS_Subset
    <2>3. Cardinality(DOMAIN c.pages) \in Nat
        BY <2>2, FS_CardinalityType
    <2>4. CASE i \in DOMAIN c.pages
        <3>1. DOMAIN c2.pages = DOMAIN c.pages
            BY <1>7, <1>9, <2>4
        <3> QED
            BY <1>2, <1>10, <2>1, <2>3, <3>1
    <2>5. CASE i \notin DOMAIN c.pages
        <3>1. Cardinality(DOMAIN c2.pages) = Cardinality(DOMAIN c.pages) + 1
            BY <1>7, <1>9, <2>2, <2>5, FS_AddElement
        <3>2. c2.totalPages = c.totalPages + 1
            BY <1>1, <1>10, <2>5
        <3> QED
            BY <1>2, <2>1, <2>3, <3>1, <3>2
    <2> QED
        BY <2>4, <2>5
<1>14. \A j \in DOMAIN c2.pages :
           /\ j < MaxPages => AtHome(c2.pages[j], j)
           /\ j >= MaxPages => ~c2.pages[j].loaded /\ j < c2.totalPages
    <2>1. CoarseGood(c)
        OBVIOUS
    <2>2. ASSUME NEW j \in DOMAIN c.pages, j # i
          PROVE  /\ j < MaxPages => AtHome(c2.pages[j], j)
                 /\ j >= MaxPages => ~c2.pages[j].loaded /\ j < c2.totalPages
        <3>1. c2.pages[j] = c.pages[j] /\ j \in Nat
            BY <1>2, <1>7, <1>9, <2>2
        <3>2. /\ j < MaxPages => AtHome(c.pages[j], j)
              /\ j >= MaxPages => ~c.pages[j].loaded /\ j < c.totalPages
            BY DEF CoarseGood
        <3> QED
            BY <1>2, <1>10, <3>1, <3>2
    <2>3. i < MaxPages => AtHome(filled, i)
        BY <1>1, <1>5, <1>6 DEF AtHome
    <2>4. i >= MaxPages => ~filled.loaded /\ i < c2.totalPages
        BY <1>1, <1>2, <1>6, <1>10
    <2> QED
        BY <1>7, <1>9, <2>2, <2>3, <2>4
<1>15. \A x \in DOMAIN c2.pageMap :
           c2.pageMap[x] = Home(x) \/ (c2.pageMap[x] \in DOMAIN c2.pages /\ c2.pageMap[x] < c2.totalPages)
    <2>1. ASSUME NEW x \in DOMAIN c.pageMap, x # id
          PROVE  c2.pageMap[x] = Home(x) \/ (c2.pageMap[x] \in DOMAIN c2.pages /\ c2.pageMap[x] < c2.totalPages)
        <3>1. c2.pageMap[x] = c.pageMap[x]
            BY <1>8, <1>9, <2>1
        <3>2. c.pageMap[x] = Home(x) \/ (c.pageMap[x] \in DOMAIN c.pages /\ c.pageMap[x] < c.totalPages)
            BY DEF CoarseGood
        <3>3. \A j \in DOMAIN c.pages : j < c.totalPages => j \in DOMAIN c2.pages /\ j < c2.totalPages
            BY <1>2, <1>7, <1>9, <1>10
        <3> QED
            BY <3>1, <3>2, <3>3
    <2>2. i = Home(id) \/ (i \in DOMAIN c2.pages /\ i < c2.totalPages)
        BY <1>1, <1>2, <1>7, <1>9, <1>10, PageNumbers
    <2> QED
        BY <1>8, <1>9, <2>1, <2>2
<1>16. CoarseGood(c2)
    BY <1>11, <1>12, <1>13, <1>14, <1>15 DEF CoarseGood
<1>17. Located(c) => Located(c2)
    BY <1>7, <1>8, <1>9 DEF Located
<1>18. InsertedOn(dl, c, id, i, c2)
    BY <1>5, <1>6, <1>7, <1>9 DEF InsertedOn, page
<1> QED
    BY <1>10, <1>16, <1>17, <1>18

LEMMA EvictedIs ==
    ASSUME NEW c, CoarseGood(c), NEW d, DirectoryGood(d), 0 \in DOMAIN c.pages
    PROVE  /\ DirectoryGood(Evicted(c, d))
           /\ Evicted(c, d).hasMetadata = d.hasMetadata
           /\ Evicted(c, d).totalPages = d.totalPages
           /\ Evicted(c, d).pageMap = d.pageMap
           /\ DOMAIN d.file \subseteq DOMAIN Evicted(c, d).file
           /\ \A i \in DOMAIN d.file : i # 0 => Evicted(c, d).file[i] = d.file[i]
<1> DEFINE file == Put(d.file, 0, c.pages[0])
           d2 == Evicted(c, d)
<1>1. /\ d = [file |-> d.file, hasMetadata |-> d.hasMetadata,
              totalPages |-> d.totalPages, pageMap |-> d.pageMap]
      /\ d.file \in Maps(Nat, Pages) /\ d.hasMetadata \in BOOLEAN
      /\ d.pageMap \in Maps(Ids, PageIndexes) /\ d.totalPages \in Nat
      /\ \A i \in DOMAIN d.file : i < MaxPages /\ AtHome(d.file[i], i)
    BY DirectoryIs DEF DirectoryGood
<1>2. c.pages[0] \in Pages
    BY CoarseIs
<1>3. 0 < MaxPages /\ AtHome(c.pages[0], 0)
    <2>1. 0 < MaxPages
        BY PageNumbers
    <2> QED
        BY <2>1 DEF CoarseGood
<1>4. /\ file \in Maps(Nat, Pages) /\ DOMAIN file = DOMAIN d.file \cup {0} /\ file[0] = c.pages[0]
      /\ \A j \in DOMAIN d.file : j # 0 => file[j] = d.file[j]
    <2>1. PICK page \in Pages : page = c.pages[0]
        BY <1>2
    <2>2. file = SetTo(d.file, 0, page)
        BY <2>1, MapPut
    <2>3. SetTo(d.file, 0, page) \in Maps(Nat, Pages)
        <3>1. PICK zero \in Nat : zero = 0
            OBVIOUS
        <3>2. SetTo(d.file, zero, page) \in Maps(Nat, Pages)
            BY <1>1, MapSetTo
        <3> QED
            BY <3>1, <3>2
    <2> QED
        BY <2>1, <2>2, <2>3 DEF SetTo
<1>5. d2 = [d EXCEPT !.file = file]
    BY <1>1 DEF Evicted, evictPage
<1> HIDE DEF file, d2
<1>6. d2 = [file |-> file, hasMetadata |-> d.hasMetadata,
            totalPages |-> d.totalPages, pageMap |-> d.pageMap]
    BY <1>1, <1>5
<1>7. /\ d2.file = file /\ d2.hasMetadata = d.hasMetadata
      /\ d2.totalPages = d.totalPages /\ d2.pageMap = d.pageMap
    BY <1>6
<1>8. d2 \in Directories
    BY <1>1, <1>4, <1>6 DEF Directories
<1>9. DirectoryGood(d2)
    BY <1>1, <1>3, <1>4, <1>7, <1>8 DEF DirectoryGood
<1> QED
    BY <1>4, <1>7, <1>9 DEF d2

MayEvict(c, d, id, d2) == d2 \in IF Evicts(c, id) THEN {d, Evicted(c, d)} ELSE {d}

(* An id that is not inserted again stays on disk while it is shown: the   *)
(* page that is evicted shows the new id alone.                            *)
LEMMA InsertKeeps ==
    ASSUME NEW dl, NEW c, NEW d, NEW s, StoreGood(dl, TRUE, c, d, s),
           NEW id \in Ids, NEW vector \in Vectors, ~InsertPanics(c, id),
           NEW c2, c2 = Insert(c, id, vector, dl),
           NEW d2, MayEvict(c, d, id, d2),
           NEW others, others = Only(s, Ids \ {id}),
           NEW s2, s2 = StillShown(others, Visible(c2, d2))
    PROVE  StoreGood(dl, TRUE, c2, d2, s2)
<1>1. /\ CoarseGood(c) /\ DirectoryGood(d) /\ SafeOn(d, s) /\ (~dl => Located(c) /\ Counted(d))
      /\ d.totalPages <= c.totalPages /\ (dl => CleanOn(c, d))
    BY DEF StoreGood, OpenGood
<1>2. PICK i : i = findOrCreatePage(c, id)
    OBVIOUS
<1>3. /\ CoarseGood(c2) /\ c.totalPages <= c2.totalPages /\ (Located(c) => Located(c2))
      /\ DOMAIN c2.pages = DOMAIN c.pages \cup {i}
      /\ \A j \in DOMAIN c.pages : j # i => c2.pages[j] = c.pages[j]
      /\ c2.pages[i].loaded = PageFor(c, id).loaded
      /\ DOMAIN c2.pages[i].vectors = DOMAIN PageFor(c, id).vectors \cup {id}
      /\ c2.dirty = IF dl THEN c.dirty \cup {i} ELSE c.dirty
    <2>1. CoarseGood(c2) /\ c.totalPages <= c2.totalPages /\ (Located(c) => Located(c2))
        BY <1>1, <1>2, InsertIs
    <2>2. InsertedOn(dl, c, id, i, c2)
        BY <1>1, <1>2, InsertIs
    <2> QED
        BY <2>1, <2>2 DEF InsertedOn
<1>4. Evicts(c, id) => i = 0 /\ 0 \in DOMAIN c.pages /\ PageFor(c, id) = NewPage
    BY <1>1, <1>2, findOrCreatePageIs
<1>5. /\ DirectoryGood(d2) /\ d2.hasMetadata = d.hasMetadata
      /\ d2.totalPages = d.totalPages /\ d2.pageMap = d.pageMap
      /\ DOMAIN d.file \subseteq DOMAIN d2.file
      /\ \A j \in DOMAIN d.file : d2 = d \/ j # 0 => d2.file[j] = d.file[j]
    <2>1. CASE d2 = d
        BY <1>1, <2>1
    <2>2. CASE d2 # d
        <3>1. d2 = Evicted(c, d) /\ 0 \in DOMAIN c.pages
            BY <1>4, <2>2 DEF MayEvict
        <3> QED
            BY <1>1, <2>2, <3>1, EvictedIs
    <2> QED
        BY <2>1, <2>2
<1>6. d2 # d => Evicts(c, id)
    BY DEF MayEvict
<1>7. ASSUME dl, NEW j \in LoadedPages(c2) \ c2.dirty PROVE OnDisk(c2, d2, j)
    <2>1. j \in DOMAIN c2.pages /\ c2.pages[j].loaded /\ j # i /\ j \notin c.dirty
        BY <1>3, <1>7 DEF LoadedPages
    <2>2. j \in DOMAIN c.pages /\ c2.pages[j] = c.pages[j]
        BY <1>3, <2>1
    <2>3. OnDisk(c, d, j)
        BY <1>1, <1>7, <2>1, <2>2 DEF CleanOn, LoadedPages
    <2>4. d2.file[j] = d.file[j]
        BY <1>4, <1>5, <1>6, <2>1, <2>3 DEF OnDisk
    <2> QED
        BY <1>5, <2>2, <2>3, <2>4 DEF OnDisk
<1>8. dl => CleanOn(c2, d2)
    BY <1>7 DEF CleanOn
<1>9. d2.totalPages <= c2.totalPages
    <2>1. d.totalPages \in Nat /\ c.totalPages \in Nat /\ c2.totalPages \in Nat
        BY <1>1, <1>3, DirectoryIs, CoarseIs
    <2> QED
        BY <1>1, <1>3, <1>5, <2>1
<1>10. DOMAIN others \subseteq DOMAIN s \ {id} /\ \A x \in DOMAIN others : others[x] = s[x]
    BY DEF Only
<1>11. /\ DOMAIN s2 \subseteq DOMAIN others /\ \A x \in DOMAIN s2 : s2[x] = others[x]
       /\ ShownIn(c2, d2, s2)
    BY <1>3, <1>5, StillShownIs
<1>12. ASSUME NEW x \in DOMAIN s2
       PROVE  /\ s2[x].page = Home(x) /\ d2.hasMetadata /\ Home(x) < d2.totalPages
              /\ Home(x) \in DOMAIN d2.file /\ x \in DOMAIN d2.file[Home(x)].vectors
              /\ d2.file[Home(x)].vectors[x] = s2[x].vector
    <2>1. x \in DOMAIN s /\ x # id /\ s2[x] = s[x] /\ ShownAt(c2, d2, x)
        BY <1>10, <1>11 DEF ShownIn
    <2>2. /\ s[x].page = Home(x) /\ d.hasMetadata /\ Home(x) < d.totalPages
          /\ Home(x) \in DOMAIN d.file /\ x \in DOMAIN d.file[Home(x)].vectors
          /\ d.file[Home(x)].vectors[x] = s[x].vector
        BY <1>1, <2>1 DEF SafeOn
    <2>3. ASSUME Evicts(c, id), Home(x) = 0 PROVE FALSE
        <3>1. i = 0 /\ PageFor(c, id) = NewPage
            BY <1>4, <2>3
        <3>2. NewPage.loaded /\ DOMAIN NewPage.vectors = {}
            BY DEF NewPage, Nothing
        <3>3. c2.pages[i].loaded /\ DOMAIN c2.pages[i].vectors = {id}
            BY <1>3, <3>1, <3>2
        <3>4. OnPage(c2, d2, i) = c2.pages[i].vectors
            BY <3>3 DEF OnPage
        <3> QED
            BY <2>1, <2>3, <3>1, <3>3, <3>4 DEF ShownAt
    <2>4. d2 = d \/ Home(x) # 0
        BY <1>6, <2>3
    <2>5. d2.file[Home(x)] = d.file[Home(x)]
        BY <1>5, <2>2, <2>4
    <2> QED
        BY <1>5, <2>1, <2>2, <2>5
<1>13. DOMAIN s2 \subseteq Ids
    BY <1>1, <1>10, <1>11 DEF SafeOn
<1>14. SafeOn(d2, s2)
    BY <1>12, <1>13 DEF SafeOn
<1>15. ~dl => Located(c2) /\ Counted(d2)
    BY <1>1, <1>3, <1>5 DEF Counted
<1>16. StoreGood(dl, TRUE, c2, d2, s2)
    BY <1>3, <1>5, <1>8, <1>9, <1>11, <1>14, <1>15 DEF StoreGood, OpenGood
<1> QED
    BY <1>16

-----------------------------------------------------------------------------
(* The inductive invariant.                                                *)

IInv ==
    /\ delta \in BOOLEAN /\ up \in BOOLEAN
    /\ inserts \in 0 .. MaxInserts /\ opens \in 1 .. MaxOpens
    /\ FineGood(fine) /\ FineGood(fineFile.fine)
    /\ StoreGood(delta, up, coarse, disk, saved)

LEMMA EmptyDirectoryGood ==
    DirectoryGood(EmptyDirectory) /\ Counted(EmptyDirectory) /\ EmptyDirectory.totalPages = 0
<1> DEFINE d == EmptyDirectory
<1>1. d = [file |-> Nothing, hasMetadata |-> FALSE, totalPages |-> 0, pageMap |-> Nothing]
    BY DEF EmptyDirectory
<1> HIDE DEF d
<1>2. Nothing \in Maps(Nat, Pages) /\ Nothing \in Maps(Ids, PageIndexes) /\ DOMAIN Nothing = {}
    BY EmptyMap
<1>3. d \in Directories
    BY <1>1, <1>2 DEF Directories
<1>4. DirectoryGood(d) /\ Counted(d) /\ d.totalPages = 0
    BY <1>1, <1>2, <1>3 DEF DirectoryGood, Counted
<1> QED
    BY <1>4 DEF d

LEMMA SaveBothIs ==
    ASSUME NEW dl, NEW c, NEW d, NEW s, StoreGood(dl, TRUE, c, d, s), dl \/ ~HasNil(c),
           NEW c2, c2 = Clean(c), NEW d2, d2 = Save(c, d)
    PROVE  /\ ShowSame(c, d, c2, d2)
           /\ StoreGood(dl, TRUE, c2, d2, StillShown(s, Visible(c2, d2)))
           /\ StoreGood(dl, TRUE, c2, d2, Written(c2, d2))
<1>1. /\ CoarseGood(c) /\ DirectoryGood(d) /\ (~dl => Located(c))
      /\ d.totalPages <= c.totalPages
    BY DEF StoreGood, OpenGood
<1>2. /\ DirectoryGood(d2) /\ d2.hasMetadata /\ d2.totalPages = c.totalPages
      /\ d2.file = SavePages(c, d, LoadedPages(c)).file
      /\ Located(c) /\ ~HasNil(c) => Counted(d2)
    BY <1>1, SaveIs
<1>3. c.totalPages \in Nat
    BY <1>1, CoarseIs
<1>4. d.totalPages <= d2.totalPages /\ d2.totalPages <= c.totalPages /\ (~dl => Counted(d2))
    BY <1>1, <1>2, <1>3
<1> DEFINE S == LoadedPages(c)
<1>5. S \in SUBSET LoadedPages(c) /\ SavesAll(c, d, S) /\ c2 \in {c, Clean(c)}
    BY DEF SavesAll
<1>6. d2.file = SavePages(c, d, S).file
    BY <1>2
<1> HIDE DEF S
<1>7. SaveDone(dl, c, d, s, S, c2, d2)
    BY <1>2, <1>4, <1>5, <1>6, SaveKeeps
<1> QED
    BY <1>5, <1>7 DEF SaveDone

LEMMA SavePagesGood ==
    ASSUME NEW dl, NEW c, NEW d, NEW s, StoreGood(dl, TRUE, c, d, s), NEW S \in SUBSET LoadedPages(c),
           NEW d2, d2 = SavePages(c, d, S), NEW c2 \in {c, Clean(c)},
           c2 = c \/ SavesAll(c, d, S)
    PROVE  SaveDone(dl, c, d, s, S, c2, d2)
<1>1. /\ CoarseGood(c) /\ DirectoryGood(d) /\ (~dl => Counted(d))
      /\ d.totalPages <= c.totalPages
    BY DEF StoreGood, OpenGood
<1>2. /\ DirectoryGood(d2) /\ d2.hasMetadata = d.hasMetadata /\ d2.totalPages = d.totalPages
      /\ d2.pageMap = d.pageMap /\ d2.file = SavePages(c, d, S).file
    BY <1>1, SavePagesIs
<1>3. d.totalPages \in Nat
    BY <1>1, DirectoryIs
<1>4. /\ d.totalPages <= d2.totalPages /\ d2.totalPages <= c.totalPages
      /\ (~dl => Counted(d2)) /\ (d.hasMetadata => d2.hasMetadata)
    BY <1>1, <1>2, <1>3 DEF Counted
<1> QED
    BY <1>2, <1>4, SaveKeeps

LEMMA SaveDirtyIs ==
    ASSUME NEW dl, dl, NEW c, NEW d, NEW s, StoreGood(dl, TRUE, c, d, s),
           NEW c2, c2 = Clean(c), NEW d2, d2 = SaveDelta(c, d)
    PROVE  /\ ShowSame(c, d, c2, d2)
           /\ StoreGood(dl, TRUE, c2, d2, StillShown(s, Visible(c2, d2)))
           /\ StoreGood(dl, TRUE, c2, d2, Written(c2, d2))
<1> DEFINE S == DirtyPages(c)
<1>1. CleanOn(c, d)
    BY DEF StoreGood, OpenGood
<1>2. S \in SUBSET LoadedPages(c)
    BY DEF DirtyPages
<1>3. SavesAll(c, d, S)
    BY <1>1 DEF SavesAll, CleanOn, DirtyPages
<1>4. d2 = SavePages(c, d, S) /\ c2 \in {c, Clean(c)}
    BY DEF SaveDelta
<1> HIDE DEF S
<1>5. SaveDone(dl, c, d, s, S, c2, d2)
    BY <1>2, <1>3, <1>4, SavePagesGood
<1> QED
    BY <1>3, <1>5 DEF SaveDone

(* The end of a process, with some of the pages saved or with none.        *)
LEMMA EndKeeps ==
    ASSUME NEW dl, NEW c, NEW d, NEW s, StoreGood(dl, TRUE, c, d, s), NEW S \in SUBSET LoadedPages(c),
           NEW d2 \in {d, SavePages(c, d, S)}
    PROVE  StoreGood(dl, FALSE, NewCoarseIndex, d2, s)
<1>1. DirectoryGood(d2) /\ SafeOn(d2, s) /\ (~dl => Counted(d2))
    <2>1. CASE d2 = d
        BY <2>1 DEF StoreGood
    <2>2. CASE d2 = SavePages(c, d, S)
        <3>1. PICK c2 \in {c, Clean(c)} : c2 = c
            OBVIOUS
        <3>2. SaveDone(dl, c, d, s, S, c2, d2)
            BY <2>2, <3>1, SavePagesGood
        <3>3. CoarseGood(c) /\ DirectoryGood(d) /\ (~dl => Counted(d))
            BY DEF StoreGood
        <3>4. DirectoryGood(d2) /\ d2.totalPages = d.totalPages /\ d2.pageMap = d.pageMap
            BY <2>2, <3>3, SavePagesIs
        <3> QED
            BY <3>2, <3>3, <3>4 DEF SaveDone, Counted
    <2> QED
        BY <2>1, <2>2
<1> QED
    BY <1>1, NewCoarseGood DEF StoreGood

LEMMA InitIInv == Init => IInv
<1> SUFFICES ASSUME Init PROVE IInv
    OBVIOUS
<1>1. CoarseGood(coarse) /\ Located(coarse) /\ DirectoryGood(disk) /\ Counted(disk)
    BY NewCoarseGood, EmptyDirectoryGood DEF Init
<1>2. DOMAIN saved = {}
    BY DEF Init, Nothing
<1>3. LoadedPages(coarse) = {}
    BY DEF Init, LoadedPages, NewCoarseIndex, Nothing
<1>4. disk.totalPages <= coarse.totalPages
    BY EmptyDirectoryGood DEF Init, NewCoarseIndex
<1>5. OpenGood(delta, coarse, disk, saved)
    BY <1>2, <1>3, <1>4 DEF OpenGood, CleanOn, ShownIn
<1>6. StoreGood(delta, up, coarse, disk, saved)
    BY <1>1, <1>2, <1>5 DEF StoreGood, SafeOn
<1>7. FineGood(fine) /\ FineGood(fineFile.fine)
    BY NewFineGood DEF Init, NoFineFile
<1> QED
    BY <1>6, <1>7, LayeredAssumption DEF Init, IInv

LEMMA OrderIs ==
    ASSUME NEW S \in SUBSET Ids, NEW order \in SetToSeqs(S)
    PROVE  order \in Seq(S)
<1>1. PICK n \in Nat : n = Cardinality(S)
    BY FewIds
<1>2. order \in [1 .. n -> S]
    BY <1>1 DEF SetToSeqs
<1> QED
    BY <1>2

LEMMA FirstKIs ==
    ASSUME NEW S \in SUBSET Ids, NEW s \in Seq(S), NEW k \in Nat
    PROVE  FirstK(s, k) \in Seq(Ids)
<1>1. s \in Seq(Ids) /\ Len(s) \in Nat
    OBVIOUS
<1>2. CASE Len(s) > k
    <2>1. SubSeq(s, 1, k) \in Seq(Ids)
        BY <1>1, <1>2
    <2> QED
        BY <1>2, <2>1 DEF FirstK
<1>3. CASE ~(Len(s) > k)
    BY <1>1, <1>3 DEF FirstK
<1> QED
    BY <1>2, <1>3

(* A step that only reads the coarse layer.                                *)
LEMMA ReadsKeeps ==
    ASSUME IInv, up, NEW c, IsRead(delta, coarse, disk, c), NEW f, FineGood(f), Reads(c, f)
    PROVE  IInv' /\ Visible(coarse', disk') = Visible(coarse, disk)
<1>1. /\ coarse' = c /\ fine' = f /\ disk' = disk /\ delta' = delta /\ up' = up /\ opens' = opens
      /\ saved' = StillShown(saved, Visible(c, disk)) /\ fineFile' = fineFile /\ inserts' = inserts
    BY DEF Reads, Becomes
<1>2. StoreGood(delta, TRUE, coarse, disk, saved)
    BY DEF IInv, StoreGood
<1>3. /\ StoreGood(delta, TRUE, c, disk, StillShown(saved, Visible(c, disk)))
      /\ Visible(c, disk) = Visible(coarse, disk)
    <2>1. StoreGood(delta, TRUE, c, disk, StillShown(saved, Visible(c, disk)))
        <3>1. ASSUME NEW dl, NEW c1, NEW d1, NEW s1, StoreGood(dl, TRUE, c1, d1, s1), IsRead(dl, c1, d1, c)
              PROVE  StoreGood(dl, TRUE, c, d1, StillShown(s1, Visible(c, d1)))
            BY <3>1, ReadKeeps
        <3> QED
            BY <1>2, <3>1
    <2>2. Visible(c, disk) = Visible(coarse, disk)
        <3>1. ShowSame(coarse, disk, c, disk)
            BY <1>2, ReadKeeps
        <3> QED
            BY <3>1 DEF ShowSame
    <2> QED
        BY <2>1, <2>2
<1>4. StoreGood(delta', up', coarse', disk', saved')
    BY <1>1, <1>3 DEF StoreGood
<1>5. IInv'
    BY <1>1, <1>4 DEF IInv
<1> QED
    BY <1>1, <1>3, <1>5

LEMMA SearchKeeps ==
    ASSUME IInv, NEW k \in Ks, Search(k)
    PROVE  IInv' /\ Visible(coarse', disk') = Visible(coarse, disk)
<1>1. up /\ k \in Nat
    BY LayeredAssumption DEF Search
<1>2. /\ CoarseGood(coarse) /\ DirectoryGood(disk) /\ FineGood(fine) /\ delta \in BOOLEAN
      /\ StoreGood(delta, TRUE, coarse, disk, saved)
    BY <1>1 DEF IInv, StoreGood
<1> DEFINE T == DOMAIN fine.hot \cup DOMAIN Seen
           c == LoadAll(coarse, disk, delta)
           kC == IF SearchCoarseK < k THEN k ELSE SearchCoarseK
           found(near) == FirstK(Among(near, DOMAIN Seen), kC)
           merged(near) == Among(near, DOMAIN fine.hot \cup ToSet(found(near)))
           counted(near) == IF delta THEN fine ELSE RecordAccesses(fine, FirstK(merged(near), k))
           hotter(near) == promoteHotData(counted(near), c, merged(near))
           now(near) == ToSet(FirstK(merged(near), k)) \cup (DOMAIN hotter(near).hot \ DOMAIN fine.hot)
<1>3. PICK near \in SetToSeqs(T) :
          IF delta THEN Reads(c, hotter(near))
          ELSE \E cold \in SUBSET (DOMAIN hotter(near).count \ now(near)) :
                   Reads(c, EvictCold(hotter(near), cold))
    BY DEF Search
<1>4. IsRead(delta, coarse, disk, c)
    BY <1>2, LoadAllIs
<1>5. CoarseGood(c) /\ DOMAIN c.pages = DOMAIN coarse.pages
    <2> HIDE DEF c
    <2> QED
        BY <1>2, <1>4, ReadKeeps DEF IsRead, StoreGood
<1>6. T \in SUBSET Ids /\ \A id \in DOMAIN Seen : ShownAt(coarse, disk, id)
    <2>1. DOMAIN Seen = {id \in Ids : ShownAt(coarse, disk, id)}
        BY <1>2, VisibleIs DEF Seen
    <2>2. DOMAIN fine.hot \subseteq Ids
        BY <1>2, FineIs
    <2> QED
        BY <2>1, <2>2
<1> HIDE DEF T, c
<1>7. merged(near) \in Seq(T)
    <2>1. near \in Seq(T)
        BY <1>3, <1>6, OrderIs
    <2>2. PICK R : R = DOMAIN fine.hot \cup ToSet(found(near))
        OBVIOUS
    <2>3. Among(near, R) \in Seq(T)
        BY <2>1, AmongIs
    <2> QED
        BY <2>2, <2>3
<1> HIDE DEF merged
<1>8. FineGood(counted(near)) /\ counted(near).hot = fine.hot
    <2>1. FirstK(merged(near), k) \in Seq(Ids)
        BY <1>1, <1>6, <1>7, FirstKIs
    <2> QED
        BY <1>2, <2>1, RecordAccessesGood
<1>9. ASSUME NEW id \in T \ DOMAIN fine.hot, CanGet(c, disk, id)
      PROVE  GetVector(c, disk, id) \in Vectors
    <2>1. id \in Ids /\ Home(id) \in DOMAIN c.pages
        BY <1>5, <1>6 DEF T, ShownAt
    <2>2. id \in DOMAIN c.pageMap => c.pageMap[id] \in DOMAIN c.pages
        BY <1>5, <2>1 DEF CoarseGood
    <2> QED
        BY <1>2, <1>5, <1>9, <2>1, <2>2, GetVectorIs
<1> HIDE DEF counted
<1>10. FineGood(hotter(near))
    BY <1>6, <1>7, <1>8, <1>9, promoteHotDataGood
<1> HIDE DEF hotter, now
<1>11. CASE delta
    BY <1>1, <1>3, <1>4, <1>10, <1>11, ReadsKeeps
<1>12. CASE ~delta
    <2>1. PICK cold : Reads(c, EvictCold(hotter(near), cold))
        BY <1>3, <1>12
    <2>2. FineGood(EvictCold(hotter(near), cold))
        BY <1>10, ForgetFoundGood DEF EvictCold
    <2> QED
        BY <1>1, <1>4, <2>1, <2>2, ReadsKeeps
<1> QED
    BY <1>11, <1>12

LEMMA PromoteToHotKeeps ==
    ASSUME IInv, NEW id \in Ids, PromoteToHot(id)
    PROVE  IInv' /\ Visible(coarse', disk') = Visible(coarse, disk)
<1>1. /\ CoarseGood(coarse) /\ DirectoryGood(disk) /\ FineGood(fine) /\ up
      /\ Located(coarse)
    BY DEF IInv, StoreGood, PromoteToHot
<1> DEFINE c == GetLoads(coarse, disk, id, delta)
           room == IF FineIsFull(fine) THEN EvictOne(fine) ELSE fine
           f == IF CanGet(coarse, disk, id)
                THEN FineInsert(room, id, GetVector(coarse, disk, id)) ELSE fine
<1>2. Reads(c, f)
    BY DEF PromoteToHot
<1>3. id \in DOMAIN coarse.pageMap => coarse.pageMap[id] \in DOMAIN coarse.pages
    BY <1>1 DEF Located
<1>4. IsRead(delta, coarse, disk, c)
    BY <1>1, <1>3, GetLoadsIs DEF GetPanics
<1>5. FineGood(room)
    BY <1>1, EvictOneGood
<1> HIDE DEF room, c
<1>6. FineGood(f)
    <2>1. CASE CanGet(coarse, disk, id)
        <3>1. GetVector(coarse, disk, id) \in Vectors
            BY <1>1, <1>3, <2>1, GetVectorIs
        <3>2. FineGood(FineInsert(room, id, GetVector(coarse, disk, id)))
            BY <1>5, <3>1, FineInsertGood
        <3> QED
            BY <2>1, <3>2
    <2>2. CASE ~CanGet(coarse, disk, id)
        BY <1>1, <2>2
    <2> QED
        BY <2>1, <2>2
<1> HIDE DEF f
<1> QED
    BY <1>1, <1>2, <1>4, <1>6, ReadsKeeps

LEMMA EvictFromHotKeeps ==
    ASSUME IInv, NEW id \in Ids, EvictFromHot(id)
    PROVE  IInv' /\ Visible(coarse', disk') = Visible(coarse, disk)
<1>1. /\ CoarseGood(coarse) /\ FineGood(fine) /\ up /\ Reads(coarse, FineDelete(fine, id))
    BY DEF IInv, StoreGood, EvictFromHot
<1>2. IsRead(delta, coarse, disk, coarse)
    BY <1>1, NothingRead
<1>3. FineGood(FineDelete(fine, id))
    <2> DEFINE S == {id}
    <2>1. FineDelete(fine, id) = [Forget(fine, S) EXCEPT !.lru = LRURemove(@, S)]
        BY DEF FineDelete
    <2> HIDE DEF S
    <2> QED
        BY <1>1, <2>1, ForgetFoundGood
<1> QED
    BY <1>1, <1>2, <1>3, ReadsKeeps

LEMMA GetKeeps ==
    ASSUME IInv, NEW id \in Ids, Get(id)
    PROVE  IInv' /\ Visible(coarse', disk') = Visible(coarse, disk)
<1>1. /\ CoarseGood(coarse) /\ FineGood(fine) /\ up /\ ~GetPanics(coarse, id)
      /\ Reads(GetLoads(coarse, disk, id, delta), fine)
    BY DEF IInv, StoreGood, Get
<1>2. IsRead(delta, coarse, disk, GetLoads(coarse, disk, id, delta))
    BY <1>1, GetLoadsIs
<1> QED
    BY <1>1, <1>2, ReadsKeeps

LEMMA InsertVectorKeeps ==
    ASSUME IInv, NEW id \in Ids, NEW vector \in Vectors, InsertVector(id, vector)
    PROVE  IInv' /\ inserts' # inserts
<1> DEFINE c == Insert(coarse, id, vector, delta)
<1>1. /\ up /\ inserts < MaxInserts /\ ~InsertPanics(coarse, id) /\ inserts' = inserts + 1
      /\ fineFile' = fineFile
    BY DEF InsertVector
<1>2. PICK d \in IF Evicts(coarse, id) THEN {disk, Evicted(coarse, disk)} ELSE {disk} :
          /\ Becomes(c, fine, d)
          /\ saved' = StillShown(Only(saved, Ids \ {id}), Visible(c, d))
    BY DEF InsertVector
<1> HIDE DEF c
<1>3. /\ coarse' = c /\ fine' = fine /\ disk' = d /\ delta' = delta /\ up' = up /\ opens' = opens
    BY <1>2 DEF Becomes
<1>4. StoreGood(delta, TRUE, coarse, disk, saved)
    BY <1>1 DEF IInv, StoreGood
<1>5. StoreGood(delta, TRUE, c, d, StillShown(Only(saved, Ids \ {id}), Visible(c, d)))
    <2>1. PICK c2 : c2 = Insert(coarse, id, vector, delta)
        OBVIOUS
    <2>2. StoreGood(delta, TRUE, c2, d, StillShown(Only(saved, Ids \ {id}), Visible(c2, d)))
        <3>1. PICK others : others = Only(saved, Ids \ {id})
            OBVIOUS
        <3>2. PICK s2 : s2 = StillShown(others, Visible(c2, d))
            OBVIOUS
        <3>3. MayEvict(coarse, disk, id, d)
            BY DEF MayEvict
        <3>4. StoreGood(delta, TRUE, c2, d, s2)
            BY <1>1, <1>4, <2>1, <3>1, <3>2, <3>3, InsertKeeps
        <3> QED
            BY <3>1, <3>2, <3>4
    <2> QED
        BY <2>1, <2>2 DEF c
<1>6. StoreGood(delta', up', coarse', disk', saved')
    BY <1>2, <1>3, <1>5 DEF StoreGood
<1>7. inserts' \in 0 .. MaxInserts /\ inserts' # inserts
    BY <1>1, LayeredAssumption DEF IInv
<1> QED
    BY <1>1, <1>3, <1>6, <1>7 DEF IInv

(* A save, complete or not, of an index that stays open.                   *)
LEMMA BecomesKeeps ==
    ASSUME IInv, up, NEW c, NEW d, Becomes(c, fine, d), ShowSame(coarse, disk, c, d),
           StoreGood(delta, TRUE, c, d, saved'), FineGood(fineFile'.fine), inserts' = inserts
    PROVE  IInv' /\ Visible(coarse', disk') = Visible(coarse, disk)
<1>1. coarse' = c /\ fine' = fine /\ disk' = d /\ delta' = delta /\ up' = up /\ opens' = opens
    BY DEF Becomes
<1>2. StoreGood(delta', up', coarse', disk', saved')
    BY <1>1 DEF StoreGood
<1>3. IInv'
    BY <1>1, <1>2 DEF IInv
<1>4. Visible(coarse', disk') = Visible(coarse, disk)
    BY <1>1 DEF ShowSame
<1> QED
    BY <1>3, <1>4

LEMMA SaveBothKeeps ==
    ASSUME IInv, SaveBoth
    PROVE  IInv' /\ Visible(coarse', disk') = Visible(coarse, disk)
<1>1. PICK c, d : c = Clean(coarse) /\ d = Save(coarse, disk)
    OBVIOUS
<1>2. /\ up /\ ~SavePanics(coarse, delta) /\ Becomes(c, fine, d) /\ saved' = Written(coarse', disk')
      /\ fineFile' = [exists |-> TRUE, fine |-> FineSaved(fine)] /\ inserts' = inserts
    BY <1>1 DEF SaveBoth
<1>3. StoreGood(delta, TRUE, coarse, disk, saved) /\ FineGood(fine)
    BY <1>2 DEF IInv, StoreGood
<1>4. delta \/ ~HasNil(coarse)
    BY <1>2 DEF SavePanics
<1>5. ShowSame(coarse, disk, c, d) /\ StoreGood(delta, TRUE, c, d, Written(c, d))
    BY <1>1, <1>3, <1>4, SaveBothIs
<1>6. StoreGood(delta, TRUE, c, d, saved')
    BY <1>2, <1>5 DEF Becomes
<1>7. FineGood(fineFile'.fine)
    BY <1>2, <1>3, FineSavedGood
<1> QED
    BY <1>2, <1>5, <1>6, <1>7, BecomesKeeps

LEMMA SaveDirtyKeeps ==
    ASSUME IInv, SaveDirty
    PROVE  IInv' /\ Visible(coarse', disk') = Visible(coarse, disk)
<1>1. PICK c, d : c = Clean(coarse) /\ d = SaveDelta(coarse, disk)
    OBVIOUS
<1>2. /\ up /\ delta /\ Becomes(c, fine, d) /\ saved' = Written(coarse', disk')
      /\ fineFile' = [exists |-> TRUE, fine |-> FineSaved(fine)] /\ inserts' = inserts
    BY <1>1 DEF SaveDirty
<1>3. StoreGood(delta, TRUE, coarse, disk, saved) /\ FineGood(fine)
    BY <1>2 DEF IInv, StoreGood
<1>4. ShowSame(coarse, disk, c, d) /\ StoreGood(delta, TRUE, c, d, Written(c, d))
    BY <1>1, <1>2, <1>3, SaveDirtyIs
<1>5. StoreGood(delta, TRUE, c, d, saved')
    BY <1>2, <1>4 DEF Becomes
<1>6. FineGood(fineFile'.fine)
    BY <1>2, <1>3, FineSavedGood
<1> QED
    BY <1>2, <1>4, <1>5, <1>6, BecomesKeeps

(* Some of the pages are written, and the rest of the save is not reached. *)
LEMMA SomePagesKeeps ==
    ASSUME IInv, up, NEW S \in SUBSET LoadedPages(coarse),
           Becomes(coarse, fine, SavePages(coarse, disk, S)),
           saved' = StillShown(saved, Visible(coarse', disk')), UNCHANGED <<fineFile, inserts>>
    PROVE  IInv' /\ Visible(coarse', disk') = Visible(coarse, disk)
<1>1. PICK d : d = SavePages(coarse, disk, S)
    OBVIOUS
<1>2. PICK c \in {coarse, Clean(coarse)} : c = coarse
    OBVIOUS
<1>3. StoreGood(delta, TRUE, coarse, disk, saved)
    BY DEF IInv, StoreGood
<1>4. SaveDone(delta, coarse, disk, saved, S, c, d)
    BY <1>1, <1>2, <1>3, SavePagesGood
<1>5. Becomes(c, fine, d)
    BY <1>1, <1>2
<1>6. StoreGood(delta, TRUE, c, d, saved') /\ ShowSame(coarse, disk, c, d)
    BY <1>4, <1>5 DEF SaveDone, Becomes
<1>7. FineGood(fineFile'.fine) /\ inserts' = inserts
    BY DEF IInv
<1> QED
    BY <1>5, <1>6, <1>7, BecomesKeeps

LEMMA SaveStopsKeeps ==
    ASSUME IInv, SaveStops
    PROVE  IInv' /\ Visible(coarse', disk') = Visible(coarse, disk)
<1>1. /\ up /\ ~SavePanics(coarse, delta) /\ saved' = StillShown(saved, Visible(coarse', disk'))
      /\ UNCHANGED <<fineFile, inserts>>
    BY DEF SaveStops
<1>2. CASE \E S \in FirstOf(LoadedPages(coarse)) \cup {LoadedPages(coarse)} :
               Becomes(coarse, fine, SavePages(coarse, disk, S))
    <2>1. \A S \in FirstOf(LoadedPages(coarse)) \cup {LoadedPages(coarse)} :
              S \in SUBSET LoadedPages(coarse)
        BY DEF FirstOf
    <2>2. PICK S \in SUBSET LoadedPages(coarse) : Becomes(coarse, fine, SavePages(coarse, disk, S))
        BY <1>2, <2>1
    <2> QED
        BY <1>1, <2>2, SomePagesKeeps
<1>3. CASE Becomes(Clean(coarse), fine, Save(coarse, disk))
    <2>1. PICK c, d : c = Clean(coarse) /\ d = Save(coarse, disk)
        OBVIOUS
    <2>2. StoreGood(delta, TRUE, coarse, disk, saved) /\ FineGood(fineFile.fine)
        BY <1>1 DEF IInv, StoreGood
    <2>3. delta \/ ~HasNil(coarse)
        BY <1>1 DEF SavePanics
    <2>4. /\ ShowSame(coarse, disk, c, d)
          /\ StoreGood(delta, TRUE, c, d, StillShown(saved, Visible(c, d)))
        BY <2>1, <2>2, <2>3, SaveBothIs
    <2>5. Becomes(c, fine, d)
        BY <1>3, <2>1
    <2>6. StoreGood(delta, TRUE, c, d, saved')
        BY <1>1, <2>4, <2>5 DEF Becomes
    <2>7. FineGood(fineFile'.fine) /\ inserts' = inserts
        BY <1>1, <2>2
    <2> QED
        BY <1>1, <2>4, <2>5, <2>6, <2>7, BecomesKeeps
<1> QED
    BY <1>2, <1>3 DEF SaveStops

LEMMA SaveDeltaStopsKeeps ==
    ASSUME IInv, SaveDeltaStops
    PROVE  IInv' /\ Visible(coarse', disk') = Visible(coarse, disk)
<1>1. /\ up /\ delta /\ saved' = StillShown(saved, Visible(coarse', disk'))
      /\ UNCHANGED <<fineFile, inserts>>
    BY DEF SaveDeltaStops
<1>2. CASE \E S \in SUBSET DirtyPages(coarse) : Becomes(coarse, fine, SavePages(coarse, disk, S))
    <2>1. PICK S \in SUBSET LoadedPages(coarse) : Becomes(coarse, fine, SavePages(coarse, disk, S))
        BY <1>2 DEF DirtyPages
    <2> QED
        BY <1>1, <2>1, SomePagesKeeps
<1>3. CASE Becomes(Clean(coarse), fine, SaveDelta(coarse, disk))
    <2>1. PICK c, d : c = Clean(coarse) /\ d = SaveDelta(coarse, disk)
        OBVIOUS
    <2>2. StoreGood(delta, TRUE, coarse, disk, saved) /\ FineGood(fineFile.fine)
        BY <1>1 DEF IInv, StoreGood
    <2>3. /\ ShowSame(coarse, disk, c, d)
          /\ StoreGood(delta, TRUE, c, d, StillShown(saved, Visible(c, d)))
        BY <1>1, <2>1, <2>2, SaveDirtyIs
    <2>4. Becomes(c, fine, d)
        BY <1>3, <2>1
    <2>5. StoreGood(delta, TRUE, c, d, saved')
        BY <1>1, <2>3, <2>4 DEF Becomes
    <2>6. FineGood(fineFile'.fine) /\ inserts' = inserts
        BY <1>1, <2>2
    <2> QED
        BY <1>1, <2>3, <2>4, <2>5, <2>6, BecomesKeeps
<1> QED
    BY <1>2, <1>3 DEF SaveDeltaStops

(* The end of a process, by a call or by a panic.                          *)
LEMMA EndsKeeps ==
    ASSUME IInv, up, Ends, NEW S \in SUBSET LoadedPages(coarse),
           disk' \in {disk, SavePages(coarse, disk, S)}, UNCHANGED <<fineFile, saved>>
    PROVE  IInv' /\ ~up'
<1>1. /\ up' = FALSE /\ coarse' = NewCoarseIndex /\ fine' = NewFineIndex
      /\ delta' = delta /\ opens' = opens /\ inserts' = inserts
    BY DEF Ends
<1>2. StoreGood(delta, TRUE, coarse, disk, saved)
    BY DEF IInv, StoreGood
<1>3. PICK d \in {disk, SavePages(coarse, disk, S)} : d = disk'
    OBVIOUS
<1>4. StoreGood(delta, FALSE, NewCoarseIndex, d, saved)
    BY <1>2, EndKeeps
<1>5. StoreGood(delta', up', coarse', disk', saved')
    BY <1>1, <1>3, <1>4 DEF StoreGood
<1> QED
    BY <1>1, <1>5, NewFineGood DEF IInv

LEMMA PanicsKeeps ==
    ASSUME IInv, up, Panics
    PROVE  IInv' /\ ~up'
<1>1. Ends /\ disk' = disk /\ UNCHANGED <<fineFile, saved>>
    BY DEF Panics, store
<1>2. PICK S \in SUBSET LoadedPages(coarse) : S = {}
    OBVIOUS
<1> QED
    BY <1>1, <1>2, EndsKeeps

LEMMA SaveBothPanicsKeeps ==
    ASSUME IInv, SaveBothPanics
    PROVE  IInv' /\ ~up'
<1>1. PICK S \in SUBSET LoadedPages(coarse) :
          S = {i \in LoadedPages(coarse) : 0 .. i \subseteq DOMAIN coarse.pages}
    OBVIOUS
<1>2. up /\ Ends /\ disk' = SavePages(coarse, disk, S) /\ UNCHANGED <<fineFile, saved>>
    BY <1>1 DEF SaveBothPanics
<1> QED
    BY <1>2, EndsKeeps

LEMMA OpenActionKeeps ==
    ASSUME IInv, Open
    PROVE  IInv'
<1>1. /\ ~up /\ opens < MaxOpens /\ up' = TRUE /\ opens' = opens + 1
      /\ coarse' = IF disk.hasMetadata THEN Load(disk) ELSE NewCoarseIndex
      /\ saved' = StillShown(saved, Visible(coarse', disk))
      /\ delta' = delta /\ disk' = disk /\ fineFile' = fineFile /\ inserts' = inserts
    BY DEF Open, store
<1>2. StoreGood(delta, FALSE, coarse, disk, saved) /\ FineGood(fineFile.fine)
    BY <1>1 DEF IInv, StoreGood
<1>3. PICK c : c = coarse'
    OBVIOUS
<1>4. StoreGood(delta, TRUE, c, disk, StillShown(saved, Visible(c, disk)))
    BY <1>1, <1>2, <1>3, OpenKeeps
<1>5. StoreGood(delta', up', coarse', disk', saved')
    BY <1>1, <1>3, <1>4 DEF StoreGood
<1>6. FineGood(fine')
    <2>1. CASE disk.hasMetadata /\ fineFile.exists
        <3>1. PICK order \in SetToSeqs(DOMAIN fineFile.fine.hot) : fine' = FineLoad(fineFile.fine, order)
            BY <2>1 DEF Open
        <3>2. DOMAIN fineFile.fine.hot \in SUBSET Ids
            BY <1>2, FineIs
        <3>3. order \in Seq(DOMAIN fineFile.fine.hot)
            BY <3>1, <3>2, OrderIs
        <3> QED
            BY <1>2, <3>1, <3>3, FineLoadGood
    <2>2. CASE ~(disk.hasMetadata /\ fineFile.exists)
        BY <2>2, NewFineGood DEF Open
    <2> QED
        BY <2>1, <2>2
<1>7. opens' \in 1 .. MaxOpens
    BY <1>1, LayeredAssumption DEF IInv
<1> QED
    BY <1>1, <1>2, <1>5, <1>6, <1>7 DEF IInv

-----------------------------------------------------------------------------
(* The theorems.                                                           *)

Transparent ==
    (up /\ up' /\ inserts' = inserts) => Visible(coarse', disk') = Visible(coarse, disk)

LEMMA IInvNext == IInv /\ [Next]_vars => IInv' /\ Transparent
<1> SUFFICES ASSUME IInv, [Next]_vars PROVE IInv' /\ Transparent
    OBVIOUS
<1>1. CASE UNCHANGED vars
    <2>1. /\ delta' = delta /\ up' = up /\ coarse' = coarse /\ fine' = fine /\ disk' = disk
          /\ fineFile' = fineFile /\ inserts' = inserts /\ opens' = opens /\ saved' = saved
        BY <1>1 DEF vars, store
    <2> QED
        BY <2>1 DEF IInv, Transparent
<1>2. ASSUME NEW id \in Ids, NEW vector \in Vectors, InsertVector(id, vector)
      PROVE  IInv' /\ Transparent
    BY <1>2, InsertVectorKeeps DEF Transparent
<1>3. ASSUME NEW id \in Ids, InsertVectorPanics(id) PROVE IInv' /\ Transparent
    BY <1>3, PanicsKeeps DEF InsertVectorPanics, Transparent
<1>4. ASSUME NEW id \in Ids, PromoteToHot(id) PROVE IInv' /\ Transparent
    BY <1>4, PromoteToHotKeeps DEF Transparent
<1>5. ASSUME NEW id \in Ids, EvictFromHot(id) PROVE IInv' /\ Transparent
    BY <1>5, EvictFromHotKeeps DEF Transparent
<1>6. ASSUME NEW id \in Ids, Get(id) PROVE IInv' /\ Transparent
    BY <1>6, GetKeeps DEF Transparent
<1>7. ASSUME NEW id \in Ids, GetVectorPanics(id) PROVE IInv' /\ Transparent
    BY <1>7, PanicsKeeps DEF GetVectorPanics, Transparent
<1>8. ASSUME NEW k \in Ks, SearchHot(k) PROVE IInv' /\ Transparent
    BY <1>1, <1>8 DEF SearchHot
<1>9. ASSUME NEW k \in Ks, Search(k) PROVE IInv' /\ Transparent
    BY <1>9, SearchKeeps DEF Transparent
<1>10. ASSUME NEW k \in Ks, SearchPanics(k) PROVE IInv' /\ Transparent
    BY <1>10, PanicsKeeps DEF SearchPanics, Transparent
<1>11. CASE SaveBoth
    BY <1>11, SaveBothKeeps DEF Transparent
<1>12. CASE SaveDirty
    BY <1>12, SaveDirtyKeeps DEF Transparent
<1>13. CASE SaveStops
    BY <1>13, SaveStopsKeeps DEF Transparent
<1>14. CASE SaveDeltaStops
    BY <1>14, SaveDeltaStopsKeeps DEF Transparent
<1>15. CASE SaveBothPanics
    BY <1>15, SaveBothPanicsKeeps DEF Transparent
<1>16. CASE Stop
    BY <1>16, PanicsKeeps DEF Stop, Transparent
<1>17. CASE Open
    BY <1>17, OpenActionKeeps DEF Open, Transparent
<1> QED
    BY <1>1, <1>2, <1>3, <1>4, <1>5, <1>6, <1>7, <1>8, <1>9, <1>10, <1>11, <1>12,
       <1>13, <1>14, <1>15, <1>16, <1>17 DEF Next

LEMMA Invariance == Spec => []IInv
<1>1. Init => IInv
    BY InitIInv
<1>2. IInv /\ [Next]_vars => IInv'
    BY IInvNext
<1> QED
    BY <1>1, <1>2, PTL DEF Spec

LEMMA FineGoodOK ==
    ASSUME NEW f, FineGood(f)
    PROVE  FineOK(f, Ids, Vectors)
<1>1. /\ f.hot \in Maps(Ids, Vectors) /\ f.count \in Maps(Ids, Counts) /\ f.lru \in Seq(Ids)
      /\ Cardinality(DOMAIN f.hot) <= FineMaxSize /\ IsInjective(f.lru)
    BY FineIs DEF IsLRU
<1>2. /\ DOMAIN f.hot \subseteq Ids /\ \A id \in DOMAIN f.hot : f.hot[id] \in Vectors
      /\ DOMAIN f.count \subseteq Ids /\ \A id \in DOMAIN f.count : f.count[id] \in Counts
    BY <1>1, MapIs
<1> QED
    BY <1>1, <1>2 DEF FineOK, Counts

LEMMA IInvTypes == IInv => TypeOK
<1> SUFFICES ASSUME IInv PROVE TypeOK
    OBVIOUS
<1>1. CoarseGood(coarse) /\ DirectoryGood(disk) /\ SafeOn(disk, saved)
    BY DEF IInv, StoreGood
<1>2. CoarseOK(coarse)
    <2>1. /\ coarse.slots \in Nat /\ coarse.pageMap \in Maps(Ids, PageIndexes)
          /\ coarse.totalPages \in Nat /\ coarse.dirty \subseteq PageIndexes
          /\ \A i \in DOMAIN coarse.pages :
                /\ coarse.pages[i].vectors \in Maps(Ids, Vectors)
                /\ coarse.pages[i].loaded \in BOOLEAN
        BY <1>1, CoarseIs
    <2>2. \A i \in DOMAIN coarse.pages : IsMap(coarse.pages[i].vectors, Ids, Vectors)
        BY <2>1, MapIs DEF IsMap
    <2>3. IsMap(coarse.pageMap, Ids, PageIndexes)
        BY <2>1, MapIs DEF IsMap
    <2>4. DOMAIN coarse.pages \subseteq 0 .. coarse.slots - 1
        BY <1>1 DEF CoarseGood
    <2> QED
        BY <2>1, <2>2, <2>3, <2>4 DEF CoarseOK, ArePages
<1>3. DirectoryOK(disk)
    <2>1. /\ disk.hasMetadata \in BOOLEAN /\ disk.pageMap \in Maps(Ids, PageIndexes)
          /\ disk.totalPages \in Nat
          /\ \A i \in DOMAIN disk.file :
                /\ i \in Nat /\ i < MaxPages
                /\ disk.file[i].vectors \in Maps(Ids, Vectors) /\ disk.file[i].loaded \in BOOLEAN
        BY <1>1, DirectoryIs
    <2>2. \A i \in DOMAIN disk.file : IsMap(disk.file[i].vectors, Ids, Vectors)
        BY <2>1, MapIs DEF IsMap
    <2>3. IsMap(disk.pageMap, Ids, PageIndexes)
        BY <2>1, MapIs DEF IsMap
    <2>4. DOMAIN disk.file \subseteq PageIndexes
        <3>1. \A i \in DOMAIN disk.file : i \in 0 .. MaxPages
            BY <2>1, PageNumbers
        <3> QED
            BY <3>1, PageNumbers
    <2> QED
        BY <2>1, <2>2, <2>3, <2>4 DEF DirectoryOK, ArePages
<1>4. FineOK(fine, Ids, Vectors) /\ FineOK(fineFile.fine, Ids, Vectors)
    BY FineGoodOK DEF IInv
<1>5. DOMAIN saved \subseteq Ids
    BY <1>1 DEF SafeOn
<1> QED
    BY <1>2, <1>3, <1>4, <1>5 DEF IInv, TypeOK

(* The types hold, and there are never more hot vectors than MaxSize,      *)
(* across promotions, restarts and accesses counted for vectors that are   *)
(* not hot (fine_index.go: Insert, RecordAccess, EvictOne, Load).          *)
THEOREM TypeCorrect == Spec => []TypeOK
BY Invariance, IInvTypes, PTL

(* What a completed save wrote is on its page in the directory, under the  *)
(* metadata, for as long as the index shows it: through evictions, delta   *)
(* saves, saves that stop and restarts, of both implementations.           *)
THEOREM SavedSurvivesCorrect == Spec => []SavedSurvives
<1>1. IInv => SavedSurvives
    BY DEF IInv, StoreGood, SafeOn, SavedSurvives
<1> QED
    BY <1>1, Invariance, PTL

(* A loaded page that is not marked dirty equals its file, so a delta save *)
(* (coarse_index_protobuf.go: SaveDelta) may skip it.                      *)
THEOREM CleanPagesCorrect == Spec => []CleanPagesAreOnDisk
<1>1. IInv => CleanPagesAreOnDisk
    BY DEF IInv, StoreGood, OpenGood, CleanOn, OnDisk, CleanPagesAreOnDisk
<1> QED
    BY <1>1, Invariance, PTL

(* No id is found on two pages, although an eviction reuses a page and     *)
(* leaves the ids it had in pageMap (coarse_index.go: findOrCreatePage).   *)
THEOREM OnePagePerIdCorrect == Spec => []OnePagePerId
<1>1. ASSUME IInv, NEW id \in Ids PROVE Cardinality(PagesWith(coarse, disk, id)) <= 1
    <2>1. CoarseGood(coarse) /\ DirectoryGood(disk)
        BY <1>1 DEF IInv, StoreGood
    <2>2. PagesWith(coarse, disk, id) \subseteq {Home(id)}
        BY <2>1, VisibleIs
    <2>3. Cardinality({Home(id)}) = 1 /\ IsFiniteSet({Home(id)})
        BY FS_Singleton
    <2>4. /\ Cardinality(PagesWith(coarse, disk, id)) <= Cardinality({Home(id)})
        BY <2>2, <2>3, FS_Subset
    <2> QED
        BY <2>3, <2>4
<1>2. IInv => OnePagePerId
    BY <1>1 DEF OnePagePerId
<1> QED
    BY <1>2, Invariance, PTL

(* The LRU list names a vector that is not hot in its oldest entry at      *)
(* most, the one EvictOne (fine_index.go) leaves behind.                   *)
THEOREM OnlyTheOldestIsGoneCorrect == Spec => []OnlyTheOldestIsGone
<1>1. IInv => OnlyTheOldestIsGone
    BY FineIs DEF IInv, IsLRU, GoneIsLast, OnlyTheOldestIsGone
<1> QED
    BY <1>1, Invariance, PTL

(* Loading pages, promoting, evicting and saving change nothing that a     *)
(* search of the open index can see: only Insert does.                     *)
THEOREM ReadsAreTransparentCorrect == Spec => ReadsAreTransparent
<1>1. IInv /\ [Next]_vars =>
          [(up /\ up' /\ inserts' = inserts) => Visible(coarse', disk') = Visible(coarse, disk)]_vars
    BY IInvNext DEF Transparent
<1> QED
    BY <1>1, Invariance, PTL DEF Spec, ReadsAreTransparent

=============================================================================
