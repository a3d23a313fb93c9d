----------------------------- MODULE HNSWGraph -----------------------------
(***************************************************************************)
(* indexes/hnsw/hnsw.go: a layered proximity graph.  Insert takes the lock *)
(* of the graph only to register its node and to raise the entry point;    *)
(* searching, linking and pruning run in between under the locks of single *)
(* nodes, and the batch functions insert from several goroutines at once.  *)
(*                                                                         *)
(* A vector is a point on a line.  Friends are read and written as the     *)
(* code does it, one list per step.  Node ids stay below MaxNodes, so that *)
(* the visited set has room for all of them.                               *)
(***************************************************************************)
EXTENDS Naturals, FiniteSets, SequencesExt

CONSTANTS
    Ids,         \* ids of nodes, which order the locks
    Threads,     \* goroutines
    Vectors,     \* the vectors that are inserted under each id
    Queries,     \* the vectors searched for
    Draws,       \* the levels that an insertion of each id may draw
    Deletable,   \* ids that are deleted
    Ms,          \* values of the parameter M
    Ef,          \* EfConstruction and EfSearch
    LevelCap,    \* highest level (31 in the code)
    NoNode, NoThread

ASSUME IdsAssumption == Ids \subseteq Nat /\ IsFiniteSet(Ids) /\ NoNode \notin Ids
ASSUME ThreadsAssumption == NoThread \notin Threads
ASSUME VectorsAssumption == Vectors \in [Ids -> SUBSET Nat] /\ Queries \subseteq Nat
ASSUME DrawsAssumption == Draws \in [Ids -> SUBSET (0 .. LevelCap)] /\ Deletable \subseteq Ids
ASSUME ParametersAssumption == Ms \subseteq Nat \ {0} /\ Ef \in Nat \ {0} /\ LevelCap \in Nat

VARIABLES
    M,           \* the parameter M
    nodes,       \* h.Nodes, whose ids are the keys of NodeMap
    vec, level,  \* Vector and Level of each node
    friends,     \* friends[n][l]: the neighbours of node n at level l
    deleted,     \* nodes marked Deleted, which are those of DeletedIDs
    entryPoint, maxLevel,
    mu,          \* who holds the lock of the graph across steps
    lock,        \* who holds the lock of a node across steps
    pc, job,     \* each thread: its step, and its local variables
    done,        \* history: nodes whose Insert has returned
    trimmed      \* history: links of level 0 have been removed, or are being

graph == <<nodes, vec, level, deleted>>
entry == <<entryPoint, maxLevel>>
threads == <<pc, job>>
history == <<done, trimmed>>
vars == <<M, graph, friends, entry, mu, lock, threads, history>>

Dist(a, b) == IF a < b THEN b - a ELSE a - b
Hit(q, n) == [node |-> n, dist |-> Dist(q, vec[n])]
MaxLinks(l) == IF l = 0 THEN 2 * M ELSE M

(* randomLevel: with M = 1 every draw goes on to the cap.                  *)
Levels(id) == IF M = 1 THEN {LevelCap} ELSE Draws[id]

(* Locals: the node, or NoNode in a search; the vector; the level; the     *)
(* heap of candidates, the visited set and the results of searchLayer; the *)
(* neighbours to link or unlink; the nodes to prune; the links one of them *)
(* is to keep; and, as history, the nodes there were when a search began,  *)
(* if all of them were linked.                                             *)
NoJob == [id |-> NoNode, q |-> 0, at |-> 0, cand |-> {}, seen |-> {}, res |-> {},
          todo |-> <<>>, prune |-> <<>>, keep |-> <<>>, known |-> {}]

Init ==
    /\ M \in Ms
    /\ nodes = <<>> /\ deleted = {}
    /\ vec = [n \in Ids |-> 0] /\ level = [n \in Ids |-> 0] /\ friends = [n \in Ids |-> <<>>]
    /\ entryPoint = NoNode /\ maxLevel = 0
    /\ mu = NoThread /\ lock = [n \in Ids |-> NoThread]
    /\ pc = [t \in Threads |-> "idle"] /\ job = [t \in Threads |-> NoJob]
    /\ done = {} /\ trimmed = FALSE

-----------------------------------------------------------------------------
(* searchLayer, one popped candidate at a time.                            *)

(* Mutant: the entry point is not put into the results.                    *)
StartLayerEmpty(j, e, l) ==
    [j EXCEPT !.at = l, !.cand = {Hit(j.q, e)}, !.seen = {e}, !.res = {}]
StartLayer(j, e, l) ==
    [j EXCEPT !.at = l, !.cand = {Hit(j.q, e)}, !.seen = {e}, !.res = {Hit(j.q, e)}]

(* The ef nearest of the old results and the new hits; an old one gives    *)
(* way to a nearer one only.                                               *)
Closest(old, new, ef) ==
    {S \in SUBSET (old \cup new) :
        /\ Cardinality(S) = IF Cardinality(old \cup new) < ef THEN Cardinality(old \cup new) ELSE ef
        /\ \A s \in S, r \in (old \cup new) \ S :
               s.dist <= r.dist /\ (s \in new /\ r \in old => s.dist < r.dist)}

Width(t) == IF pc[t] = "descend" THEN 1 ELSE Ef
LayerDone(t) ==
    LET j == job[t]
    IN  \/ j.cand = {}
        \/ /\ Cardinality(j.res) >= Width(t)
           /\ \A c \in j.cand, r \in j.res : c.dist > r.dist

(* The list is read without a lock: while a deletion closes a gap in it in *)
(* place, the reader may skip one of the elements that move.               *)
Moving(n, l) ==
    {x \in Ids : \E u \in Threads :
        /\ pc[u] = "delete" /\ job[u].at = l /\ job[u].todo # <<>> /\ n = Head(job[u].todo)
        /\ \E i, h \in DOMAIN friends[n][l] :
               i < h /\ friends[n][l][i] = job[u].id /\ friends[n][l][h] = x}
Neighbours(n, l, seen) ==
    IF l \in DOMAIN friends[n]
    THEN {(Range(friends[n][l]) \ seen) \ skipped :
             skipped \in {{}} \cup {{x} : x \in Moving(n, l)}}
    ELSE {{}}

Expand(t) ==
    /\ pc[t] \in {"descend", "gather"} /\ ~LayerDone(t)
    /\ LET j == job[t]
       IN  \E c \in j.cand :
              /\ \A d \in j.cand : c.dist <= d.dist
              /\ lock[c.node] = NoThread
              /\ \E next \in Neighbours(c.node, j.at, j.seen) :
                    LET new == {Hit(j.q, n) : n \in next}
                    IN  \E S \in Closest(j.res, new, Width(t)) :
                           job' = [job EXCEPT ![t].cand = (@ \ {c}) \cup new,
                                              ![t].seen = @ \cup next,
                                              ![t].res = S]
    /\ UNCHANGED <<M, graph, friends, entry, mu, lock, pc, history>>

-----------------------------------------------------------------------------
(* Insert.                                                                 *)

Exists(id) == id \in Range(nodes)

(* Registration, under h.mu.                                               *)
InsertNew(t, id, v, l) ==
    /\ pc[t] = "idle" /\ mu = NoThread /\ ~Exists(id)
    /\ nodes' = Append(nodes, id)
    /\ vec' = [vec EXCEPT ![id] = v] /\ level' = [level EXCEPT ![id] = l]
    /\ friends' = [friends EXCEPT ![id] = [i \in 0 .. l |-> <<>>]]
    /\ IF entryPoint = NoNode
       THEN /\ entryPoint' = id /\ maxLevel' = l
            /\ done' = done \cup {id}
            /\ UNCHANGED threads
       ELSE /\ pc' = [pc EXCEPT ![t] = "descend"]
            /\ job' = [job EXCEPT ![t] =
                          StartLayer([NoJob EXCEPT !.id = id, !.q = v], entryPoint, maxLevel)]
            /\ UNCHANGED <<entry, done>>
    /\ UNCHANGED <<M, deleted, mu, lock, trimmed>>

(* Insert of a known id: a new vector, no new links.                       *)
InsertKnown(t, id, v) ==
    /\ pc[t] = "idle" /\ mu = NoThread /\ Exists(id)
    /\ vec' = [vec EXCEPT ![id] = v]
    /\ deleted' = deleted \ {id}
    /\ UNCHANGED <<M, nodes, level, friends, entry, mu, lock, threads, history>>

(* Down the levels with ef = 1, an insertion to level 0, a search to 1;    *)
(* then level 0 in full width.                                             *)
Descend(t) ==
    /\ pc[t] = "descend" /\ LayerDone(t)
    /\ LET j == job[t]
           last == IF j.id = NoNode THEN 1 ELSE 0
       IN  \E e \in j.res :
              /\ pc' = [pc EXCEPT ![t] = IF j.at > last THEN "descend" ELSE "gather"]
              /\ job' = [job EXCEPT ![t] =
                            StartLayer(j, e.node, IF j.at > last THEN j.at - 1 ELSE 0)]
    /\ UNCHANGED <<M, graph, friends, entry, mu, lock, history>>

(* addConnections sorts what was found and takes the nearest maxLinks, but *)
(* not the node itself.                                                    *)
Nearest(S, k) ==
    {q \in UNION {[1 .. n -> S] : n \in 0 .. k} :
        /\ Len(q) = IF Cardinality(S) < k THEN Cardinality(S) ELSE k
        /\ IsInjective(q)
        /\ \A i, h \in DOMAIN q : i < h => q[i].dist <= q[h].dist
        /\ \A i \in DOMAIN q : \A s \in S \ Range(q) : q[i].dist <= s.dist}

Gathered(t) ==
    /\ pc[t] = "gather" /\ LayerDone(t) /\ job[t].id # NoNode
    /\ \E q \in Nearest({r \in job[t].res : r.node # job[t].id}, MaxLinks(job[t].at)) :
           job' = [job EXCEPT ![t].todo = [i \in DOMAIN q |-> q[i].node]]
    /\ pc' = [pc EXCEPT ![t] = "connect"]
    /\ UNCHANGED <<M, graph, friends, entry, mu, lock, history>>

(* The locks of both nodes are taken in the order of their ids.            *)
(* Mutant: the own node is locked first.                                   *)
OrderOwnFirst(t) == <<job[t].id, Head(job[t].todo)>>
Order(t) ==
    LET mine == job[t].id
        its == Head(job[t].todo)
    IN  IF mine < its THEN <<mine, its>> ELSE <<its, mine>>

LockFirst(t) ==
    /\ pc[t] = "connect" /\ job[t].todo # <<>>
    /\ lock[Order(t)[1]] = NoThread
    /\ lock' = [lock EXCEPT ![Order(t)[1]] = t]
    /\ pc' = [pc EXCEPT ![t] = "locking"]
    /\ UNCHANGED <<M, graph, friends, entry, mu, job, history>>

(* With both locks, a link each way; a list that is now too long will be   *)
(* pruned.                                                                 *)
Linked(n, l, new) ==
    [i \in DOMAIN friends[n] \cup 0 .. l |->
        LET old == IF i \in DOMAIN friends[n] THEN friends[n][i] ELSE <<>>
        IN  IF i = l THEN Append(old, new) ELSE old]
(* Mutant: no link from the neighbour to the new node.                     *)
LinkOneWay(t) ==
    /\ pc[t] = "locking" /\ lock[Order(t)[2]] = NoThread
    /\ LET j == job[t]
       IN  friends' = [friends EXCEPT ![j.id] = Linked(j.id, j.at, Head(j.todo))]
    /\ job' = [job EXCEPT ![t].todo = Tail(@)]
    /\ lock' = [lock EXCEPT ![Order(t)[1]] = NoThread]
    /\ pc' = [pc EXCEPT ![t] = "connect"]
    /\ UNCHANGED <<M, graph, entry, mu, history>>
Link(t) ==
    /\ pc[t] = "locking" /\ lock[Order(t)[2]] = NoThread
    /\ LET j == job[t]
           n == Head(j.todo)
       IN  /\ friends' = [friends EXCEPT ![n] = Linked(n, j.at, j.id), ![j.id] = Linked(j.id, j.at, n)]
           /\ job' = [job EXCEPT ![t].todo = Tail(@),
                                 ![t].prune = IF Len(friends'[n][j.at]) > MaxLinks(j.at)
                                              THEN Append(@, n) ELSE @]
    /\ lock' = [lock EXCEPT ![Order(t)[1]] = NoThread]
    /\ pc' = [pc EXCEPT ![t] = "connect"]
    /\ UNCHANGED <<M, graph, entry, mu, history>>

(* All neighbours are linked: the node itself may be over its limit too.   *)
Connected(t) ==
    LET j == job[t]
    IN  /\ pc[t] = "connect" /\ j.todo = <<>> /\ lock[j.id] = NoThread
        /\ pc' = [pc EXCEPT ![t] = "prune"]
        /\ job' = [job EXCEPT ![t].prune = IF Len(friends[j.id][j.at]) > MaxLinks(j.at)
                                           THEN Append(@, j.id) ELSE @]
        /\ UNCHANGED <<M, graph, friends, entry, mu, lock, history>>

-----------------------------------------------------------------------------
(* pruneConnections: the list is copied under one lock and replaced under  *)
(* another; a link that comes in between is lost.                          *)

(* selectHeuristic, over a list sorted by distance: a friend is kept       *)
(* unless one that is kept already is nearer to it than the node is.       *)
(* Mutant: one friend too many is kept.                                    *)
HeuristicOneMore(order, limit) ==
    LET kept[n \in 0 .. Len(order)] ==
            IF n = 0 THEN <<>>
            ELSE IF Len(kept[n - 1]) <= limit THEN Append(kept[n - 1], order[n].node) ELSE kept[n - 1]
    IN  kept[Len(order)]
Keeps(kept, c, limit) ==
    Len(kept) < limit /\ \A k \in Range(kept) : Dist(vec[k], vec[c.node]) >= c.dist
Heuristic(order, limit) ==
    LET kept[n \in 0 .. Len(order)] ==
            IF n = 0 THEN <<>>
            ELSE IF Keeps(kept[n - 1], order[n], limit) THEN Append(kept[n - 1], order[n].node)
            ELSE kept[n - 1]
    IN  kept[Len(order)]

PruneRead(t) ==
    /\ pc[t] = "prune" /\ job[t].prune # <<>>
    /\ LET l == job[t].at
           n == Head(job[t].prune)
           now == friends[n][l]
           far == {[node |-> now[i], dist |-> Dist(vec[n], vec[now[i]]), at |-> i] : i \in DOMAIN now}
       IN  /\ lock[n] = NoThread
           /\ IF Len(now) <= MaxLinks(l)
              THEN /\ job' = [job EXCEPT ![t].prune = Tail(@)]
                   /\ UNCHANGED pc
              ELSE /\ \E q \in Nearest(far, Len(now)) :
                         job' = [job EXCEPT ![t].keep = Heuristic(q, MaxLinks(l))]
                   /\ pc' = [pc EXCEPT ![t] = "trim"]
    /\ UNCHANGED <<M, graph, friends, entry, mu, lock, history>>

PruneWrite(t) ==
    /\ pc[t] = "trim" /\ lock[Head(job[t].prune)] = NoThread
    /\ friends' = [friends EXCEPT ![Head(job[t].prune)][job[t].at] = job[t].keep]
    /\ job' = [job EXCEPT ![t].prune = Tail(@), ![t].keep = <<>>]
    /\ pc' = [pc EXCEPT ![t] = "prune"]
    /\ trimmed' = (trimmed \/ job[t].at = 0)
    /\ UNCHANGED <<M, graph, entry, mu, lock, done>>

-----------------------------------------------------------------------------
(* setEntryPointForLevel, and the same at the end of Insert.               *)
Raise(n, l) ==
    IF l > maxLevel THEN maxLevel' = l /\ entryPoint' = n ELSE UNCHANGED entry

(* Mutant: the entry point of the graph, whatever its level.               *)
EntryPointAnyLevel(l) == entryPoint

(* getEntryPointForLevel: the first node that has the level.               *)
EntryPointForLevel(l) == nodes[SelectInSeq(nodes, LAMBDA n : level[n] >= l)]

NextLevel(t) ==
    LET j == job[t]
    IN  /\ pc[t] = "prune" /\ j.prune = <<>> /\ j.at < level[j.id] /\ mu = NoThread
        /\ Raise(j.id, j.at)
        /\ job' = [job EXCEPT ![t] = StartLayer(j, EntryPointForLevel(j.at + 1), j.at + 1)]
        /\ pc' = [pc EXCEPT ![t] = "gather"]
        /\ UNCHANGED <<M, graph, friends, mu, lock, history>>

Return(t) ==
    /\ pc' = [pc EXCEPT ![t] = "idle"]
    /\ job' = [job EXCEPT ![t] = NoJob]

Finish(t) ==
    LET j == job[t]
    IN  /\ pc[t] = "prune" /\ j.prune = <<>> /\ j.at = level[j.id] /\ mu = NoThread
        /\ Raise(j.id, j.at)
        /\ done' = done \cup {j.id}
        /\ Return(t)
        /\ UNCHANGED <<M, graph, friends, mu, lock, trimmed>>

-----------------------------------------------------------------------------
(* Search; what it finds is in res when it returns.                        *)
Search(t, q) ==
    /\ pc[t] = "idle" /\ mu = NoThread /\ entryPoint # NoNode
    /\ pc' = [pc EXCEPT ![t] = IF maxLevel > 0 THEN "descend" ELSE "gather"]
    /\ job' = [job EXCEPT ![t] =
                  StartLayer([NoJob EXCEPT !.q = q, !.known = {n \in done : done = Range(nodes)}],
                             entryPoint, maxLevel)]
    /\ UNCHANGED <<M, graph, friends, entry, mu, lock, history>>

Found(t) == pc[t] = "gather" /\ job[t].id = NoNode /\ LayerDone(t)
Results(t) == {r.node : r \in job[t].res} \ deleted
Answer(t) ==
    /\ Found(t) /\ Return(t)
    /\ UNCHANGED <<M, graph, friends, entry, mu, lock, history>>

-----------------------------------------------------------------------------
(* Delete, which holds h.mu until it has left the lists of its neighbours. *)
DeleteBegin(t, id) ==
    /\ pc[t] = "idle" /\ mu = NoThread /\ id \in Range(nodes) \ deleted
    /\ deleted' = deleted \cup {id}
    /\ mu' = t /\ trimmed' = TRUE
    /\ pc' = [pc EXCEPT ![t] = "delete"]
    /\ job' = [job EXCEPT ![t] = [NoJob EXCEPT !.id = id, !.todo = friends[id][0]]]
    /\ UNCHANGED <<M, nodes, vec, level, friends, entry, lock, done>>

DeleteNext(t) ==
    /\ pc[t] = "delete" /\ job[t].todo # <<>>
    /\ LET n == Head(job[t].todo)
       IN  /\ lock[n] = NoThread
           /\ friends' = IF job[t].at \in DOMAIN friends[n]
                         THEN [friends EXCEPT ![n][job[t].at] = RemoveFirst(@, job[t].id)]
                         ELSE friends
    /\ job' = [job EXCEPT ![t].todo = Tail(@)]
    /\ UNCHANGED <<M, graph, entry, mu, lock, pc, history>>

DeleteLevel(t) ==
    LET j == job[t]
    IN  /\ pc[t] = "delete" /\ j.todo = <<>> /\ j.at < level[j.id]
        /\ job' = [job EXCEPT ![t].at = j.at + 1, ![t].todo = friends[j.id][j.at + 1]]
        /\ UNCHANGED <<M, graph, friends, entry, mu, lock, pc, history>>

DeleteEnd(t) ==
    /\ pc[t] = "delete" /\ job[t].todo = <<>> /\ job[t].at = level[job[t].id]
    /\ mu' = NoThread
    /\ Return(t)
    /\ UNCHANGED <<M, graph, friends, entry, lock, history>>

-----------------------------------------------------------------------------
Step(t) ==
    \/ Expand(t) \/ Descend(t) \/ Gathered(t)
    \/ LockFirst(t) \/ Link(t) \/ Connected(t)
    \/ PruneRead(t) \/ PruneWrite(t) \/ NextLevel(t) \/ Finish(t)
    \/ Answer(t)
    \/ DeleteNext(t) \/ DeleteLevel(t) \/ DeleteEnd(t)

Next ==
    \E t \in Threads :
        \/ \E id \in Ids : \E v \in Vectors[id], l \in Levels(id) : InsertNew(t, id, v, l)
        \/ \E id \in Ids : \E v \in Vectors[id] : InsertKnown(t, id, v)
        \/ \E q \in Queries : Search(t, q)
        \/ \E id \in Deletable : DeleteBegin(t, id)
        \/ Step(t)

Spec == Init /\ [][Next]_vars

-----------------------------------------------------------------------------
Hits == [node : Ids, dist : Nat]
Jobs == [id : Ids \cup {NoNode}, q : Nat, at : Nat, cand : SUBSET Hits, seen : SUBSET Ids,
         res : SUBSET Hits, todo : Seq(Ids), prune : Seq(Ids), keep : Seq(Ids), known : SUBSET Ids]

(* A link of level l joins two different nodes that both have the level:   *)
(* addConnections never needs to make room in a neighbour for a level it   *)
(* was not built with, whatever insertions run beside it.                  *)
LinksFit ==
    \A n \in Range(nodes) :
        \A l \in 0 .. level[n] : \A i \in Range(friends[n][l]) : i # n /\ level[i] >= l

(* The types of graph, locks and goroutines, and that links fit.           *)
TypeOK ==
    /\ M \in Ms /\ nodes \in Seq(Ids) /\ IsInjective(nodes)
    /\ vec \in [Ids -> Nat] /\ level \in [Ids -> 0 .. LevelCap] /\ deleted \subseteq Range(nodes)
    /\ \A n \in Ids \ Range(nodes) : friends[n] = <<>>
    /\ \A n \in Range(nodes) : friends[n] \in [0 .. level[n] -> Seq(Range(nodes))]
    /\ LinksFit
    /\ entryPoint \in Range(nodes) \cup {NoNode} /\ maxLevel \in 0 .. LevelCap
    /\ mu \in Threads \cup {NoThread} /\ lock \in [Ids -> Threads \cup {NoThread}]
    /\ pc \in [Threads -> {"idle", "descend", "gather", "connect", "locking", "prune", "trim", "delete"}]
    /\ job \in [Threads -> Jobs]
    /\ done \subseteq Range(nodes) /\ trimmed \in BOOLEAN

AllIdle == \A t \in Threads : pc[t] = "idle"

(* Once no goroutine is inserting, no list is longer than its limit: every *)
(* link that made one too long was followed by a pruning of that list.     *)
DegreeBounded ==
    AllIdle => \A n \in Range(nodes) : \A l \in DOMAIN friends[n] : Len(friends[n][l]) <= MaxLinks(l)

(* No level-0 link leads out of S.                                         *)
Closed(S) == \A n \in Range(nodes) \cap S : Range(friends[n][0]) \subseteq S

(* Once no goroutine is inserting, and as long as level 0 lost no link,    *)
(* every node can be reached from the entry point at level 0, whatever     *)
(* insertions overlapped: no node was linked only to nodes that were       *)
(* themselves not linked yet.  This is true of two levels but not of       *)
(* three, though docs/03 shows Insert under the lock of the graph from     *)
(* begin to end, where no insertion meets a half-inserted node.            *)
AllReachable ==
    AllIdle /\ ~trimmed =>
        \A S \in SUBSET Ids : entryPoint \in S /\ Closed(S) => Range(nodes) \subseteq S

(* A search whose ef has room for all nodes, and which began when every    *)
(* registered node was linked, returns all of those, also if insertions    *)
(* run beside it: it never ends on a node that level 0 does not know yet.  *)
SettledAreFound ==
    \A t \in Threads :
        Found(t) /\ ~trimmed /\ Len(nodes) <= Ef => job[t].known \ deleted \subseteq Results(t)

(* Nodes are locked in the order of their ids, and the lock of the graph   *)
(* is taken with no node locked: goroutines never wait in a circle.        *)
WantedNodes(t) ==
    {n \in Ids :
        \/ pc[t] = "locking" /\ n = Order(t)[2]
        \/ pc[t] = "connect" /\ job[t].todo # <<>> /\ n = Order(t)[1]
        \/ pc[t] = "connect" /\ job[t].todo = <<>> /\ n = job[t].id
        \/ pc[t] \in {"prune", "trim"} /\ job[t].prune # <<>> /\ n = Head(job[t].prune)
        \/ pc[t] = "delete" /\ job[t].todo # <<>> /\ n = Head(job[t].todo)}
Wants(t) ==
    {lock[n] : n \in WantedNodes(t)}
        \cup IF pc[t] = "prune" /\ job[t].prune = <<>> THEN {mu} ELSE {}
NoCircularWait ==
    \A S \in (SUBSET Threads) \ {{}} : \E t \in S : Wants(t) \cap S = {}
=============================================================================
