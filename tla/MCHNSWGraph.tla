---------------------------- MODULE MCHNSWGraph ----------------------------
(* Small instances of HNSWGraph for TLC.                                   *)
EXTENDS HNSWGraph

(* Three nodes of every level, at distances that all differ.               *)
Squares == [n \in Ids |-> {n * n}]
AnyLevel == [n \in Ids |-> 0 .. LevelCap]

(* Four nodes on three levels: the second is registered while the others   *)
(* are inserted, and the fourth is nearest to it.                          *)
Spread == [n \in Ids |-> {<<0, 10, 1, 9>>[n]}]
Stairs == [n \in Ids |-> {<<1, 2, 2, 1>>[n]}]

Symmetry == Permutations(Threads)
=============================================================================
