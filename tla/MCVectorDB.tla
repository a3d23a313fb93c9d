----------------------------- MODULE MCVectorDB -----------------------------
(* Small instances of VectorDB for TLC.  Two ids are enough to confuse two *)
(* documents; with three node numbers an id is deleted and written again.  *)
EXTENDS VectorDB, TLC

Symmetry == Permutations(Ids) \cup Permutations(Searchers)
=============================================================================
