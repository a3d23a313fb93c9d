---------------------------- MODULE MCMMapStore ----------------------------
(* Model-checking instance of MMapStore; ids and vector elements are       *)
(* interchangeable.                                                        *)
EXTENDS MMapStore, TLC

Symmetry == Permutations(Ids) \cup Permutations(Floats)
=============================================================================
