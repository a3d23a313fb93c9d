------------------------------- MODULE MCIVF -------------------------------
(* Model-checking instance of IVF; documents and searches are              *)
(* interchangeable.                                                        *)
EXTENDS IVF, TLC

Symmetry == Permutations(Docs) \cup Permutations(Searches)
=============================================================================
