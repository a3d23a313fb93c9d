--------------------------- MODULE MCLayeredIndex ---------------------------
(* Small instances of LayeredIndex for TLC.                                *)
EXTENDS LayeredIndex

Symmetry == Permutations(Vectors)
=============================================================================
