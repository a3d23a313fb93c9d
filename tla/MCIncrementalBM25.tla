------------------------- MODULE MCIncrementalBM25 -------------------------
(* Model-checking instance of IncrementalBM25.                             *)
EXTENDS IncrementalBM25
=============================================================================
