----------------------------- MODULE MCBadgerWAL -----------------------------
(* Small instances of BadgerWAL for TLC: two ids, two vectors and a log of *)
(* three records hold a put, a delete and a put of one id, a torn record   *)
(* between two others, and batches that overlap in one id.                 *)
EXTENDS BadgerWAL, TLC

Symmetry == Permutations(Ids) \cup Permutations(Vals)
=============================================================================
