----------------------------- MODULE MCAutoSave -----------------------------
(* Small instances of AutoSave for TLC: two goroutines, so that one left   *)
(* over from an earlier enable meets that of a later one.                  *)
EXTENDS AutoSave
=============================================================================
