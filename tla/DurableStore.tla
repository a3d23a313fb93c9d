---------------------------- MODULE DurableStore ----------------------------
(***************************************************************************)
(* What storage/badger promises its caller, with no log and no files: a    *)
(* map from ids to values that survives crashes.                           *)
(*                                                                         *)
(* `value' is what a reader finds (after the recovery, when the process is *)
(* down).  `admissible[id]' is what the writes the caller has issued allow *)
(* there: the outcome of the last acknowledged write of id, and the        *)
(* outcome of every write of id since then that was not acknowledged.      *)
(* `deletable' names the ids that a restart may remove even though the     *)
(* caller wrote them back: the promise is deliberately weaker than a map's *)
(* for them, because the recovery of the code is.                          *)
(***************************************************************************)
EXTENDS StoreWrites

VARIABLES value, admissible, deletable

vars == <<value, admissible, deletable>>

Init == /\ value = NoPuts
        /\ admissible = [id \in Ids |-> {NoVal}]
        /\ deletable = {}

Submit(w) == /\ admissible' = Widened(admissible, w)
             /\ deletable' \in {deletable, deletable \cup w.dels}
             /\ UNCHANGED value

Acknowledge(w) == /\ value' = Written(value, w)
                  /\ admissible' = Settled(admissible, w)
                  /\ UNCHANGED deletable

(* A crash or a failed write moves entries, but only to what was allowed.  *)
Revise == /\ value' \in [Ids -> Entry]
          /\ \A id \in Ids : \/ value'[id] \in admissible[id] \cup {value[id]}
                             \/ value'[id] = NoVal /\ id \in deletable
          /\ UNCHANGED <<admissible, deletable>>

Forget == /\ deletable' = {}
          /\ UNCHANGED <<value, admissible>>

Next == \/ Revise
        \/ Forget
        \/ \E w \in Request : Submit(w) \/ Acknowledge(w)

Spec == Init /\ [][Next]_vars
=============================================================================
