----------------------------- MODULE StoreWrites -----------------------------
(***************************************************************************)
(* The writes that interface/vector_db.go sends to a storage engine, and   *)
(* what they do to a map from ids to stored vectors.                       *)
(***************************************************************************)
CONSTANTS
    Ids,        \* the ids of vectors
    Vals,       \* the vectors stored under them
    NoVal       \* marks an id with nothing stored

ASSUME NoValAssumption == NoVal \notin Vals

Entry == Vals \cup {NoVal}

NoPuts == [id \in Ids |-> NoVal]

(* BatchPut with at least one vector, or BatchDelete with at least one id; *)
(* of two vectors with one id in a batch the last wins everywhere, so that *)
(* a batch is a partial function.  Put and Delete are batches of one.      *)
Request == {[puts |-> p, dels |-> {}] : p \in [Ids -> Entry] \ {NoPuts}}
           \cup {[puts |-> NoPuts, dels |-> d] : d \in SUBSET Ids \ {{}}}

Touches(w, id) == id \in w.dels \/ w.puts[id] # NoVal

(* The map m with the write w applied: puts[id] is NoVal for a deleted id. *)
Written(m, w) == [id \in Ids |-> IF Touches(w, id) THEN w.puts[id] ELSE m[id]]

(* The values a caller must be prepared to find under each id: a write     *)
(* that was issued adds its outcome, one that was acknowledged fixes it.   *)
Widened(a, w) ==
    [id \in Ids |-> IF Touches(w, id) THEN a[id] \cup {w.puts[id]} ELSE a[id]]

Settled(a, w) ==
    [id \in Ids |-> IF Touches(w, id) THEN {w.puts[id]} ELSE a[id]]
=============================================================================
