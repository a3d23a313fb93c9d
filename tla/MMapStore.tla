----------------------------- MODULE MMapStore -----------------------------
(***************************************************************************)
(* The memory mapped storage of storage/mmap/mmap_store.go.  A file has a  *)
(* header and then records, one behind the other:                          *)
(*     length of the id, id, length of the vector, vector, time stamp.     *)
(* The index, from ids to offsets, is kept in memory only and is rebuilt   *)
(* from the records when the file is opened.  Every method holds s.mu.     *)
(*                                                                         *)
(* The unit is a word of 4 bytes, and offset 0 is the end of the header.   *)
(* An id is one word (IdLength says 4 bytes), a time stamp two; no part of *)
(* them, and no element of a vector but zero, is a number that could be a  *)
(* length.  The counter in the header is left out: nothing reads it.     *)
(***************************************************************************)
EXTENDS Integers, FiniteSets, Sequences

CONSTANTS
    Ids, Floats, Stamp,
    MaxDim,             \* the longest vector
    Page,               \* 4096 bytes: the header, and the spare room of growFile
    MaxWrites, MaxOpens \* bounds

Vectors == UNION {[1 .. n -> Floats] : n \in 1 .. MaxDim}
IdLength == 4
MaxLength == 100000

ASSUME MMapAssumption ==
    /\ MaxDim \in 1 .. IdLength - 1 /\ Page \in Nat
    /\ (Ids \cup Floats \cup {Stamp}) \cap (1 .. MaxLength) = {}
    /\ MaxWrites \in Nat /\ MaxOpens \in Nat

VARIABLES
    words,      \* the file behind its header
    state,      \* "mapped", "unmapped": growFile could not map the file again,
                \* "stuck": it could not open it again, "down": no process
    index, offset,
    session,    \* history: what was put since the file was opened, and not deleted
    latest,     \* history: the same since the file was made
    ever,       \* history: every vector that an id was put with
    torn,       \* history: a write broke off, or growFile cut the file
    writes, opens

memory == <<state, index, offset>>
history == <<session, latest, ever, torn, writes, opens>>
vars == <<words, memory, history>>

Empty == [x \in {} |-> 0]
Assign(f, x, y) == [z \in DOMAIN f \cup {x} |-> IF z = x THEN y ELSE f[z]]
Without(f, x) == [z \in DOMAIN f \ {x} |-> f[z]]

Init ==
    /\ words = Empty /\ state = "mapped" /\ index = Empty /\ offset = 0
    /\ session = Empty /\ latest = Empty /\ ever = [id \in Ids |-> {}]
    /\ torn = FALSE /\ writes = 0 /\ opens = 1

-----------------------------------------------------------------------------
(* The layout of the file.                                                 *)

Size(file) == Cardinality(DOMAIN file)

(* Truncate cuts the file off or fills it with zeros.                      *)
Truncate(file, size) ==
    [o \in 0 .. size - 1 |-> IF o \in DOMAIN file THEN file[o] ELSE 0]

Record(id, vec) == <<IdLength, id, Len(vec)>> \o vec \o <<Stamp, Stamp>>

(* Mutant: the size that is computed leaves out the time stamp as well.    *)
RecordSizeUnstamped(vec) == Len(vec) + 2

(* The size that is computed leaves out the length of the vector.          *)
RecordSize(vec) == Len(vec) + 4

(* The first k words of a record, written at the offset.                   *)
WriteWords(file, record, k) ==
    [o \in DOMAIN file |-> IF o - offset \in 0 .. k - 1 THEN record[o - offset + 1] ELSE file[o]]

(* growFile counts from the mapping, of which nothing is left when the     *)
(* file could not be mapped.                                               *)
Grown(vec) ==
    IF state = "unmapped" THEN Truncate(words, RecordSize(vec))
    ELSE IF offset + RecordSize(vec) > Size(words)
         THEN Truncate(words, Size(words) + RecordSize(vec) + Page)
         ELSE words

NeedsGrowth(vec) == state = "unmapped" \/ offset + RecordSize(vec) > Size(words)

(* Read at this offset returns this vector.                                *)
ReadsAs(o, vec) ==
    /\ o + 2 + Len(vec) \in DOMAIN words
    /\ words[o + 2] = Len(vec)
    /\ \A n \in DOMAIN vec : words[o + 2 + n] = vec[n]

(* rebuildIndex skips the whole of a record, one word more than Write does.*)
NextRecord(file, o) == o + 5 + file[o + 2]

IsRecord(file, o) ==
    /\ o + 2 < Size(file)
    /\ file[o] = IdLength
    /\ file[o + 2] \in 1 .. MaxLength

(* The records rebuildIndex comes to from offset 0 on.                     *)
RecordsOf(file) ==
    LET offsets == 0 .. Size(file) - 1
        reached[o \in offsets] ==
            o = 0 \/ \E p \in 0 .. o - 1 :
                        IsRecord(file, p) /\ NextRecord(file, p) = o /\ reached[p]
    IN  {o \in offsets : IsRecord(file, o) /\ reached[o]}

RebuiltIndex(file) ==
    [id \in {file[o + 1] : o \in RecordsOf(file)} |->
        CHOOSE o \in RecordsOf(file) :
            /\ file[o + 1] = id
            /\ \A p \in RecordsOf(file) : file[p + 1] = id => p <= o]

-----------------------------------------------------------------------------
(* Operations.                                                             *)

Write(id, vec) ==
    /\ state \in {"mapped", "unmapped"} /\ writes < MaxWrites
    /\ offset + Len(Record(id, vec)) <= Size(Grown(vec))
    /\ words' = WriteWords(Grown(vec), Record(id, vec), Len(Record(id, vec)))
    /\ index' = Assign(index, id, offset)
    /\ offset' = offset + RecordSize(vec)
    /\ state' = "mapped"
    /\ session' = Assign(session, id, vec)
    /\ latest' = Assign(latest, id, vec)
    /\ ever' = [ever EXCEPT ![id] = @ \cup {vec}]
    /\ writes' = writes + 1
    /\ UNCHANGED <<torn, opens>>

Down ==
    /\ state' = "down" /\ index' = Empty /\ offset' = 0
    /\ session' = Empty

(* The process dies before the record is complete, at the latest where the *)
(* time stamp does not fit into the mapping: the check was for RecordSize. *)
WriteBreaksOff(id, vec) ==
    /\ state \in {"mapped", "unmapped"} /\ writes < MaxWrites
    /\ \E k \in 0 .. Len(vec) + 3 :
           /\ offset + k <= Size(Grown(vec)) \/ k = 0
           /\ words' = WriteWords(Grown(vec), Record(id, vec), k)
    /\ Down
    /\ torn' = TRUE /\ writes' = writes + 1
    /\ UNCHANGED <<latest, ever, opens>>

(* growFile unmaps and closes the file before it opens, extends and maps   *)
(* it anew.  A file that is not opened again stays in s.file, and closing  *)
(* it once more is an error for ever.  One that is mapped no longer counts *)
(* as empty, so the next attempt cuts it down.                             *)
GrowFails(vec) ==
    /\ state \in {"mapped", "unmapped"} /\ NeedsGrowth(vec) /\ writes < MaxWrites
    /\ \/ state' = "stuck" /\ UNCHANGED <<words, torn>>
       \/ state' = "unmapped" /\ words' = Grown(vec) /\ torn' = (torn \/ state = "unmapped")
    /\ writes' = writes + 1
    /\ UNCHANGED <<index, offset, session, latest, ever, opens>>

(* BatchDelete deletes one id after the other and stops at the first that  *)
(* is not in the index, so it is a number of these.                        *)
Delete(id) ==
    /\ state = "mapped" /\ id \in DOMAIN index
    /\ index' = Without(index, id)
    /\ session' = Without(session, id) /\ latest' = Without(latest, id)
    /\ UNCHANGED <<words, state, offset, ever, torn, writes, opens>>

(* Read and Delete of an indexed id index the nil mapping.                 *)
TouchPanics ==
    /\ state \in {"unmapped", "stuck"} /\ index # Empty
    /\ Down
    /\ UNCHANGED <<words, latest, ever, torn, writes, opens>>

(* Close, or a death between two operations: the pages stay with the file. *)
Close ==
    /\ state # "down"
    /\ Down
    /\ UNCHANGED <<words, latest, ever, torn, writes, opens>>

Open ==
    /\ state = "down" /\ opens < MaxOpens
    /\ state' = "mapped"
    /\ index' = RebuiltIndex(words) /\ offset' = 0
    /\ opens' = opens + 1
    /\ UNCHANGED <<words, session, latest, ever, torn, writes>>

Next ==
    \/ \E id \in Ids, vec \in Vectors : Write(id, vec) \/ WriteBreaksOff(id, vec)
    \/ \E vec \in Vectors : GrowFails(vec)
    \/ \E id \in Ids : Delete(id)
    \/ TouchPanics \/ Close \/ Open

Spec == Init /\ [][Next]_vars

-----------------------------------------------------------------------------
(* Properties.                                                             *)

Holds(id, vec) == id \in DOMAIN index /\ ReadsAs(index[id], vec)

(* What was put since the file was opened is read as it was put: records   *)
(* that overlap, growth and what older sessions left behind the offset do  *)
(* not disturb it.                                                         *)
SessionReads ==
    state = "mapped" => \A id \in DOMAIN session : Holds(id, session[id])

(* A file that was just opened shows no id with a vector it never had,     *)
(* although rebuildIndex and Write disagree on the size of a record, as    *)
(* long as no write broke off and no failed growth cut the file.           *)
ReopenedIsOld ==
    state = "mapped" /\ offset = 0 /\ ~torn =>
        \A id \in DOMAIN index : \E vec \in ever[id] : Holds(id, vec)

(* mmap_store.go: Save has nothing to do, since the mapping is persistent. *)
(* An open storage holds what was put and not deleted, in earlier sessions *)
(* too, as long as no write broke off and no failed growth cut the file.   *)
Persistent ==
    state = "mapped" /\ ~torn => \A id \in DOMAIN latest : Holds(id, latest[id])
=============================================================================
