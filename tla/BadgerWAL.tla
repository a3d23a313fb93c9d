------------------------------ MODULE BadgerWAL ------------------------------
(***************************************************************************)
(* storage/badger/badger_store.go over storage/wal/wal.go: every write is  *)
(* appended to wal.log and synced, then applied to Badger; opening the     *)
(* store replays the log into Badger and truncates it.                     *)
(*                                                                         *)
(* One write is in progress at a time, since interface/vector_db.go calls  *)
(* the storage under its own mutex.  The death of the process loses no     *)
(* page of the operating system; a power loss also loses what Badger had   *)
(* not synced, which with SyncWrites = false is any suffix of its writes.  *)
(***************************************************************************)
EXTENDS Naturals, Sequences, StoreWrites

CONSTANTS
    MaxLog,         \* bound on the records of wal.log
    LosesUnsynced   \* SyncWrites is false and the power may fail; it is FALSE
                    \* for SyncWrites = true, or where only processes die

ASSUME MaxLogAssumption == MaxLog \in Nat
ASSUME LosesUnsyncedAssumption == LosesUnsynced \in BOOLEAN

VARIABLES
    status,      \* "closed" (or crashed), "replaying" inside Open, or "open"
    wal,         \* the records of wal.log, in order
    walUsable,   \* WAL.file is an open handle
    store,       \* what Badger returns
    durable,     \* what it would return after a crash now
    op,          \* the record logged but not yet applied, or NoOp
    replay,      \* how far recoverFromWAL has come
    admissible   \* history: what the caller's writes allow under each id

vars == <<status, wal, walUsable, store, durable, op, replay, admissible>>

(* A torn record is one whose length or data is incomplete in the file.    *)
Record == [kind : {"none", "data", "checkpoint", "torn"},
           puts : [Ids -> Entry], dels : SUBSET Ids]
Data(w) == [kind |-> "data", puts |-> w.puts, dels |-> w.dels]
Mark(k) == [kind |-> k, puts |-> NoPuts, dels |-> {}]
NoOp == Mark("none")

(* Recover fails on a torn record; it forgets what precedes a checkpoint.  *)
Torn(log) == \E i \in DOMAIN log : log[i].kind = "torn"
Live(log) ==
    {i \in DOMAIN log : \A j \in DOMAIN log : log[j].kind = "checkpoint" => j < i}

(* Badger has written store': to the disk, or to pages not yet on it.      *)
BadgerWrote == durable' \in IF LosesUnsynced THEN {durable, store'} ELSE {store'}

Init ==
    /\ status = "closed"
    /\ wal = <<>>
    /\ walUsable = FALSE
    /\ store = NoPuts
    /\ durable = NoPuts
    /\ op = NoOp
    /\ replay = [phase |-> "put", pos |-> 1]
    /\ admissible = [id \in Ids |-> {NoVal}]

-----------------------------------------------------------------------------
(* Writes.  BatchPut, BatchDelete, Put and Delete log first ...            *)

(* Mutant: the log keeps the vectors of a batch but not the deleted ids.   *)
LogWriteDropsIds(w) ==
    /\ status = "open" /\ walUsable /\ op = NoOp
    /\ Len(wal) < MaxLog
    /\ wal' = Append(wal, [Data(w) EXCEPT !.dels = {}])
    /\ op' = Data(w)
    /\ admissible' = Widened(admissible, w)
    /\ UNCHANGED <<status, walUsable, store, durable, replay>>

LogWrite(w) ==
    /\ status = "open" /\ walUsable /\ op = NoOp
    /\ Len(wal) < MaxLog
    /\ wal' = Append(wal, Data(w))
    /\ op' = Data(w)
    /\ admissible' = Widened(admissible, w)
    /\ UNCHANGED <<status, walUsable, store, durable, replay>>

(* ... and report an error if writeRecord does, which may have left        *)
(* nothing, a part of the record, or (when Sync fails) all of it in the    *)
(* file.  A crash inside writeRecord is this step followed by Crash.       *)
LogFails(w) ==
    /\ status = "open" /\ walUsable /\ op = NoOp
    /\ Len(wal) < MaxLog
    /\ wal' \in {wal, Append(wal, Mark("torn")), Append(wal, Data(w))}
    /\ admissible' = Widened(admissible, w)
    /\ UNCHANGED <<status, walUsable, store, durable, op, replay>>

(* Then the batch is flushed to Badger, and the write acknowledged.        *)
ApplyWrite ==
    /\ status = "open" /\ op.kind = "data"
    /\ store' = Written(store, op)
    /\ BadgerWrote
    /\ op' = NoOp
    /\ admissible' = Settled(admissible, op)
    /\ UNCHANGED <<status, wal, walUsable, replay>>

(* A part of the batch has reached Badger when its flush breaks off.       *)
FlushPart ==
    \E done \in SUBSET Ids :
        store' = [id \in Ids |-> IF id \in done THEN Written(store, op)[id] ELSE store[id]]

ApplyFails ==
    /\ status = "open" /\ op.kind = "data"
    /\ FlushPart
    /\ BadgerWrote
    /\ op' = NoOp
    /\ UNCHANGED <<status, wal, walUsable, replay, admissible>>

(* Checkpoint: a checkpoint record, then Truncate.                         *)
WriteCheckpoint ==
    /\ status = "open" /\ walUsable /\ op = NoOp
    /\ Len(wal) < MaxLog
    /\ wal' = Append(wal, Mark("checkpoint"))
    /\ op' = Mark("checkpoint")
    /\ UNCHANGED <<status, walUsable, store, durable, replay, admissible>>

Truncate ==
    /\ status = "open" /\ op.kind = "checkpoint"
    /\ wal' = <<>>
    /\ op' = NoOp
    /\ UNCHANGED <<status, walUsable, store, durable, replay, admissible>>

-----------------------------------------------------------------------------
(* Opening: NewBadgerStorageWithOptions and recoverFromWAL.                *)

(* Recover has closed the file when it meets a torn record and returns an  *)
(* error, which is only logged: the store opens without a usable log.      *)
OpenTorn ==
    /\ status = "closed" /\ Torn(wal)
    /\ status' = "open"
    /\ walUsable' = FALSE
    /\ UNCHANGED <<wal, store, durable, op, replay, admissible>>

(* Mutant: the log is truncated before it has been replayed.               *)
OpenTruncatesFirst ==
    /\ status = "closed" /\ ~Torn(wal)
    /\ status' = "replaying"
    /\ walUsable' = TRUE
    /\ wal' = <<>>
    /\ replay' = [phase |-> "put", pos |-> 1]
    /\ UNCHANGED <<store, durable, op, admissible>>

(* Mutant: the replay starts one record too early.                         *)
OpenOffByOne ==
    /\ status = "closed" /\ ~Torn(wal)
    /\ status' = "replaying"
    /\ walUsable' = TRUE
    /\ replay' = [phase |-> "put", pos |-> 0]
    /\ UNCHANGED <<wal, store, durable, op, admissible>>

OpenAndRecover ==
    /\ status = "closed" /\ ~Torn(wal)
    /\ status' = "replaying"
    /\ walUsable' = TRUE
    /\ replay' = [phase |-> "put", pos |-> 1]
    /\ UNCHANGED <<wal, store, durable, op, admissible>>

(* Mutant: the replay does not overwrite what Badger already has.          *)
ReplayPutIfAbsent ==
    /\ status = "replaying" /\ replay.phase = "put" /\ replay.pos <= Len(wal)
    /\ store' = IF replay.pos \in Live(wal)
                THEN [id \in Ids |-> IF store[id] = NoVal
                                     THEN wal[replay.pos].puts[id] ELSE store[id]]
                ELSE store
    /\ BadgerWrote
    /\ replay' = [replay EXCEPT !.pos = @ + 1]
    /\ UNCHANGED <<status, wal, walUsable, op, admissible>>

(* All recovered puts in the order of the log, one record per step.  The   *)
(* vectors of a record are written one by one; a crash between two of them *)
(* leaves nothing the next replay, which starts over, does not overwrite.  *)
ReplayPut ==
    /\ status = "replaying" /\ replay.phase = "put" /\ replay.pos <= Len(wal)
    /\ store' = IF replay.pos \in Live(wal)
                THEN [id \in Ids |-> IF wal[replay.pos].puts[id] # NoVal
                                     THEN wal[replay.pos].puts[id] ELSE store[id]]
                ELSE store
    /\ BadgerWrote
    /\ replay' = [replay EXCEPT !.pos = @ + 1]
    /\ UNCHANGED <<status, wal, walUsable, op, admissible>>

(* Mutant: the position is not reset between the two passes.               *)
ReplayPutsDoneNoReset ==
    /\ status = "replaying" /\ replay.phase = "put" /\ replay.pos > Len(wal)
    /\ replay' = [replay EXCEPT !.phase = "delete"]
    /\ UNCHANGED <<status, wal, walUsable, store, durable, op, admissible>>

ReplayPutsDone ==
    /\ status = "replaying" /\ replay.phase = "put" /\ replay.pos > Len(wal)
    /\ replay' = [phase |-> "delete", pos |-> 1]
    /\ UNCHANGED <<status, wal, walUsable, store, durable, op, admissible>>

(* Then all recovered deletes.                                             *)
ReplayDelete ==
    /\ status = "replaying" /\ replay.phase = "delete" /\ replay.pos <= Len(wal)
    /\ store' = IF replay.pos \in Live(wal)
                THEN [id \in Ids |-> IF id \in wal[replay.pos].dels THEN NoVal ELSE store[id]]
                ELSE store
    /\ BadgerWrote
    /\ replay' = [replay EXCEPT !.pos = @ + 1]
    /\ UNCHANGED <<status, wal, walUsable, op, admissible>>

FinishRecovery ==
    /\ status = "replaying" /\ replay.phase = "delete" /\ replay.pos > Len(wal)
    /\ status' = "open"
    /\ wal' = <<>>
    /\ UNCHANGED <<walUsable, store, durable, op, replay, admissible>>

-----------------------------------------------------------------------------
(* Stopping.  Close syncs Badger and leaves the log as it is.              *)

Close ==
    /\ status = "open" /\ op = NoOp
    /\ status' = "closed"
    /\ walUsable' = FALSE
    /\ durable' = store
    /\ UNCHANGED <<wal, store, op, replay, admissible>>

Crash ==
    /\ status # "closed"
    /\ status' = "closed"
    /\ walUsable' = FALSE
    /\ \/ FlushPart
       \/ store' = durable
    /\ durable' = store'
    /\ op' = NoOp
    /\ UNCHANGED <<wal, replay, admissible>>

Next ==
    \/ \E w \in Request : LogWrite(w) \/ LogFails(w)
    \/ ApplyWrite \/ ApplyFails
    \/ WriteCheckpoint \/ Truncate
    \/ OpenTorn \/ OpenAndRecover
    \/ ReplayPut \/ ReplayPutsDone \/ ReplayDelete \/ FinishRecovery
    \/ Close \/ Crash

Spec == Init /\ [][Next]_vars

-----------------------------------------------------------------------------
(* What the next recovery makes of the log: the last put of each id,       *)
(* unless any live record deletes it.                                      *)
LivePuts(log, id) == {i \in Live(log) : log[i].puts[id] # NoVal}
LiveDeletes(log, id) == {i \in Live(log) : id \in log[i].dels}
IsLastPut(log, id, i) == /\ i \in LivePuts(log, id)
                         /\ \A j \in LivePuts(log, id) : j <= i
LastPut(log, id) == CHOOSE i \in DOMAIN log : IsLastPut(log, id, i)

Outcome(id) ==
    IF Torn(wal) THEN store[id]
    ELSE IF LiveDeletes(wal, id) # {} THEN NoVal
    ELSE IF LivePuts(wal, id) # {} THEN wal[LastPut(wal, id)].puts[id]
    ELSE store[id]

(* What a caller will find: now, or once the store is open again.          *)
Visible == [id \in Ids |-> IF status = "open" THEN store[id] ELSE Outcome(id)]

-----------------------------------------------------------------------------
(* Why it works, as an inductive invariant.  The write in progress is the  *)
(* last record of the log and one the caller must be prepared for.         *)
OpIsLogged ==
    /\ op.kind = "data" =>
          /\ status = "open"
          /\ Len(wal) > 0 /\ wal[Len(wal)] = op
          /\ \A id \in Ids : Touches(op, id) => op.puts[id] \in admissible[id]
          /\ \A id \in op.dels : op.puts[id] = NoVal
    /\ op.kind # "data" => \A id \in Ids : ~Touches(op, id)

(* The log has a last put of each id it puts, and unless the log also      *)
(* deletes the id, that put is one the caller must be prepared for.        *)
LogIsAllowed ==
    \A id \in Ids :
        /\ LivePuts(wal, id) # {} => \E i \in DOMAIN wal : IsLastPut(wal, id, i)
        /\ LiveDeletes(wal, id) = {} =>
              \A i \in DOMAIN wal :
                  IsLastPut(wal, id, i) => wal[i].puts[id] \in admissible[id]

(* Where no replay is going to overwrite it, what Badger holds is allowed. *)
StoreIsAllowed ==
    \A id \in Ids :
        \/ status = "open"
        \/ Torn(wal)
        \/ LivePuts(wal, id) = {} /\ LiveDeletes(wal, id) = {}
        => store[id] \in admissible[id] \cup {NoVal}

(* How far the replay has come: before position replay.pos the puts, then  *)
(* the deletes, have taken effect.                                         *)
PutsReplayed ==
    \A id \in Ids : \A i \in LivePuts(wal, id) :
        i < replay.pos /\ (\A j \in LivePuts(wal, id) : j < replay.pos => j <= i)
            => store[id] = wal[i].puts[id]

DeletesReplayed ==
    \A id \in Ids :
        /\ LiveDeletes(wal, id) = {} =>
              \A i \in DOMAIN wal : IsLastPut(wal, id, i) => store[id] = wal[i].puts[id]
        /\ (\E d \in LiveDeletes(wal, id) : d < replay.pos) => store[id] = NoVal

ReplayIsOnTrack ==
    status = "replaying" =>
        /\ ~Torn(wal)
        /\ replay.phase = "put" => PutsReplayed
        /\ replay.phase = "delete" => DeletesReplayed

(* What recovery needs to be right holds throughout, in the middle of a    *)
(* write, of a checkpoint and of a replay: the log and Badger together     *)
(* determine, for every id, a value the caller must be prepared for.       *)
RecoveryInv ==
    /\ ~LosesUnsynced => durable = store
    /\ OpIsLogged
    /\ LogIsAllowed
    /\ StoreIsAllowed
    /\ ReplayIsOnTrack

-----------------------------------------------------------------------------
(* Types; the replay never runs past the log by more than one record.      *)
TypeOK ==
    /\ status \in {"closed", "replaying", "open"}
    /\ wal \in Seq(Record) /\ Len(wal) <= MaxLog
    /\ walUsable \in BOOLEAN
    /\ store \in [Ids -> Entry]
    /\ durable \in [Ids -> Entry]
    /\ op \in Record
    /\ replay \in [phase : {"put", "delete"}, pos : 1 .. MaxLog + 1]
    /\ admissible \in [Ids -> SUBSET Entry]

(* However crashes, failed log writes, failed flushes and checkpoints      *)
(* interleave with the caller's writes, an open store holds under each id  *)
(* the outcome of the last acknowledged write or of a later attempted one, *)
(* or nothing at all.  So a stale vector never comes back, and once a      *)
(* delete is acknowledged the vector stays deleted.                        *)
NoStaleValue ==
    status = "open" => \A id \in Ids : store[id] \in admissible[id] \cup {NoVal}

(* While the store is down, what recovery will bring back is settled: it   *)
(* does not change when the recovery itself crashes half-way and starts    *)
(* over, however often.                                                    *)
RecoveryIsSettled ==
    [][status # "open" /\ status' # "open" => Visible' = Visible]_vars

(* badger_store.go implements a crash-safe map, except that a restart may  *)
(* drop an id the log has a delete record for.                             *)
Store == INSTANCE DurableStore WITH
    value <- Visible,
    deletable <- {id \in Ids : \E i \in DOMAIN wal : id \in wal[i].dels}
StoreSpec == Store!Spec

(* docs/05: the log guarantees durability.  An acknowledged write is still *)
(* there after any sequence of closes, crashes and openings.               *)
AcknowledgedSurvives ==
    status = "open" => \A id \in Ids : store[id] \in admissible[id]
=============================================================================
