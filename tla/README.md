# x-hmsw: verification project

TLA+ models of the vector database `x-hmsw`, the TLC configurations that check
them on small instances, and proofs that TLAPS checks.  Paths are relative to
the repository.

## 1. The system

| Part | State it keeps | Operations | How it meets the others |
|---|---|---|---|
| `api/api.go` (QuickDB, Builder) | a database, an embedding field | Insert, Search, InsertWithText, SearchByText, Save, Close | one call of the database each |
| `interface/vector_db.go` | storage, index, `idMap`/`idReverseMap`, embedding functions, vectorizer, auto save fields | Insert, Delete(s), Search, Save, Load, Close, EnableAutoSave, DisableAutoSave, ForceSave | one `RWMutex`; a second mutex for the lazy training of the vectorizer; one goroutine per EnableAutoSave |
| `interface/index.go`, `indexes/{hnsw,ivf,flat}` | nodes by number | Insert, Search, Delete | called under the lock of the database |
| `storage/badger`, `storage/wal` | Badger's keys, `wal.log` | Put, BatchPut, Delete, BatchDelete, Checkpoint, open, Close | log first, then Badger; replay when opened |
| `storage/{memory,bbolt,pebble,mmap}` | a map, or a file | the same interface | |
| `storage/backup` | backup directory, timer, stop channel | CreateBackup, RestoreBackup, EnableAutoBackup, retention | reads Badger from a goroutine of its own |
| `indexes/hnsw/{layered,coarse,fine}_index.go` | pages of vectors on disk, a hot set with an LRU cache | Insert, Search, PromoteToHot, evictions, Save, Load | two indexes behind one lock |
| `indexes/hnsw/{batch_operations,parallel_insert,lock_optimization}.go`, `utils/concurrency` | task queues | batch insertion, Submit, Wait, Close | goroutines over one graph |
| `embedding/*` | vocabulary, idf, caches | Fit, Transform, AddDocuments | called by the database under its read lock |
| `compression/*`, `serialization/*`, `metrics`, `tools`, `utils/*` | none, or counters | pure functions | |

What is hard here: the first search *writes* (it trains the vectorizer and
rebuilds index and maps) under the read lock; the auto save goroutines read
fields of the database without its lock, and several of them may coexist; the
log and Badger can be separated by a crash at any point, recovery included; the
storage, the index and the id maps hold the same documents and are updated one
after the other, with error returns in between; a training renumbers what the
id maps number; the backup manager and the vectorizer have goroutines that
take no lock, or give it up between two reads; the pages and files of the
layered index, the mapping and the backups are written one by one, and a save
may stop after any of them.

What makes each part right: no stale or resurrected value after a crash, and an
acknowledged write is never lost (storage); each stored document has one node,
each node one id, and a search names what it hits (database); what is dirty is
saved as long as auto save is on, and nothing is written after Close (auto
save); every node stays reachable (HNSW); a hit has the name of what was hit,
before and after a training (IVF); what was saved stays readable on its page
(layered index); a vector is made of one version of the statistics (BM25); a
backup that is listed is complete, and only old ones go (backup); what was put is
read back (mapping).

`PROJECT.json` lists all components, and every hazard at its line.

## 2. Modules

| Module | Models | Built on |
|---|---|---|
| `StoreWrites` | batches of puts and deletes, and what they do to a map | |
| `DurableStore` | abstract specification of a storage engine: a map that survives crashes | `StoreWrites` |
| `BadgerWAL` | `storage/badger/badger_store.go` over `storage/wal/wal.go` | `StoreWrites`, implements `DurableStore` |
| `BadgerWAL_proofs` | theorems about it | `BadgerWAL`, TLAPS |
| `VectorDB` | `interface/vector_db.go` with its index adapters and a storage | |
| `AutoSave` | the auto save goroutines of `interface/vector_db.go` | |
| `VectorDB_proofs` | theorems about both | `VectorDB`, `AutoSave`, TLAPS |
| `HNSWGraph` | `indexes/hnsw/hnsw.go` under concurrent goroutines | |
| `HNSWGraph_proofs` | theorems about it | `HNSWGraph`, TLAPS |
| `CoarseIndex`, `FineIndex` | `coarse_index.go` and its protobuf twin, `fine_index.go` of `indexes/hnsw`, as operators on records | |
| `LayeredIndex` | `layered_index.go` and its protobuf twin: the two layers, their files and processes that start and end | `CoarseIndex`, `FineIndex` |
| `LayeredIndex_proofs` | theorems about it | `LayeredIndex`, TLAPS |
| `IncrementalBM25` | `embedding/bm25_incremental.go` | |
| `IncrementalBM25_proofs` | theorems about it | `IncrementalBM25`, TLAPS |
| `BackupFiles` | the backups of `storage/backup/backup.go` and those who write and delete them | |
| `BackupManager` | its automatic loop, timer and stop channel around them | `BackupFiles` |
| `BackupManager_proofs` | theorems about both | `BackupManager`, TLAPS |
| `MMapStore` | `storage/mmap/mmap_store.go`, word by word | |
| `MMapStore_proofs` | theorems about it | `MMapStore`, TLAPS |
| `IVF` | `indexes/ivf/ivf_index.go` behind its adapter and the id map | |
| `IVF_proofs` | theorems about it | `IVF`, TLAPS |
| `MC*` | instances for TLC: symmetry sets | |

Operators whose comment begins with "Mutant" are not part of a model.  Each is
a definition of the model with a plausible bug; substituted for the real one it
makes TLC report the property named with it in `PROJECT.json`, which shows that
the property depends on the code.

### 2.1 BadgerWAL

`wal` is the sequence of records of `wal.log`, `store` what Badger returns,
`durable` what it would return after a crash.  A write is two steps, as in
`BatchPut`: `LogWrite` (`WriteBatch`, which syncs) and `ApplyWrite` (the flush of
Badger's batch).  `LogFails` leaves nothing, a torn record, or all of the record;
`ApplyFails` a part of the batch.  `Checkpoint` is `WriteCheckpoint` and
`Truncate`.  Opening is `OpenAndRecover` (`Recover` reads the log), `ReplayPut`
and `ReplayDelete` once per record, and `FinishRecovery`, which truncates the
log; on a torn record it is `OpenTorn`: `Recover` has closed the file and
returned an error that the constructor only logs.  `Crash` may happen between
any two steps.

`admissible` is history: per id, the outcome of the last acknowledged write and
of every later one that was not acknowledged.  Data is abstract: a vector is a
model value, a batch a function from ids (the last of equal ids wins in the code
as well).  One write is in progress at a time, because the database calls its
storage under its own lock.  The vectors of one record are replayed in one step:
a crash between two of them leaves a store that the next replay overwrites in
the same way, which the crash before and after the record also show.

`DurableStore` says what this amounts to.  Its one concession is `deletable`: a
restart may drop an id for which the log has a delete record, even if it was
written again (finding `AcknowledgedSurvives`).

### 2.2 VectorDB

`stored` is the storage, `index` the set of entries of the index, `idMap` and
`slot` the two maps (`slot[id] = 0` when `idReverseMap` lacks id; nodes are
numbered from 1).  Writers and the constructor are atomic up to the storage call,
and then index one document at a time (`todo`, `IndexOne`: the loop that `Insert`
and `loadExistingVectors` share); as they hold the write lock, nothing else moves
meanwhile.  Searches are processes.  The rebuild inside
`initializeDefaultEmbedding` is one step per assignment of a shared field
(`Train`, `SwapIndex`, `ClearMaps`, `RebuildInsert`, `RebuildMap`,
`RebuildDone`), since other searches run at the same time, and so is naming a hit
(`NameHit`).

Abstractions: a vector is the document it stands for, or `Empty`; distances are
left out, so that every entry may be a hit; the decimal number that names a node
outside `idMap` is `NoId`, like the empty name; whether the vocabulary happens to
have the configured dimension is a free choice (`TrainOnly` or `Train`); an
unsynchronised read or write of a field is atomic, so that the torn slices a Go
data race may produce are *not* covered.  `Delete(id)` is `Deletes` with one id:
they differ in `markDirty` only, which `AutoSave` models.  `SetEmbeddingFunc` and
`SetBatchEmbeddingFunc` are one flag.  `stale` collects the ids that a failing
storage call or `Load` changed behind the index.  The engine is `"memory"`
(documents shared by reference, `vectors.json`, empty after a restart) or
`"persistent"` (calls may fail part-way, contents survive).

### 2.3 AutoSave

Goroutine `l`, its timer and its channel share a number.  A step of
`autoSaveLoop` is what happens between two accesses of shared state: making the
timer, reading timer and channel for the `select`, receiving the tick or the
close, taking `db.mu` and looking at `autoSave`, `closed` and `dirty`, the return
of `storage.Save`, `Reset`.  The two fields are read in one step: whatever
happens between two separate reads (only Disable, Close, Enable and the start of
another goroutine write the fields), one of the orders with both reads together
gives the same pair or one that is waited on in the same way.  Calls of the
database hold `db.mu` throughout and are atomic, except those that call
`storage.Save`, which is a begin and an end, so that a crash can fall between.
Timers have the semantics of Go 1.23 and later (`go.mod` requires 1.26): a Stop
or Reset also discards an unreceived tick.  `savePath` is constant; a save to
another path is `"other"`.  A save that fails before it opens the file changes
nothing the model has.

`VectorDB_proofs` extends `VectorDB` and `AutoSave` together, so no name may be in
both: `dbClosed` is the field `closed`, `CloseDB` is `Close`, `RestartProcess` ends
a process and starts the next, and the specification is `AutoSaveSpec`.  The two
modules share no variable.

### 2.4 HNSWGraph

A thread is a goroutine in Insert, Search or Delete; `job` holds its local
variables, `pc` where it is.  `InsertNew` is the registration under `h.mu`;
`Expand` is one candidate of `searchLayer`, and `Descend`, `Gathered` its end;
`LockFirst` and `Link` connect to one neighbour under both locks; `Connected`
begins the pruning, `PruneRead` and `PruneWrite` are its two critical sections;
`NextLevel` and `Finish` raise the entry point.  A deletion keeps `h.mu` from
`DeleteBegin` to `DeleteEnd` and takes its neighbours' locks one by one.  `lock`
is held across steps only between `LockFirst` and `Link`; every other critical
section of a node is one step, enabled while the node is free.

Abstractions: a vector is a point on a line and the distance their difference;
heaps are sets, with a free choice among equal distances; a list is read in one
step, from which an element may be missing while a deletion moves the elements
(`Moving`); the unsynchronised reads of `Vector` and `Deleted` are atomic.
`NextLevel` joins `setEntryPointForLevel(l)` and `getEntryPointForLevel(l + 1)`:
the second returns the same node at either moment, as the node being inserted
has the level and nodes are only appended.  Ids stay below `MaxNodes`.  How long
`floatSlicePool` and the bitset pool keep their memory is left out.

In the database this graph sits behind `db.mu`, which lets one write at a time
in; the concurrency is that of the exported batch functions
(`BatchInsertParallel` and the like), which call Insert from several goroutines
on the graph itself.  `VectorDB` uses of the graph that Insert of a known id
updates the node, and that Delete marks it.

### 2.5 LayeredIndex

`coarse` and `disk` are records with the fields of the coarse layer and its
directory, `fine` and `fineFile` those of the fine layer; `CoarseIndex` and
`FineIndex` define what each method does to them, `LayeredIndex` composes them,
one action per exported method, since every method holds the lock from end to
end.  `delta` chooses between the two implementations: with JSON files, or with
protobuf files and delta saves (`LayeredIndexV2`), which never counts an access.
A method that touches a page that is nil ends the process
(`InsertVectorPanics`, `SearchPanics`, ...), `Stop` ends it between two methods,
and `SaveStops` and `SaveDeltaStops` are saves that return an error after some of
their files.  `Open` loads what is there.

Peculiarities the model takes from the code: `getCurrentTimestamp` returns 0, so
that the page that is evicted is always page 0; the evicted vectors keep their
entries in `pageMap`, and an evicted page that is not loaded overwrites its file
by an empty one; skipping a page leaves nil entries, on which Search and Save
panic; a vector inserted into a page that is not loaded vanishes when the page
is loaded; a delta save does not write the metadata; `EvictOne` leaves its
victim in the LRU list; and a vector that is updated while it is hot is still
found with its old value.  For this reason the properties speak of what a save
wrote and the index still shows, and not of everything that was inserted.

Abstractions: a search meets the vectors in any order of distance; access times
are a free choice of which ids are cold; counts stop at the threshold; each file
is written as a whole.

### 2.6 IncrementalBM25

Updates are one step each.  `Transform` is one step per critical section: the
size of the vocabulary (`StartTransform`), the cache (`LookUp`), one word at a
time (`CountWord`), the average length (`ReadAverage`), the scores (`Score`) and
the cache again (`Store`).  A document is the set of its words, and a number
computed from the statistics is those statistics themselves, so that two vectors
are equal only if they were computed from the same counts; that the sum of the
lengths goes through an integer in `AddDocuments` is left out.  `disturbed` are
the Transforms that an update overlapped: they may index their vector out of its
range, which is a panic, or cache a vector of the old vocabulary after the update
emptied the cache.  The properties say that all others are right.

### 2.7 BackupFiles and BackupManager

A goroutine in `CreateBackup` makes or takes over the directory of the present
second (`BeginBackup`), lets Badger write into the file (`Copy`), counts vectors
and writes the metadata (`Describe`), and cleans up: `ListExpired`, one `Delete`
per name, `ListExcess`, one `Delete` per name.  None of this is locked, so the
steps of two backups and of `DeleteBackup` interleave.  A failed or interrupted
backup leaves a directory that is never listed and never removed.  Two backups in
one second share a directory and may mix their data (`shared`); the properties
speak of the other names.  What the database holds at which moment is left out;
the count of vectors in the metadata is read in another transaction than the
data, and nothing compares them.

`BackupManager` adds the loop of `EnableAutoBackup`, with the timers of 2.3.
`LoopSelect` reads the two fields that its select waits on.  A channel that
`DisableAutoBackup` closes and replaces before the loop has read it (`missed`)
leaves the loop with a stopped timer and an open channel, so `StoppedLoopEnds`
excludes that moment; a loop that is in the middle of a backup sets the timer
again, and it is then the tick that ends it.

### 2.8 MMapStore

The file is a function from word offsets to words, a word being 4 bytes and an
id one word long; a record lies in it as `Write` puts it there.  `RecordSize` is
the size the code computes, `Record` what it writes, and `NextRecord` what
`rebuildIndex` skips; the three do not agree.  `Write` grows the file first when
`RecordSize` does not fit; `GrowFails` leaves the file unmapped or the storage
stuck; `WriteBreaksOff` is the death of the process, or the panic of writing past
the mapping, after any number of words.  `Open` rebuilds the index and starts
again at the first offset, as the constructor does.  The code is that for
Windows, the only one the file builds on.

`growFile` counts from the length of the mapping.  When it could not map the file
again, that length is 0, and the next attempt truncates the file to the size of
one record; if it fails as well, the file has lost its end, in the middle of a
record if it has vectors of three numbers or more.  `torn` therefore covers this
case, besides the writes that broke off, and `ReopenedIsOld` excludes both.

### 2.9 IVF

`index` holds the vectors, each the document it was made from, their ids, and how
many of them are in clusters.  `Train` renumbers.  A search goes through the
reading of `trained`, the copy of the vectors, the training and the setting of
the flag; only the training is locked, by the index itself, so that two searches
may train one after the other with different copies.  Writers hold the lock of
the database (`Quiet`).  The rebuild of `initializeDefaultEmbedding` adds one
document at a time while other searches go on; `VectorDB` has it in finer steps.

The properties are conditional, and every condition is needed (TLC refutes them
without): a document that is written again before the training has two vectors
and so shifts the positions (`rewritten`); a vector that comes after the training
is in no cluster (`late`); a training with an older copy drops the vectors that a
rebuild added meanwhile (`lost`), and a second training then renumbers them.
`Delete` leaves the vector: a deleted document is still a hit, with an empty
name, which `NamesRight` allows.

## 3. Runs

| Run | Instance | Shows |
|---|---|---|
| `badger_wal` | 2 ids, 2 values, log of 3 records, symmetric | types; no stale value in an open store; the inductive invariant of the proofs; recovery that starts over ends alike; refinement of `DurableStore` |
| `badger_acknowledged` | same | violation: delete, put, restart loses the put |
| `vector_db` | 2 ids, a document of each sort, 2 searches, batches of 2, 3 node numbers, HNSW | maps agree, index and store agree, lone searches are right, one rebuild, no number reused |
| `auto_save` | 2 goroutines | a clean database is saved, no goroutine set falls asleep, nothing after Close, dirty data gets saved |
| `hnsw_graph` | 3 nodes on 2 levels, M of 1 and 2, 2 goroutines, one node deleted and inserted again | links join nodes of their level (`TypeOK`), lists keep their limit, all nodes reachable, searches find every settled node, no circular wait |
| `hnsw_graph_levels` | 4 nodes on 3 levels | violation: nodes cut off from level 0 for good |
| `layered_index` | 3 ids on pages of one vector, 2 pages at most, 2 hot vectors, 3 insertions, 2 processes, both implementations | what was saved stays on its page; delta saves lose nothing; one page per id; the fine layer keeps its bound; reading, promoting and saving change nothing that is seen |
| `incremental_bm25` | 3 words, 3 documents, 2 of them at a time, vocabulary of 2, 3 updates, 1 Transform | statistics as if counted anew; an undisturbed vector, cached or not, is of one version |
| `backup` | 1 loop, 1 caller, 3 seconds, 1 backup kept, 1 failure, 1 disable | listed backups are complete; their number is bounded; only old ones go; a disabled loop ends |
| `mmap_store` | 2 ids, vectors of up to 2 numbers, 4 writes, 3 sessions, growth by 5 words | a session reads what it put; a reopened file shows no foreign vector |
| `mmap_persistent` | same | violation: a reopened file lacks records |
| `ivf` | 4 documents, 2 searches, 2 clusters, training from 3 vectors on, 6 vectors, 1 rebuild | hits are named rightly; a trained index finds every document that is neither late nor lost |

Why the bounds are enough.  Three records let a put, a delete and a put of one id
stand in the log together, a torn record lie between two others, and a checkpoint
between two writes; two ids make batches overlap in one id.  Three node numbers
and two ids let an id be deleted and written again while another keeps its
number, and a rebuild shrink the map.  Two searches are one that rebuilds and one
that overlaps it, or two that both want to.  Two goroutines are one left over from
a disabled auto save and the current one; the safety properties were also run
with three to depth 26.  Three nodes are a node being inserted, one it meets
half-linked, and an entry point; with M = 1 they overflow the lists of level 1,
so that prunings overlap links.  That `AllReachable` holds on two levels and not
on three is no accident of the bounds: an insertion meets an unlinked node only
through the first node of a level that no linked node has yet, and must then
find another level below to spread the damage.

In `layered_index`, pages of one vector make every insertion after the second
meet the limit of pages, and page 2 be opened before page 1; three insertions
and two processes let a page be saved, evicted, filled anew and loaded.  In
`incremental_bm25` a vocabulary of two for three words is one in which the limit
cuts, and three updates change it twice under one Transform; Transforms meet only
in the cache, so one of them at a time is enough to see what an update does to
it.  In `backup` three seconds, one of which may be shared, and one kept backup
let two cleanups hold lists of the same names while a third backup appears; the
failure may also be that of a deletion.  The safety properties were also run with
two loops, which share one timer, and no other caller (3.4 million states).  Four
writes in `mmap_store` are two in a
session, whose records overlap, and two in the next, over them; five words of
spare room make the second or the third write grow the file.  In `ivf` four
documents are one more than the training needs, so that the last one is late, or
added while others train; six vectors allow repetitions.

`layered_index`, `incremental_bm25`, `backup` and `mmap_store` do not check for
deadlock: they stop when a bound on insertions, updates, calls or sessions is
used up, or, as `IncrementalBM25` says with `Panicked`, when the process is
dead.  All other passing runs do check for it.

Fairness (`AutoSave`).  Goroutines run and timers tick (weak fairness); a
goroutine waiting for `db.mu` gets it (strong fairness: a Go mutex that a waiter
has failed to get for a millisecond is handed over); `storage.Save` returns, and
does not fail for ever when a goroutine calls it (strong fairness; otherwise
nothing can be promised).  Nothing is assumed of callers: `DirtyIsSaved` allows
them to disable auto save instead.

Fairness (`BackupManager`).  The loop runs, its timer ticks, and its own
`CreateBackup` goes on, all weak: none of their steps waits for a lock.  Nothing
is assumed of callers and of the failures of a backup, as the loop only logs
them.

## 4. Proofs

Every theorem holds for all values of the constants, under the named assumptions
of the module it is about: the sets of ids, words and goroutines are finite where
the code has finitely many, the special values (`NoDoc`, `NoId`, `NoOne`,
`NoName`, `Empty`) are none of the values they stand beside, and the bounds and
limits are natural numbers.  What is assumed beyond that is said with the theorem.

| Theorem module | Theorems |
|---|---|
| `BadgerWAL_proofs` | `TypeCorrect`, `RecoveryInvCorrect`, `NoStale`, `RecoveryIsSettledCorrect`, `StoreSpecCorrect` |
| `VectorDB_proofs` | `TypeCorrect`, `MapsAgreeCorrect`, `IndexMatchesStoreCorrect`, `LoneSearchNamesRightCorrect`, `RebuiltOnceCorrect`, `NoNodeReusedCorrect` |
| `VectorDB_proofs`, of `AutoSave` | `AutoSaveTypeCorrect`, `NeverWedgedCorrect`, `CleanMeansSavedCorrect`, `QuietAfterCloseCorrect` |
| `BackupManager_proofs` | `TypeCorrect`, `ListedIsCompleteCorrect`, `CountBoundedCorrect`, `OnlyTheOldAreDeletedCorrect` |
| `IVF_proofs` | `NamesRightCorrect`, `SearchedAreFoundCorrect` |
| `IncrementalBM25_proofs` | `TypeCorrect`, `StatisticsCorrect`, `UndisturbedCorrect`, `CachedCorrect` |
| `MMapStore_proofs` | `SessionReadsCorrect`, `ReopenedIsOldCorrect` |
| `HNSWGraph_proofs` | `TypeCorrect`, `DegreesBounded`, `NeverCircular`, `ReachableCorrect`, `SettledCorrect` |
| `LayeredIndex_proofs` | `TypeCorrect`, `SavedSurvivesCorrect`, `CleanPagesCorrect`, `OnePagePerIdCorrect`, `OnlyTheOldestIsGoneCorrect`, `ReadsAreTransparentCorrect` |

### 4.1 BadgerWAL_proofs

* `TypeCorrect`: `Spec => []TypeOK`, with no further assumption;
* `RecoveryInvCorrect` and `NoStale`: `Spec => []RecoveryInv` and
  `Spec => []NoStaleValue` under `~LosesUnsynced`;
* `RecoveryIsSettledCorrect`: `Spec => RecoveryIsSettled`, and
* `StoreSpecCorrect`: `Spec => StoreSpec`, the refinement of `DurableStore`, both
  under `~LosesUnsynced`.

`NoStaleValue` is not inductive: it says nothing of a store that is down.
`RecoveryInv` adds what recovery needs.  `OpIsLogged`: the write in progress is
the last record of the log.  `LogIsAllowed`: the last put of an id that the log
does not delete is admissible.  `StoreIsAllowed`: where no replay will overwrite
it, what Badger holds is admissible.  `ReplayIsOnTrack`: before the replay's
position puts, then deletes, have taken effect.  The proof has a lemma per action
that changes log or store; the lemmas about `Live`, `LivePuts` and `LastPut`
say how appending a data record, a torn record or a checkpoint changes them.
The assumption `~LosesUnsynced` is needed: with `LosesUnsynced = TRUE` in
`BadgerWAL.cfg` TLC finds `NoStaleValue` violated.

The refinement maps the abstract `value` to `Visible`: what the store shows when
it is open, and what recovery will bring back when it is not.  `Refines` is
`RecoveryInv` and the fact that a write in progress is one that was requested;
under it a step of the log or of the store is a step of the abstract write, a
crash changes nothing that is visible (this is `RecoveryIsSettled`), and the end of a
recovery is the one step that may forget, namely ids that the log deletes.

### 4.2 VectorDB_proofs

All six properties of the run `vector_db`: `TypeCorrect`, `MapsAgreeCorrect`,
`IndexMatchesStoreCorrect`, `LoneSearchNamesRightCorrect`, `RebuiltOnceCorrect`
and `NoNodeReusedCorrect`, for any number of searches and documents.

`TypeOK` and `MapsAgree` alone are not inductive: `RebuildMap` appends an id to
the maps, which keeps them inverse only if the id is in neither.  So `Inv` also
has

* `Locked`: a write excludes searches, and the one search that rebuilds holds the
  mutex;
* `PendingIsNew`: what a rebuild has still to visit is stored, occurs once, and
  is not mapped yet;
* `StoredFits` and `TodoFits`: a stored vector is the document's, or empty for a
  document that may lack one; of what a batch has still to index, the last vector
  of each id fits what is stored.  The last one only: with an id twice in a batch
  the earlier vector does not fit, and is overwritten;
* `IndexInv`, for HNSW: nodes of entries are distinct and agree with `idMap`, but
  for the one entry between `RebuildInsert` and `RebuildMap` (`IndexAligned`);
  an entry whose id is neither stale nor awaited belongs to a stored document
  (`IndexSound`); a stored document that is neither stale, awaited nor unvisited
  has an entry (`IndexFull`); a search that met no rebuild holds hits and names
  that still agree with `idMap` (`LoneSearches`).

There is a lemma per action.  Two small lemmas carry the data: `LastOne`, that
the last document of a batch with an id exists, so that what `Put` stores is
well defined, and `OrdersType`, that a storage yields each id once.

### 4.3 VectorDB_proofs, of AutoSave

`AutoSaveTypeCorrect`, `NeverWedgedCorrect`, `CleanMeansSavedCorrect` and
`QuietAfterCloseCorrect`, for any number of goroutines left over from earlier
enables.  The fairness of `AutoSaveSpec` is not used.  `NeverWedged` is not
inductive: a goroutine in `select` may be about to wait on a timer that was stopped,
or one that waits may be woken by a closed channel and end.  `AutoSaveInv` says instead that
one of them does better (`SomeOnItsWay`), and what that needs: a timer is made by
its goroutine before it runs (`TimersAreMade`), the channel in the field is never
a closed one (`DoneIsOpen`), and the lock is held across a save
(`SavesAreLocked`).

### 4.4 BackupManager_proofs

The inductive invariant is `FilesInv` for the files and `ManagerInv` for the loop.
A step of the manager is a step of the files (`FilesNext`) or leaves them alone,
so the files are proved about without the loop.

* `ListedIsComplete` needs that a goroutine has the directory it is writing for
  itself until it writes the metadata (`Owns`, but for shared names), and that
  the handles on a data file belong to goroutines that copy to it
  (`HandlesAreBusy`).
* `OnlyTheOldAreDeleted` is about lists that are old when they are used:
  `ListsAreOld` says that what makes a name deletable stays true while time goes
  on and other backups end.
* `CountBounded` is the hard one.  Two cleanups may delete the same name, or one
  may delete what the other counted on, so a bound per cleanup says nothing.
  `TrimsSuffice` quantifies over every set T of cleanups that are trimming: if
  those of T come to an end, at most MaxBackups backups remain, one for each
  cleanup that is not in T, and one for each failure.  When no cleanup is left, T
  is empty and this is the property.  Cardinalities are compared with the
  library's theorems on finite sets.

The writers must be finitely many (`BackupAssumption`), otherwise there is nothing
to count.

### 4.5 IVF_proofs

`NamesRight` says that the positions a training uses as numbers are the numbers
of the id map.  `IInv` looks at the map with the document a rebuild is about to
append (`Full`): its documents are distinct (`Distinct`); while the index may
still be trained, vector `p` is the document of number `p - 1`, and what a search
will train with is a prefix of the vectors that leaves out whole documents
(`AlignedWhileOpen`); after the training, as long as the condition of the
properties holds (`Trusted`), the ids of the vectors name them (`NumbersName`) and
the clusters hold every document that is neither late nor lost (`ClustersHold`).
`Phases` ties the flag and the rebuilding search to the program counters.

### 4.6 IncrementalBM25_proofs

`StatisticsCorrect` compares what Fit, AddDocuments and RemoveDocuments maintain
with a count from nothing.  The frequencies follow from cardinalities of sets of
positions: appending one document adds one position for its words (`AddDocuments`),
and removing documents renumbers the others (`Without`, by their rank), which
keeps the number of those with a word.  The average length is a recursive sum;
that the sum exists and that appending adds to it is proved by induction over
the natural numbers in the form of a least counterexample, which needs no operator
parameter (lemmas `LeastElement` and `Induction`).  For `UndisturbedCorrect` and
`CachedCorrect` the invariant adds `Progress`: what a Transform that no update
overlapped has gathered so far is what its words have in the present statistics.

### 4.7 MMapStore_proofs

`IInv` says where records can be.  `Intact`: in a file without torn writes a word
that could be the length of an id begins a whole record, of a vector that the id
was put with; so wherever the scan of `rebuildIndex` steps, it cannot take the
inside of a record for another.  `Before`: no record starts before the offset and
is read beyond it, so that the next write, which begins on the last time stamp of
the one before, destroys none that an id of the session needs; the records of
earlier sessions behind the offset are overwritten from their beginning.
`InSession`: the records of the session end before the offset.  The lemma
`WriteIs` describes the file after a write; that a mapping which was lost is never
written to (the record does not fit into the file that `growFile` makes of it) is
part of it.

Assumed (`MMapAssumption`): no id, element or time stamp reads as a length (a
number of 1 to `MaxLength`), and vectors have fewer elements than `IdLength` says.
Real data may violate both, and `rebuildIndex` has no means to tell; the theorem
says what holds when the data do not collide with the format.

### 4.8 LayeredIndex_proofs

All six properties of the run, for both implementations and any page size, limits
and numbers of insertions and processes.  `IInv` is the conjunction of the types,
`FineGood` for the fine layer and for its file, and `StoreGood` for the coarse
layer, the directory and the history `saved`.

* The key to the coarse layer is that an id has a `Home`: its page by number, or
  page 0 when that lies beyond `MaxPages`, because page 0 is the one that is always
  evicted.  `CoarseGood` and `DirectoryGood` say that whatever shows an id, a page
  in memory or a file, is its home; `OnePagePerId` follows.  They also bound where
  `pageMap` may point, whose entries outlive the eviction of their page.
* `SafeOn` is `SavedSurvives` with the page named: the home.  It is not inductive
  while the index is open, since the next save overwrites the file with the page in
  memory.  `OpenGood` adds that the index shows what was saved, that the number of
  pages never falls behind the one in the metadata, and for delta saves that a
  clean page equals its file (`CleanPagesAreOnDisk`).  When a process ends without
  saving, `SafeOn` is what remains, and loading leads back to `OpenGood`.
* Pages are read before they are changed, so loading is separate: `ReadKeeps` and
  `LoadAllIs` say that reading any set of pages changes nothing that is shown,
  from which `ReadsAreTransparent` follows step by step.
* `FineGood`: the LRU list names no id twice, and only its oldest entry may be an id
  that is no longer hot (`IsLRU`).  Each operation of the layer has a
  lemma.  The loops over lists (`Among`, `RecordAccesses`, `promoteHotData`,
  `FineLoad`) are recursive functions of the position; `FoldExists` proves that they
  exist, and the same least counterexample as in 4.6 that they keep what each of
  their steps keeps.

### 4.9 HNSWGraph_proofs

All five properties of the run `hnsw_graph`, for any goroutines, ids, vectors and
draws of levels, any M and any ef.

* `TypeCorrect`.  `TypeOK` is not inductive, because it says nothing of what a
  goroutine carries in its variables.  `TypeInv` adds that (`JobFits`): what a
  search has met has the level it searches, what an insertion will link and prune
  has the level it works at and is not its own node, a list to be written back is
  within the limit.  Levels of nodes never change, so another goroutine's step
  cannot spoil this.
* `DegreesBounded`: `LongAreSeen` says that a list over its limit is being seen to
  (`WillPrune`): some goroutine has put it down for pruning or is still linking
  that node at that level.  The step to watch is `PruneRead` of a list that another
  goroutine has shortened meanwhile: it is dropped only after its length was
  looked at again.
* `NeverCircular`: `LocksFit` says which locks are held across steps: the first of
  the two a linking goroutine needs, and the graph's by a deletion.  In a circle of
  waiting goroutines, the one that holds the greatest node of all would wait for a
  greater one.
* `ReachableCorrect` and `SettledCorrect`: `Spec /\ []Orderly => []AllReachable`,
  and the same for `SettledAreFound`.  `Orderly` says that there are two levels at
  most, or that insertions do not overlap each other, searches being free to
  overlap them: the database calls the graph in that way, under its lock.  The
  condition is needed: with three levels and two insertions the run
  `hnsw_graph_levels` refutes the first property.  `TwoLevels` states both for two
  levels, as the run `hnsw_graph` has them.

  The argument is about closed sets, which no link of level 0 leaves.  Links are
  mutual until one is removed, so the nodes outside a closed set are closed too.
  `Reached` says of every closed set that has the first node: it has each node
  whose level 0 is linked (`Joined`), the neighbours at higher levels, and all that
  a goroutine has met (`MetIn`).  The trouble is a node that is registered and not
  linked, for later insertions can meet it.  On two levels there is one way to
  that, the first node of level 1, from which level 1 is always begun; `Around`
  therefore asks a closed set to have this `Exposed` node too, except where it is
  the node being inserted itself, which has met joined nodes only and so ties
  itself to the first node.  When nobody works, all nodes are joined, and
  a closed set with the entry point has the first node, or its complement would
  have the entry point (`Spread`).

  For searches, `Guided` says that there is a set of links, those of the moment
  when the search came to level 0, that lead from its first node to all nodes it
  should find, that are still there, and that it has followed wherever it has
  popped a candidate.  It ends with nothing left to pop, or with a hit for every
  node (`HitsFit`).

The proofs use that a list keeps all its elements until something is removed, and
so speak of histories in which no level-0 list was pruned and nothing deleted
(`~trimmed`), as the two properties do.  What `Heuristic` keeps is known by the
recursive function it is (`HeuristicIs`), with `FoldExists` as in 4.8.

### 4.10 Only model-checked

* `DirtyIsSaved` and `StoppedLoopEnds`, and liveness in general: TLAPS cannot
  reason about fairness.

## 5. The plan

1. `HNSWGraph`: node numbers beyond `MaxNodes`, and what deletions and prunings
   leave reachable.
2. Saving and loading a graph (`hnsw_save.go`), and the worker pool.

## 6. Not modelled

* `indexes/hnsw/hnsw_save.go` and `utils/concurrency/worker_pool.go`: nothing in
  the database, its API or the batch functions calls them.  They stand in the
  plan.
* `RestoreBackup` (one call of Badger's `Load`), snapshots of the coarse
  serializer (used by no index), `Save` and `Load` of the IVF index (the database
  rebuilds it), product quantisation of the coarse layer (its quantizer is never
  set).
* A Go data race on a slice header or a map, whose outcomes are not values the
  program ever wrote.  Reads and writes of single fields are atomic here.
* The Annoy and NGT indexes: sequential search trees that no adapter creates.
* Distance kernels, vectorizer formulas, quantizers and the serialisers: pure
  numerical code and calls of libraries, with no protocol to check.
* The word lists of `utils/stopwords/data`, which are half of the repository's
  lines, the command line, metrics, validation, logging and examples.
