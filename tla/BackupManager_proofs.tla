------------------------ MODULE BackupManager_proofs ------------------------
(***************************************************************************)
(* Theorems about BackupManager, for any goroutines, any MaxBackups and    *)
(* retention, and any bounds.  The fairness of Spec is not used.           *)
(***************************************************************************)
EXTENDS BackupManager, FiniteSetTheorems, WellFoundedInduction, TLAPS

(* What a step of the manager does to the files.                           *)
FilesNext ==
    \/ \E w \in Writers :
          \/ step[w] \in {"idle", "done"} /\ BeginBackup(w)
          \/ CreateBackupStep(w)
          \/ /\ step[w] = "done" /\ Go(w, "idle")
             /\ UNCHANGED <<clock, dir, job, shared, finished, failures>>
    \/ \E n \in Names : DeleteBackup(n)
    \/ Second
    \/ FilesCrash
    \/ UNCHANGED <<clock, files>>

(* Sets of goroutines by what they do in CreateBackup.                     *)
Busy(w) == step[w] \in {"copy", "describe"}
Cleaning == {w \in Writers : step[w] \in {"list", "expire", "trim"}}
Trimming == {w \in Writers : step[w] = "trim"}

Backup == [data : {"partial", "whole", "mixed"}, meta : BOOLEAN, writers : SUBSET Writers]
Job == [name : 0 .. MaxClock, delete : SUBSET (0 .. MaxClock)]
Steps == {"idle", "copy", "describe", "list", "expire", "trim", "done"}

FilesType ==
    /\ clock \in 0 .. MaxClock
    /\ Names \subseteq 0 .. clock
    /\ dir \in [Names -> Backup]
    /\ step \in [Writers -> Steps]
    /\ job \in [Writers -> Job]
    /\ shared \subseteq 0 .. clock
    /\ finished \subseteq 0 .. clock
    /\ Listed \subseteq finished
    /\ failures \in 0 .. MaxFailures

(* The handles on a data file are those of goroutines that copy to it.     *)
HandlesAreBusy ==
    \A n \in Names, w \in Writers :
        w \in dir[n].writers => step[w] = "copy" /\ job[w].name = n

(* Until it writes the metadata, a goroutine has its backup for itself:    *)
(* nobody else uses or deletes it, and nobody sees it listed.              *)
Owns(w, n) ==
    /\ n \in Names /\ ~dir[n].meta
    /\ step[w] = "copy" => w \in dir[n].writers
    /\ step[w] = "describe" => dir[n].data = "whole"
    /\ \A v \in Writers : /\ n \notin job[v].delete
                          /\ v # w /\ Busy(v) => job[v].name # n
BusyOwn ==
    \A w \in Writers : Busy(w) =>
        job[w].name <= clock /\ (job[w].name \notin shared => Owns(w, job[w].name))

(* A list of backups to delete is of older seconds, and stays right while  *)
(* time goes on and other backups end.                                     *)
ListsAreOld ==
    \A w \in Writers : \A n \in job[w].delete :
        /\ n < clock
        /\ step[w] \in {"expire", "trim"}
        /\ step[w] = "expire" => clock - n > Retention
        /\ step[w] = "trim" => Cardinality({m \in finished : m > n}) >= MaxBackups

(* Whichever of the trims under way come to an end, they leave a backup at *)
(* most for each of the other cleanups above MaxBackups and the failures.  *)
ToDelete(T) == UNION {job[w].delete : w \in T}
TrimsSuffice ==
    \A T \in SUBSET Trimming :
        Cardinality(Listed \ ToDelete(T)) + Cardinality(T)
            <= MaxBackups + failures + Cardinality(Cleaning)

FilesInv ==
    /\ FilesType
    /\ HandlesAreBusy
    /\ BusyOwn
    /\ ListsAreOld
    /\ ListedIsComplete
    /\ TrimsSuffice

(* A timer is made by an enable that has run, and ticks or has ticked.     *)
TimersAreMade ==
    /\ running \cap due = {}
    /\ \A l \in Loops : loop[l] = "unborn" => backupTimer # l /\ l \notin running \cup due

-----------------------------------------------------------------------------
(* Finite sets.                                                            *)

LEMMA AtMost ==
    ASSUME NEW T, IsFiniteSet(T), NEW S, S \subseteq T
    PROVE  /\ IsFiniteSet(S)
           /\ Cardinality(S) \in Nat /\ Cardinality(T) \in Nat
           /\ Cardinality(S) <= Cardinality(T)
BY FS_Subset, FS_CardinalityType

LEMMA AtMostOneMore ==
    ASSUME NEW T, IsFiniteSet(T), NEW x, NEW S, S \subseteq T \cup {x}
    PROVE  /\ IsFiniteSet(S)
           /\ Cardinality(S) \in Nat /\ Cardinality(T) \in Nat
           /\ Cardinality(S) <= Cardinality(T) + 1
<1>1. IsFiniteSet(T \cup {x}) /\ Cardinality(T \cup {x}) <= Cardinality(T) + 1
    <2>1. Cardinality(T) \in Nat
        BY FS_CardinalityType
    <2> QED
        BY <2>1, FS_AddElement
<1>2. /\ IsFiniteSet(S) /\ Cardinality(S) \in Nat /\ Cardinality(T) \in Nat
      /\ Cardinality(T \cup {x}) \in Nat /\ Cardinality(S) <= Cardinality(T \cup {x})
    BY <1>1, AtMost, FS_CardinalityType
<1> QED
    BY <1>1, <1>2

LEMMA LeastElement ==
    ASSUME NEW S \in SUBSET Nat, S # {}
    PROVE  \E x \in S : \A y \in S : x <= y
<1> DEFINE Below(n) == 0 .. n - 1
           Family == {Below(n) : n \in S}
<1>1. Family \subseteq FiniteSubsetsOf(Nat) /\ Family # {}
    <2>1. \A n \in S : IsFiniteSet(Below(n)) /\ Below(n) \in SUBSET Nat
        BY FS_Interval
    <2> QED
        BY <2>1 DEF FiniteSubsetsOf
<1>2. PICK least \in Family : \A b \in Family : <<b, least>> \notin StrictSubsetOrdering(Nat)
    <2> HIDE DEF Family
    <2> QED
        BY <1>1, WFMin, FS_StrictSubsetOrderingWellFounded
<1>3. PICK x \in S : least = Below(x)
    OBVIOUS
<1>4. ASSUME NEW y \in S, ~(x <= y) PROVE FALSE
    <2>1. Below(y) \subseteq Below(x) /\ y \in Below(x) /\ y \notin Below(y)
        BY <1>4
    <2>2. <<Below(y), Below(x)>> \in StrictSubsetOrdering(Nat)
        BY <2>1 DEF StrictSubsetOrdering
    <2> QED
        BY <1>2, <1>3, <2>2
<1> QED
    BY <1>4

LEMMA GreatestElement ==
    ASSUME NEW bound \in Nat, NEW S \in SUBSET (0 .. bound), S # {}
    PROVE  \E x \in S : \A y \in S : x >= y
<1> DEFINE Distances == {bound - y : y \in S}
<1>1. Distances \in SUBSET Nat /\ Distances # {}
    <2>1. \A y \in S : bound - y \in Nat
        OBVIOUS
    <2> QED
        BY <2>1
<1>2. PICK d \in Distances : \A e \in Distances : d <= e
    <2> HIDE DEF Distances
    <2> QED
        BY <1>1, LeastElement
<1>3. PICK x \in S : d = bound - x
    BY <1>2
<1>4. \A y \in S : bound - x <= bound - y
    BY <1>2, <1>3
<1> QED
    BY <1>4

(* Of a set of numbers, at most K have fewer than K above them.            *)
LEMMA FewAreNewest ==
    ASSUME NEW S \in SUBSET Nat, IsFiniteSet(S), NEW K \in Nat,
           NEW Newest \in SUBSET S,
           \A n \in Newest : ~(Cardinality({m \in S : m > n}) >= K)
    PROVE  Cardinality(Newest) <= K
<1>1. CASE Newest = {}
    BY <1>1, FS_EmptySet
<1>2. CASE Newest # {}
    <2>1. PICK x \in Newest : \A y \in Newest : x <= y
        BY <1>2, LeastElement
    <2> DEFINE above == {m \in S : m > x}
    <2>2. IsFiniteSet(above) /\ Cardinality(above) \in Nat
        BY AtMost
    <2>3. Newest \subseteq above \cup {x}
        BY <2>1
    <2>4. ~(Cardinality(above) >= K)
        OBVIOUS
    <2> HIDE DEF above
    <2>5. Cardinality(Newest) <= Cardinality(above) + 1 /\ Cardinality(Newest) \in Nat
        BY <2>2, <2>3, AtMostOneMore
    <2> QED
        BY <2>2, <2>4, <2>5
<1> QED
    BY <1>1, <1>2

-----------------------------------------------------------------------------
(* Sizes of the sets of the invariant.                                     *)

LEMMA Sizes ==
    ASSUME FilesType
    PROVE  /\ IsFiniteSet(Listed) /\ IsFiniteSet(finished)
           /\ IsFiniteSet(Cleaning) /\ Cardinality(Cleaning) \in Nat
           /\ failures \in Nat /\ MaxBackups \in Nat
           /\ \A T \in SUBSET Writers : IsFiniteSet(T) /\ Cardinality(T) \in Nat
           /\ \A D : IsFiniteSet(Listed \ D) /\ Cardinality(Listed \ D) \in Nat
<1>1. clock \in Nat /\ IsFiniteSet(0 .. clock)
    BY BackupAssumption, FS_Interval DEF FilesType
<1>2. finished \subseteq 0 .. clock /\ Listed \subseteq finished
    BY DEF FilesType
<1>3. IsFiniteSet(finished) /\ IsFiniteSet(Listed)
    BY <1>1, <1>2, FS_Subset
<1>4. \A T \in SUBSET Writers : IsFiniteSet(T) /\ Cardinality(T) \in Nat
    BY BackupAssumption, AtMost
<1>5. \A D : IsFiniteSet(Listed \ D) /\ Cardinality(Listed \ D) \in Nat
    BY <1>3, AtMost
<1>6. failures \in Nat /\ MaxBackups \in Nat
    BY BackupAssumption DEF FilesType
<1>7. Cleaning \in SUBSET Writers
    BY DEF Cleaning
<1> QED
    BY <1>1, <1>2, <1>3, <1>4, <1>5, <1>6, <1>7, Zenon

LEMMA ListedType ==
    ASSUME FilesType
    PROVE  /\ clock \in Nat /\ 0 .. clock \in SUBSET Nat /\ 0 .. clock \subseteq 0 .. MaxClock
           /\ Listed \in SUBSET Nat /\ Listed \in SUBSET (0 .. MaxClock)
<1>1. clock \in Nat /\ 0 .. clock \in SUBSET Nat /\ 0 .. clock \subseteq 0 .. MaxClock
    BY BackupAssumption DEF FilesType
<1>2. Listed \subseteq 0 .. clock
    BY DEF FilesType
<1> QED
    BY <1>1, <1>2

(* Most steps leave the cleanups as they are and list no new backup.       *)
LEMMA TrimsSufficeStable ==
    ASSUME FilesType, FilesType', TrimsSuffice,
           Trimming' = Trimming, Cleaning' = Cleaning, Listed' \subseteq Listed,
           \A w \in Trimming : job'[w].delete = job[w].delete, failures' >= failures
    PROVE  TrimsSuffice'
<1> SUFFICES ASSUME NEW T \in SUBSET Trimming
             PROVE  Cardinality(Listed' \ ToDelete(T)') + Cardinality(T)
                        <= MaxBackups + failures' + Cardinality(Cleaning)
    BY DEF TrimsSuffice
<1>1. ToDelete(T)' = ToDelete(T)
    BY DEF ToDelete
<1>2. T \in SUBSET Writers
    BY DEF Trimming
<1>3. IsFiniteSet(Listed \ ToDelete(T)) /\ Cardinality(T) \in Nat
    BY <1>2, Sizes
<1>4. Cardinality(Listed' \ ToDelete(T)) <= Cardinality(Listed \ ToDelete(T))
      /\ Cardinality(Listed' \ ToDelete(T)) \in Nat /\ Cardinality(Listed \ ToDelete(T)) \in Nat
    BY <1>3, AtMost
<1>5. failures \in Nat /\ failures' \in Nat /\ MaxBackups \in Nat /\ Cardinality(Cleaning) \in Nat
    BY Sizes, BackupAssumption DEF FilesType
<1>6. Cardinality(Listed \ ToDelete(T)) + Cardinality(T) <= MaxBackups + failures + Cardinality(Cleaning)
    BY DEF TrimsSuffice
<1> QED
    BY <1>1, <1>3, <1>4, <1>5, <1>6

-----------------------------------------------------------------------------
(* Each step of the manager keeps the invariant of the files.              *)

LEMMA FilesInvInit == FilesInit => FilesInv
<1> SUFFICES ASSUME FilesInit PROVE FilesInv
    OBVIOUS
<1>1. Names = {} /\ Listed = {} /\ finished = {} /\ clock = 0 /\ failures = 0
    BY DEF FilesInit, Names, Listed
<1>2. FilesType
    BY <1>1, BackupAssumption
       DEF FilesInit, FilesType, Names, Listed, Job, NoJob, Steps, Backup
<1>3. HandlesAreBusy /\ BusyOwn /\ ListsAreOld /\ ListedIsComplete
    BY <1>1 DEF FilesInit, HandlesAreBusy, BusyOwn, Busy, ListsAreOld, ListedIsComplete, NoJob
<1>4. TrimsSuffice
    <2>1. Trimming = {} /\ Cleaning = {}
        BY DEF FilesInit, Trimming, Cleaning
    <2>2. \A T \in SUBSET Trimming : T = {} /\ Listed \ ToDelete(T) = {}
        BY <1>1, <2>1
    <2> QED
        BY <1>1, <2>1, <2>2, FS_EmptySet, BackupAssumption DEF TrimsSuffice
<1> QED
    BY <1>2, <1>3, <1>4 DEF FilesInv

LEMMA BeginBackupKeeps ==
    ASSUME FilesInv, NEW w \in Writers, step[w] \in {"idle", "done"}, BeginBackup(w)
    PROVE  FilesInv'
<1> USE DEF FilesInv
<1>1. /\ clock \in Nat /\ clock \in 0 .. MaxClock /\ clock' = clock
      /\ finished' = finished /\ failures' = failures
      /\ step' \in [Writers -> Steps] /\ step'[w] = "copy"
      /\ job' \in [Writers -> Job] /\ job'[w].name = clock /\ job'[w].delete = {}
      /\ \A v \in Writers \ {w} : step'[v] = step[v] /\ job'[v] = job[v]
      /\ shared' = IF clock \in Names THEN shared \cup {clock} ELSE shared
    <2>1. [name |-> clock, delete |-> {}] \in Job
        BY BackupAssumption DEF FilesType, Job
    <2> QED
        BY <2>1, BackupAssumption DEF FilesType, BeginBackup, Go, Steps
<1>2. /\ Names' = Names \cup {clock} /\ dir' \in [Names' -> Backup]
      /\ \A n \in Names \ {clock} : dir'[n] = dir[n]
      /\ w \in dir'[clock].writers
      /\ dir'[clock].writers = {w} \cup (IF clock \in Names THEN dir[clock].writers ELSE {})
      /\ dir'[clock].meta = (clock \in Names /\ dir[clock].meta)
    <2>1. CASE clock \in Names
        <3>1. dir' = [dir EXCEPT ![clock].data = "partial", ![clock].writers = @ \cup {w}]
            BY <2>1 DEF BeginBackup
        <3>2. dir \in [Names -> Backup]
            BY DEF FilesType
        <3> QED
            BY <2>1, <3>1, <3>2 DEF Names, Backup
    <2>2. CASE clock \notin Names
        <3>1. dir' = Put(clock, [data |-> "partial", meta |-> FALSE, writers |-> {w}])
            BY <2>2 DEF BeginBackup
        <3>2. dir \in [Names -> Backup]
            BY DEF FilesType
        <3> QED
            BY <2>2, <3>1, <3>2 DEF Names, Backup, Put
    <2> QED
        BY <2>1, <2>2
<1>3. Listed' = Listed
    BY <1>2 DEF Listed
<1>4. FilesType'
    BY <1>1, <1>2, <1>3 DEF FilesType
<1>5. HandlesAreBusy'
    BY <1>1, <1>2 DEF HandlesAreBusy
<1>6. ListsAreOld'
    BY <1>1, <1>3 DEF ListsAreOld, FilesType
<1>7. ListedIsComplete'
    BY <1>1, <1>2, <1>3 DEF ListedIsComplete, Listed
<1>8. BusyOwn'
    <2>1. \A v \in Writers : Busy(v)' => v = w \/ Busy(v)
        BY <1>1 DEF Busy
    <2>2. \A v \in Writers : clock \notin job'[v].delete /\ job'[v].delete \subseteq job[v].delete
        <3>1. ASSUME NEW v \in Writers, clock \in job[v].delete PROVE FALSE
            <4>1. clock < clock
                BY <3>1 DEF ListsAreOld
            <4> QED
                BY <1>1, <4>1
        <3> QED
            BY <1>1, <3>1
    <2>3. clock \notin shared' => clock \notin Names /\ shared' = shared
        BY <1>1
    <2>4. clock \notin shared' => \A v \in Writers : v # w /\ Busy(v)' => job'[v].name # clock
        BY <1>1, <2>1, <2>3 DEF BusyOwn, Owns
    <2>5. clock \notin shared' => Owns(w, clock)'
        BY <1>1, <1>2, <2>2, <2>3, <2>4 DEF Owns, Names, FilesType
    <2>6. ASSUME NEW v \in Writers, v # w, Busy(v), job[v].name \notin shared'
          PROVE  Owns(v, job[v].name)'
        <3>1. Owns(v, job[v].name) /\ job[v].name \notin shared
            BY <1>1, <2>6 DEF BusyOwn
        <3>2. job[v].name \in Names /\ job[v].name # clock
            BY <1>1, <2>6, <3>1 DEF Owns
        <3>3. Busy(w)' /\ job'[w].name = clock /\ step'[v] = step[v]
            BY <1>1, <2>6 DEF Busy, FilesType
        <3> QED
            BY <1>1, <1>2, <2>1, <2>2, <3>1, <3>2, <3>3 DEF Owns, Names
    <2> QED
        BY <1>1, <2>1, <2>5, <2>6 DEF BusyOwn, FilesType
<1>9. TrimsSuffice'
    <2>1. Trimming' = Trimming /\ Cleaning' = Cleaning
        BY <1>1 DEF Trimming, Cleaning, FilesType
    <2>2. \A v \in Trimming : job'[v].delete = job[v].delete
        BY <1>1 DEF Trimming, FilesType
    <2>3. failures' >= failures
        BY <1>1 DEF FilesType
    <2> QED
        BY <1>3, <1>4, <2>1, <2>2, <2>3, TrimsSufficeStable
<1> QED
    BY <1>4, <1>5, <1>6, <1>7, <1>8, <1>9

LEMMA CopyKeeps ==
    ASSUME FilesInv, NEW w \in Writers, Copy(w) \/ CopyFails(w)
    PROVE  FilesInv'
<1> USE DEF FilesInv
<1> DEFINE n == job[w].name
<1>1. /\ step[w] = "copy" /\ clock' = clock /\ shared' = shared /\ finished' = finished
      /\ failures \in Nat /\ failures' \in {failures, failures + 1} /\ failures' \in 0 .. MaxFailures
      /\ step' \in [Writers -> Steps] /\ step'[w] \in {"describe", "done"}
      /\ job' \in [Writers -> Job] /\ job'[w].delete \subseteq job[w].delete
      /\ step'[w] = "describe" => job' = job /\ Copy(w)
      /\ \A v \in Writers \ {w} : step'[v] = step[v] /\ job'[v] = job[v]
    <2>1. NoJob \in Job
        BY BackupAssumption DEF NoJob, Job
    <2>2. CASE Copy(w)
        <3>1. /\ step[w] = "copy" /\ step' = [step EXCEPT ![w] = "describe"]
              /\ UNCHANGED <<clock, job, shared, finished, failures>>
            BY <2>2 DEF Copy, Go
        <3> QED
            BY <2>2, <3>1, BackupAssumption DEF FilesType, Steps
    <2>3. CASE CopyFails(w)
        BY <2>1, <2>3, BackupAssumption DEF FilesType, CopyFails, Finish, Go, Steps, NoJob
    <2> QED
        BY <2>2, <2>3
<1>2. /\ Names' = Names /\ dir' \in [Names -> Backup]
      /\ \A m \in Names : /\ dir'[m].meta = dir[m].meta
                          /\ dir'[m].writers = dir[m].writers \ {w}
                          /\ m # n => dir'[m].data = dir[m].data
      /\ Copy(w) /\ n \in Names /\ w \in dir[n].writers /\ n \notin shared => dir'[n].data = "whole"
    <2>1. dir \in [Names -> Backup]
        BY DEF FilesType
    <2>2. \A m \in Names : m # n \/ ~IsMine(w) => w \notin dir[m].writers
        BY DEF HandlesAreBusy, IsMine
    <2>3. CASE ~IsMine(w)
        <3>1. dir' = dir
            BY <2>3 DEF Copy, CopyFails
        <3>2. \A m \in Names : dir[m].writers = dir[m].writers \ {w}
            BY <2>2, <2>3
        <3> QED
            BY <2>1, <2>3, <3>1, <3>2 DEF Names, IsMine
    <2>4. CASE IsMine(w)
        <3>1. PICK data \in {"whole", "partial", "mixed"} :
                  /\ dir' = [dir EXCEPT ![n].data = data, ![n].writers = @ \ {w}]
                  /\ Copy(w) /\ n \notin shared => data = "whole"
            <4>1. CASE Copy(w)
                BY <2>4, <4>1 DEF Copy
            <4>2. CASE CopyFails(w) /\ ~Copy(w)
                BY <2>1, <2>4, <4>2 DEF CopyFails, Backup, IsMine
            <4> QED
                BY <4>1, <4>2
        <3>2. n \in Names /\ dir[n] \in Backup
            BY <2>1, <2>4 DEF IsMine
        <3>3. /\ dir' \in [Names -> Backup] /\ \A m \in Names \ {n} : dir'[m] = dir[m]
              /\ dir'[n].data = data /\ dir'[n].meta = dir[n].meta
              /\ dir'[n].writers = dir[n].writers \ {w}
            BY <2>1, <3>1, <3>2 DEF Backup
        <3>4. \A m \in Names : m # n => dir[m].writers = dir[m].writers \ {w}
            BY <2>2
        <3> QED
            BY <3>1, <3>2, <3>3, <3>4 DEF Names
    <2> QED
        BY <2>3, <2>4
<1>3. Listed' = Listed
    BY <1>2 DEF Listed
<1>4. FilesType'
    BY <1>1, <1>2, <1>3 DEF FilesType
<1>5. HandlesAreBusy'
    BY <1>1, <1>2 DEF HandlesAreBusy
<1>6. ListsAreOld'
    BY <1>1 DEF ListsAreOld
<1>7. BusyOwn'
    <2>1. \A v \in Writers : Busy(v)' => Busy(v) /\ job'[v] = job[v]
        BY <1>1 DEF Busy
    <2>2. \A v \in Writers : job'[v].delete \subseteq job[v].delete
        BY <1>1
    <2>3. SUFFICES ASSUME NEW v \in Writers, Busy(v)', job[v].name \notin shared
                   PROVE  Owns(v, job[v].name)'
        BY <1>1, <2>1 DEF BusyOwn
    <2>4. Busy(v) /\ Owns(v, job[v].name)
        BY <2>1, <2>3 DEF BusyOwn
    <2>5. v # w => job[v].name # n
        BY <1>1, <2>4 DEF Owns, Busy
    <2> QED
        BY <1>1, <1>2, <2>1, <2>2, <2>3, <2>4, <2>5 DEF Owns, Busy
<1>8. ListedIsComplete'
    <2>1. ASSUME NEW m \in Listed \ shared PROVE m # n
        BY <1>1, <2>1 DEF BusyOwn, Busy, Owns, Listed
    <2> QED
        BY <1>1, <1>2, <1>3, <2>1 DEF ListedIsComplete, Listed
<1>9. TrimsSuffice'
    <2>1. Trimming' = Trimming /\ Cleaning' = Cleaning
        BY <1>1 DEF Trimming, Cleaning
    <2>2. \A v \in Trimming : job'[v].delete = job[v].delete
        BY <1>1 DEF Trimming
    <2>3. failures' >= failures
        BY <1>1
    <2> QED
        BY <1>3, <1>4, <2>1, <2>2, <2>3, TrimsSufficeStable
<1> QED
    BY <1>4, <1>5, <1>6, <1>7, <1>8, <1>9

(* The backups that ended only become more.                                *)
LEMMA MoreAreNewer ==
    ASSUME FilesType', finished \subseteq finished', NEW n \in Nat,
           Cardinality({m \in finished : m > n}) >= MaxBackups
    PROVE  Cardinality({m \in finished' : m > n}) >= MaxBackups
<1> DEFINE before == {m \in finished : m > n}
           after == {m \in finished' : m > n}
<1>1. IsFiniteSet(finished')
    <2>1. IsFiniteSet(0 .. clock')
        BY BackupAssumption, FS_Interval DEF FilesType
    <2> QED
        BY <2>1, AtMost DEF FilesType
<1>2. IsFiniteSet(after) /\ before \subseteq after
    BY <1>1, AtMost
<1>3. Cardinality(before) >= MaxBackups
    OBVIOUS
<1> HIDE DEF before, after
<1>4. Cardinality(after) >= MaxBackups
    BY <1>2, <1>3, AtMost, BackupAssumption
<1> QED
    BY <1>4 DEF after

LEMMA DescribedKeeps ==
    ASSUME FilesInv, NEW w \in Writers, Describe(w), job[w].name \in Names
    PROVE  FilesInv'
<1> USE DEF FilesInv
<1> DEFINE n == job[w].name
<1>1. /\ step[w] = "describe" /\ step' \in [Writers -> Steps] /\ step'[w] = "list"
      /\ \A v \in Writers \ {w} : step'[v] = step[v]
      /\ finished' = finished \cup {n} /\ dir' = [dir EXCEPT ![n].meta = TRUE]
      /\ UNCHANGED <<clock, job, shared, failures>>
    BY DEF FilesType, Describe, Go, Steps
<1>2. /\ Names' = Names /\ dir' \in [Names -> Backup] /\ dir'[n].meta
      /\ dir'[n].data = dir[n].data /\ dir'[n].writers = dir[n].writers
      /\ \A m \in Names \ {n} : dir'[m] = dir[m]
    BY <1>1 DEF FilesType, Names, Backup
<1>3. Listed' = Listed \cup {n}
    BY <1>2 DEF Listed
<1>4. FilesType'
    BY <1>1, <1>2, <1>3 DEF FilesType
<1>5. HandlesAreBusy'
    BY <1>1, <1>2 DEF HandlesAreBusy
<1>6. ListsAreOld'
    <2> SUFFICES ASSUME NEW v \in Writers, NEW k \in job[v].delete
                 PROVE  /\ k < clock
                        /\ step'[v] \in {"expire", "trim"}
                        /\ step'[v] = "expire" => clock - k > Retention
                        /\ step'[v] = "trim" => Cardinality({m \in finished' : m > k}) >= MaxBackups
        BY <1>1 DEF ListsAreOld
    <2>1. /\ k < clock /\ step[v] \in {"expire", "trim"}
          /\ step[v] = "expire" => clock - k > Retention
          /\ step[v] = "trim" => Cardinality({m \in finished : m > k}) >= MaxBackups
        BY DEF ListsAreOld
    <2>2. v # w /\ step'[v] = step[v] /\ k \in Nat
        BY <1>1, <2>1, BackupAssumption DEF FilesType, Job
    <2> QED
        BY <1>1, <1>4, <2>1, <2>2, MoreAreNewer
<1>7. BusyOwn'
    <2>1. \A v \in Writers : Busy(v)' => Busy(v) /\ v # w
        BY <1>1 DEF Busy
    <2>2. SUFFICES ASSUME NEW v \in Writers, Busy(v)', job[v].name \notin shared
                   PROVE  Owns(v, job[v].name)'
        BY <1>1, <2>1 DEF BusyOwn
    <2>3. v # w /\ Busy(v) /\ Owns(v, job[v].name) /\ Busy(w)
        BY <1>1, <2>1, <2>2 DEF BusyOwn, Busy
    <2>4. job[v].name # n
        BY <2>3 DEF Owns
    <2> QED
        BY <1>1, <1>2, <2>1, <2>3, <2>4 DEF Owns
<1>8. ListedIsComplete'
    <2>1. n \notin shared => dir[n].data = "whole"
        BY <1>1 DEF BusyOwn, Busy, Owns
    <2> QED
        BY <1>1, <1>2, <1>3, <2>1 DEF ListedIsComplete, Listed
<1>9. TrimsSuffice'
    <2>1. Trimming' = Trimming /\ Cleaning' = Cleaning \cup {w} /\ w \notin Cleaning
        BY <1>1 DEF Trimming, Cleaning
    <2>2. SUFFICES ASSUME NEW T \in SUBSET Trimming
                   PROVE  Cardinality(Listed' \ ToDelete(T)') + Cardinality(T)
                              <= MaxBackups + failures + Cardinality(Cleaning')
        BY <1>1, <2>1 DEF TrimsSuffice
    <2>3. Cardinality(Listed \ ToDelete(T)) + Cardinality(T)
              <= MaxBackups + failures + Cardinality(Cleaning)
        BY DEF TrimsSuffice
    <2>4. Listed' \ ToDelete(T)' \subseteq (Listed \ ToDelete(T)) \cup {n}
        BY <1>1, <1>3 DEF ToDelete
    <2>5. IsFiniteSet(Listed \ ToDelete(T)) /\ IsFiniteSet(Cleaning) /\ failures \in Nat
          /\ MaxBackups \in Nat /\ Cardinality(Cleaning) \in Nat /\ Cardinality(T) \in Nat
        BY Sizes DEF Trimming
    <2>6. /\ Cardinality(Listed' \ ToDelete(T)') <= Cardinality(Listed \ ToDelete(T)) + 1
          /\ Cardinality(Listed' \ ToDelete(T)') \in Nat /\ Cardinality(Listed \ ToDelete(T)) \in Nat
        BY <2>4, <2>5, AtMostOneMore
    <2>7. Cardinality(Cleaning') = Cardinality(Cleaning) + 1
        BY <2>1, <2>5, FS_AddElement
    <2> QED
        BY <2>3, <2>5, <2>6, <2>7
<1> QED
    BY <1>4, <1>5, <1>6, <1>7, <1>8, <1>9

(* No metadata is written, or what is there of it is spoilt.               *)
LEMMA UndescribedKeeps ==
    ASSUME FilesInv, NEW w \in Writers,
           (Describe(w) /\ job[w].name \notin Names) \/ DescribeFails(w)
    PROVE  FilesInv'
<1> USE DEF FilesInv
<1> DEFINE n == job[w].name
<1>1. /\ step[w] = "describe" /\ clock' = clock /\ shared' = shared /\ finished' = finished
      /\ failures \in Nat /\ failures' \in {failures, failures + 1} /\ failures' \in 0 .. MaxFailures
      /\ step' \in [Writers -> Steps] /\ step'[w] = "done"
      /\ job' \in [Writers -> Job] /\ job'[w].delete = {}
      /\ \A v \in Writers \ {w} : step'[v] = step[v] /\ job'[v] = job[v]
      /\ dir' = IF n \in Names THEN [dir EXCEPT ![n].meta = FALSE] ELSE dir
    <2>1. NoJob \in Job /\ NoJob.delete = {}
        BY BackupAssumption DEF NoJob, Job
    <2>2. CASE Describe(w) /\ n \notin Names
        BY <2>1, <2>2, BackupAssumption DEF FilesType, Describe, Finish, Go, Steps
    <2>3. CASE DescribeFails(w)
        BY <2>1, <2>3, BackupAssumption DEF FilesType, DescribeFails, Finish, Go, Steps
    <2> QED
        BY <2>2, <2>3
<1>2. /\ Names' = Names /\ dir' \in [Names -> Backup] /\ (n \in Names => ~dir'[n].meta)
      /\ \A m \in Names : /\ dir'[m].data = dir[m].data /\ dir'[m].writers = dir[m].writers
                          /\ m # n => dir'[m].meta = dir[m].meta
    BY <1>1 DEF FilesType, Names, Backup
<1>3. Listed' \subseteq Listed
    BY <1>2 DEF Listed
<1>4. FilesType'
    BY <1>1, <1>2, <1>3 DEF FilesType
<1>5. HandlesAreBusy'
    BY <1>1, <1>2 DEF HandlesAreBusy
<1>6. ListsAreOld'
    BY <1>1 DEF ListsAreOld
<1>7. BusyOwn'
    <2>1. \A v \in Writers : Busy(v)' => Busy(v) /\ v # w
        BY <1>1 DEF Busy
    <2>2. \A v \in Writers : job'[v].delete \subseteq job[v].delete
        BY <1>1
    <2>3. SUFFICES ASSUME NEW v \in Writers, Busy(v)', job[v].name \notin shared
                   PROVE  Owns(v, job[v].name)'
        BY <1>1, <2>1 DEF BusyOwn
    <2>4. v # w /\ Busy(v) /\ Owns(v, job[v].name)
        BY <2>1, <2>3 DEF BusyOwn
    <2> QED
        BY <1>1, <1>2, <2>1, <2>2, <2>4 DEF Owns
<1>8. ListedIsComplete'
    BY <1>1, <1>2, <1>3 DEF ListedIsComplete, Listed
<1>9. TrimsSuffice'
    <2>1. Trimming' = Trimming /\ Cleaning' = Cleaning
        BY <1>1 DEF Trimming, Cleaning
    <2>2. \A v \in Trimming : job'[v].delete = job[v].delete
        BY <1>1 DEF Trimming
    <2>3. failures' >= failures
        BY <1>1
    <2> QED
        BY <1>3, <1>4, <2>1, <2>2, <2>3, TrimsSufficeStable
<1> QED
    BY <1>4, <1>5, <1>6, <1>7, <1>8, <1>9

(* The backups beyond the newest MaxBackups are of older seconds.          *)
LEMMA ExcessIsOld ==
    ASSUME FilesType, NEW n \in Excess
    PROVE  n < clock /\ Cardinality({m \in finished : m > n}) >= MaxBackups
<1> DEFINE newer == {m \in Listed : m > n}
           over == {m \in finished : m > n}
<1>1. n \in Listed /\ Cardinality(newer) >= MaxBackups
    BY DEF Excess
<1>2. newer \subseteq over /\ over \subseteq finished /\ newer \subseteq Listed
    BY DEF FilesType
<1>3. newer # {} => n < clock
    <2>1. \A m \in Listed : m \in Nat /\ m <= clock /\ clock \in Nat
        BY BackupAssumption DEF FilesType, Listed
    <2> QED
        BY <1>1, <2>1
<1> HIDE DEF newer, over
<1>4. IsFiniteSet(over) /\ IsFiniteSet(newer)
    BY <1>2, Sizes, FS_Subset
<1>5. Cardinality(over) >= MaxBackups /\ newer # {}
    BY <1>1, <1>2, <1>4, AtMost, FS_EmptySet, BackupAssumption
<1> QED
    BY <1>3, <1>5 DEF over

LEMMA ExpiredIsOld ==
    ASSUME FilesType, NEW n \in Expired
    PROVE  n < clock /\ clock - n > Retention
BY BackupAssumption DEF FilesType, Expired, Listed

LEMMA ListKeeps ==
    ASSUME FilesInv, NEW w \in Writers, ListExpired(w) \/ ListExcess(w)
    PROVE  FilesInv'
<1> USE DEF FilesInv
<1> DEFINE old == job'[w].delete
<1>1. /\ UNCHANGED <<clock, dir, shared, finished, failures>>
      /\ step' \in [Writers -> Steps] /\ job' \in [Writers -> Job]
      /\ \A v \in Writers \ {w} : step'[v] = step[v] /\ job'[v] = job[v]
      /\ \/ step[w] = "list" /\ step'[w] = "expire" /\ old = Expired
         \/ step[w] = "expire" /\ step'[w] = "trim" /\ old = Excess
    <2>1. Expired \in SUBSET (0 .. MaxClock) /\ Excess \in SUBSET (0 .. MaxClock)
        BY ListedType DEF Expired, Excess
    <2>2. CASE ListExpired(w)
        <3>1. job' = [job EXCEPT ![w].delete = Expired]
            BY <2>2 DEF ListExpired
        <3> QED
            BY <2>1, <2>2, <3>1 DEF FilesType, ListExpired, Go, Steps, Job
    <2>3. CASE ListExcess(w)
        <3>1. job' = [job EXCEPT ![w].delete = Excess]
            BY <2>3 DEF ListExcess
        <3> QED
            BY <2>1, <2>3, <3>1 DEF FilesType, ListExcess, Go, Steps, Job
    <2> QED
        BY <2>2, <2>3
<1>2. Listed' = Listed /\ Names' = Names
    BY <1>1 DEF Listed, Names
<1>3. \A n \in old : /\ n < clock /\ n \in Listed
                     /\ step'[w] = "expire" => clock - n > Retention
                     /\ step'[w] = "trim" => Cardinality({m \in finished : m > n}) >= MaxBackups
    <2>1. CASE old = Expired /\ step'[w] = "expire"
        BY <2>1, ExpiredIsOld DEF Expired
    <2>2. CASE old = Excess /\ step'[w] = "trim"
        BY <2>2, ExcessIsOld DEF Excess
    <2> QED
        BY <1>1, <2>1, <2>2
<1>4. FilesType'
    BY <1>1, <1>2 DEF FilesType
<1>5. HandlesAreBusy'
    BY <1>1, <1>2 DEF HandlesAreBusy
<1>6. ListsAreOld'
    <2> SUFFICES ASSUME NEW v \in Writers, NEW k \in job'[v].delete
                 PROVE  /\ k < clock
                        /\ step'[v] \in {"expire", "trim"}
                        /\ step'[v] = "expire" => clock - k > Retention
                        /\ step'[v] = "trim" => Cardinality({m \in finished : m > k}) >= MaxBackups
        BY <1>1 DEF ListsAreOld
    <2>1. CASE v = w
        BY <1>1, <1>3, <2>1
    <2>2. CASE v # w
        BY <1>1, <2>2 DEF ListsAreOld
    <2> QED
        BY <2>1, <2>2
<1>7. BusyOwn'
    <2>1. \A v \in Writers : Busy(v)' <=> Busy(v) /\ v # w
        BY <1>1 DEF Busy
    <2>2. SUFFICES ASSUME NEW v \in Writers, Busy(v)', job[v].name \notin shared
                   PROVE  Owns(v, job[v].name)'
        BY <1>1, <2>1 DEF BusyOwn
    <2>3. v # w /\ Busy(v) /\ Owns(v, job[v].name)
        BY <2>1, <2>2 DEF BusyOwn
    <2>4. job[v].name \notin old
        BY <1>3, <2>3 DEF Owns, Listed
    <2> QED
        BY <1>1, <1>2, <2>1, <2>3, <2>4 DEF Owns
<1>8. ListedIsComplete'
    BY <1>1, <1>2 DEF ListedIsComplete
<1>9. CASE step'[w] = "expire"
    <2>1. Trimming' = Trimming /\ Cleaning' = Cleaning
        BY <1>1, <1>9 DEF Trimming, Cleaning
    <2>2. \A v \in Trimming : job'[v].delete = job[v].delete
        BY <1>1, <1>9 DEF Trimming
    <2>3. failures' >= failures
        BY <1>1, Sizes
    <2>4. TrimsSuffice'
        BY <1>2, <1>4, <2>1, <2>2, <2>3, TrimsSufficeStable
    <2> QED
        BY <1>4, <1>5, <1>6, <1>7, <1>8, <2>4
<1>10. CASE step'[w] = "trim"
    <2>1. /\ Trimming' = Trimming \cup {w} /\ Cleaning' = Cleaning /\ old = Excess
          /\ \A v \in Trimming : v # w
        BY <1>1, <1>10 DEF Trimming, Cleaning
    <2>2. SUFFICES ASSUME NEW T \in SUBSET Trimming'
                   PROVE  Cardinality(Listed \ ToDelete(T)') + Cardinality(T)
                              <= MaxBackups + failures + Cardinality(Cleaning)
        <3>1. TrimsSuffice'
            BY <1>1, <1>2, <2>1, <2>2 DEF TrimsSuffice
        <3> QED
            BY <1>4, <1>5, <1>6, <1>7, <1>8, <3>1
    <2>3. /\ failures \in Nat /\ MaxBackups \in Nat /\ Cardinality(Cleaning) \in Nat
          /\ IsFiniteSet(Cleaning) /\ IsFiniteSet(Listed)
        BY Sizes
    <2>4. CASE w \notin T
        <3>1. T \in SUBSET Trimming /\ ToDelete(T)' = ToDelete(T)
            BY <1>1, <2>1, <2>4 DEF ToDelete, Trimming
        <3> QED
            BY <3>1 DEF TrimsSuffice
    <2>5. CASE w \in T
        <3>1. T \subseteq Cleaning
            BY <2>1 DEF Trimming, Cleaning
        <3>2. Cardinality(T) <= Cardinality(Cleaning) /\ Cardinality(T) \in Nat
            BY <2>3, <3>1, AtMost
        <3> DEFINE left == Listed \ ToDelete(T)'
        <3>3. Listed \in SUBSET Nat
            BY ListedType
        <3>4. left \in SUBSET Listed /\ \A n \in left : n \notin Excess
            BY <2>1, <2>5 DEF ToDelete
        <3>5. \A n \in left : ~(Cardinality({m \in Listed : m > n}) >= MaxBackups)
            BY <3>4 DEF Excess
        <3> HIDE DEF left
        <3>6. Cardinality(left) <= MaxBackups /\ Cardinality(left) \in Nat
            BY <2>3, <3>3, <3>4, <3>5, FewAreNewest, AtMost
        <3> QED
            BY <2>3, <3>2, <3>6 DEF left
    <2> QED
        BY <2>4, <2>5
<1> QED
    BY <1>1, <1>9, <1>10

LEMMA DeleteSplit ==
    ASSUME FilesType, NEW w \in Writers, Delete(w)
    PROVE  \E n \in job[w].delete :
               /\ step[w] \in {"expire", "trim"}
               /\ job' = [job EXCEPT ![w].delete = @ \ {n}]
               /\ \/ dir' = RemoveAll(n) /\ failures' = failures
                  \/ dir' = dir /\ failures' = failures + 1 /\ failures < MaxFailures
               /\ UNCHANGED <<clock, step, shared, finished>>
<1>1. job[w].delete \in SUBSET (0 .. MaxClock) /\ job[w].delete # {} /\ MaxClock \in Nat
    BY BackupAssumption DEF FilesType, Job, Delete
<1>2. Min(job[w].delete) \in job[w].delete
    <2>1. job[w].delete \in SUBSET Nat
        BY <1>1
    <2> QED
        BY <1>1, <2>1, LeastElement DEF Min
<1>3. Max(job[w].delete) \in job[w].delete
    BY <1>1, GreatestElement DEF Max
<1> QED
    BY <1>2, <1>3 DEF Delete

LEMMA DeleteKeeps ==
    ASSUME FilesInv, NEW w \in Writers, Delete(w)
    PROVE  FilesInv'
<1> USE DEF FilesInv
<1>1. PICK n \in job[w].delete :
               /\ step[w] \in {"expire", "trim"}
               /\ job' = [job EXCEPT ![w].delete = @ \ {n}]
               /\ \/ dir' = RemoveAll(n) /\ failures' = failures
                  \/ dir' = dir /\ failures' = failures + 1 /\ failures < MaxFailures
               /\ UNCHANGED <<clock, step, shared, finished>>
    BY DeleteSplit
<1>2. /\ Names' \subseteq Names /\ dir' \in [Names' -> Backup] /\ \A m \in Names' : dir'[m] = dir[m]
      /\ \A m \in Names : m # n => m \in Names'
    BY <1>1 DEF FilesType, Names, RemoveAll
<1>3. /\ job' \in [Writers -> Job] /\ job'[w].delete = job[w].delete \ {n}
      /\ \A v \in Writers : job'[v].name = job[v].name
      /\ \A v \in Writers \ {w} : job'[v] = job[v]
    BY <1>1 DEF FilesType, Job
<1>4. Listed' \subseteq Listed
    BY <1>2 DEF Listed
<1>5. failures \in Nat /\ failures' >= failures /\ failures' \in 0 .. MaxFailures
    BY <1>1, BackupAssumption DEF FilesType
<1>6. FilesType'
    BY <1>1, <1>2, <1>3, <1>4, <1>5 DEF FilesType
<1>7. HandlesAreBusy'
    BY <1>1, <1>2, <1>3 DEF HandlesAreBusy
<1>8. ListsAreOld'
    BY <1>1, <1>3 DEF ListsAreOld
<1>9. BusyOwn'
    <2>1. \A v \in Writers : Busy(v)' <=> Busy(v)
        BY <1>1 DEF Busy
    <2>2. \A v \in Writers : job'[v].delete \subseteq job[v].delete
        BY <1>3
    <2>3. SUFFICES ASSUME NEW v \in Writers, Busy(v), job[v].name \notin shared
                   PROVE  Owns(v, job[v].name)'
        BY <1>1, <1>3, <2>1 DEF BusyOwn
    <2>4. Owns(v, job[v].name)
        BY <2>3 DEF BusyOwn
    <2>5. job[v].name # n
        BY <1>1, <2>4 DEF Owns
    <2> QED
        BY <1>1, <1>2, <1>3, <2>1, <2>2, <2>4, <2>5 DEF Owns
<1>10. ListedIsComplete'
    BY <1>1, <1>2, <1>4 DEF ListedIsComplete, Listed
<1>11. Trimming' = Trimming /\ Cleaning' = Cleaning
    BY <1>1 DEF Trimming, Cleaning
<1>12. TrimsSuffice'
    <2>1. SUFFICES ASSUME NEW T \in SUBSET Trimming
                   PROVE  Cardinality(Listed' \ ToDelete(T)') + Cardinality(T)
                              <= MaxBackups + failures' + Cardinality(Cleaning)
        BY <1>11 DEF TrimsSuffice
    <2>2. Cardinality(Listed \ ToDelete(T)) + Cardinality(T)
              <= MaxBackups + failures + Cardinality(Cleaning)
        BY DEF TrimsSuffice
    <2>3. /\ IsFiniteSet(Listed \ ToDelete(T)) /\ MaxBackups \in Nat
          /\ Cardinality(Cleaning) \in Nat /\ Cardinality(T) \in Nat
        BY Sizes DEF Trimming
    <2>4. ToDelete(T) \subseteq ToDelete(T)' \cup {n}
        BY <1>3 DEF ToDelete, Trimming
    <2>5. CASE dir' = RemoveAll(n)
        <3>1. n \notin Listed'
            BY <2>5 DEF Listed, Names, RemoveAll
        <3>2. Listed' \ ToDelete(T)' \subseteq Listed \ ToDelete(T)
            BY <1>4, <2>4, <3>1
        <3>3. /\ Cardinality(Listed' \ ToDelete(T)') <= Cardinality(Listed \ ToDelete(T))
              /\ Cardinality(Listed' \ ToDelete(T)') \in Nat /\ Cardinality(Listed \ ToDelete(T)) \in Nat
            BY <2>3, <3>2, AtMost
        <3> QED
            BY <1>5, <2>2, <2>3, <3>3
    <2>6. CASE failures' = failures + 1
        <3>1. Listed' \ ToDelete(T)' \subseteq (Listed \ ToDelete(T)) \cup {n}
            BY <1>4, <2>4
        <3>2. /\ Cardinality(Listed' \ ToDelete(T)') <= Cardinality(Listed \ ToDelete(T)) + 1
              /\ Cardinality(Listed' \ ToDelete(T)') \in Nat /\ Cardinality(Listed \ ToDelete(T)) \in Nat
            BY <2>3, <3>1, AtMostOneMore
        <3> QED
            BY <1>5, <2>2, <2>3, <2>6, <3>2
    <2> QED
        BY <1>1, <2>5, <2>6
<1> QED
    BY <1>6, <1>7, <1>8, <1>9, <1>10, <1>12

LEMMA ReturnKeeps ==
    ASSUME FilesInv, NEW w \in Writers, Return(w)
    PROVE  FilesInv'
<1> USE DEF FilesInv
<1>1. /\ step[w] = "trim" /\ job[w].delete = {} /\ UNCHANGED <<clock, dir, shared, finished, failures>>
      /\ step' \in [Writers -> Steps] /\ step'[w] = "done"
      /\ job' \in [Writers -> Job] /\ job'[w].delete = {}
      /\ \A v \in Writers \ {w} : step'[v] = step[v] /\ job'[v] = job[v]
    <2>1. NoJob \in Job /\ NoJob.delete = {}
        BY BackupAssumption DEF NoJob, Job
    <2> QED
        BY <2>1 DEF FilesType, Return, Finish, Go, Steps
<1>2. Names' = Names /\ Listed' = Listed
    BY <1>1 DEF Names, Listed
<1>3. FilesType'
    BY <1>1, <1>2 DEF FilesType
<1>4. HandlesAreBusy'
    BY <1>1, <1>2 DEF HandlesAreBusy
<1>5. ListsAreOld'
    BY <1>1 DEF ListsAreOld
<1>6. BusyOwn'
    <2>1. \A v \in Writers : Busy(v)' <=> Busy(v) /\ v # w
        BY <1>1 DEF Busy
    <2>2. \A v \in Writers : job'[v].delete \subseteq job[v].delete
        BY <1>1
    <2> QED
        BY <1>1, <1>2, <2>1, <2>2 DEF BusyOwn, Owns
<1>7. ListedIsComplete'
    BY <1>1, <1>2 DEF ListedIsComplete
<1>8. TrimsSuffice'
    <2>1. /\ Trimming' = Trimming \ {w} /\ Cleaning' = Cleaning \ {w}
          /\ w \in Trimming /\ w \in Cleaning
        BY <1>1 DEF Trimming, Cleaning
    <2>2. SUFFICES ASSUME NEW T \in SUBSET (Trimming \ {w})
                   PROVE  Cardinality(Listed \ ToDelete(T)') + Cardinality(T)
                              <= MaxBackups + failures + Cardinality(Cleaning')
        BY <1>1, <1>2, <2>1 DEF TrimsSuffice
    <2> DEFINE U == T \cup {w}
    <2>3. /\ IsFiniteSet(T) /\ Cardinality(T) \in Nat /\ IsFiniteSet(Cleaning)
          /\ Cardinality(Cleaning) \in Nat /\ MaxBackups \in Nat /\ failures \in Nat
          /\ Cardinality(Listed \ ToDelete(U)) \in Nat
        BY Sizes DEF Trimming
    <2>4. Cardinality(U) = Cardinality(T) + 1 /\ Cardinality(Cleaning') = Cardinality(Cleaning) - 1
        BY <2>1, <2>3, FS_AddElement, FS_RemoveElement
    <2>5. ToDelete(T)' = ToDelete(U)
        BY <1>1 DEF ToDelete, Trimming
    <2>6. Cardinality(Listed \ ToDelete(U)) + Cardinality(U)
              <= MaxBackups + failures + Cardinality(Cleaning)
        BY <2>1 DEF TrimsSuffice
    <2> QED
        BY <2>3, <2>4, <2>5, <2>6
<1> QED
    BY <1>3, <1>4, <1>5, <1>6, <1>7, <1>8

LEMMA ReadyKeeps ==
    ASSUME FilesInv, NEW w \in Writers, step[w] = "done", Go(w, "idle"),
           UNCHANGED <<clock, dir, job, shared, finished, failures>>
    PROVE  FilesInv'
<1> USE DEF FilesInv
<1>1. /\ step' \in [Writers -> Steps] /\ step'[w] = "idle"
      /\ \A v \in Writers \ {w} : step'[v] = step[v]
    BY DEF Go, FilesType, Steps
<1>2. Names' = Names /\ Listed' = Listed
    BY DEF Names, Listed
<1>3. FilesType'
    BY <1>1, <1>2 DEF FilesType
<1>4. HandlesAreBusy'
    BY <1>1, <1>2 DEF HandlesAreBusy
<1>5. ListsAreOld'
    BY <1>1 DEF ListsAreOld
<1>6. BusyOwn'
    <2>1. \A v \in Writers : Busy(v)' <=> Busy(v)
        BY <1>1 DEF Busy
    <2> QED
        BY <1>1, <1>2, <2>1 DEF BusyOwn, Owns
<1>7. ListedIsComplete'
    BY <1>2 DEF ListedIsComplete
<1>8. TrimsSuffice'
    <2>1. Trimming' = Trimming /\ Cleaning' = Cleaning
        BY <1>1 DEF Trimming, Cleaning
    <2>2. failures' >= failures
        BY Sizes
    <2> QED
        BY <1>2, <1>3, <2>1, <2>2, TrimsSufficeStable
<1> QED
    BY <1>3, <1>4, <1>5, <1>6, <1>7, <1>8

LEMMA DeleteBackupKeeps ==
    ASSUME FilesInv, NEW n \in Names, DeleteBackup(n)
    PROVE  FilesInv'
<1> USE DEF FilesInv
<1>1. n \in Listed /\ dir' = RemoveAll(n) /\ UNCHANGED <<clock, step, job, shared, finished, failures>>
    BY DEF DeleteBackup
<1>2. /\ Names' = Names \ {n} /\ dir' \in [Names' -> Backup] /\ \A m \in Names' : dir'[m] = dir[m]
    BY <1>1 DEF FilesType, Names, RemoveAll
<1>3. Listed' \subseteq Listed
    BY <1>2 DEF Listed
<1>4. FilesType'
    BY <1>1, <1>2, <1>3 DEF FilesType
<1>5. HandlesAreBusy' /\ ListsAreOld' /\ ListedIsComplete'
    BY <1>1, <1>2, <1>3 DEF HandlesAreBusy, ListsAreOld, ListedIsComplete, Listed
<1>6. BusyOwn'
    <2>1. SUFFICES ASSUME NEW v \in Writers, Busy(v), job[v].name \notin shared
                   PROVE  Owns(v, job[v].name)'
        BY <1>1 DEF BusyOwn, Busy
    <2>2. Owns(v, job[v].name)
        BY <2>1 DEF BusyOwn
    <2>3. job[v].name # n
        BY <1>1, <2>2 DEF Owns, Listed
    <2> QED
        BY <1>1, <1>2, <2>2, <2>3 DEF Owns, Busy
<1>7. TrimsSuffice'
    <2>1. Trimming' = Trimming /\ Cleaning' = Cleaning
        BY <1>1 DEF Trimming, Cleaning
    <2>2. failures' >= failures
        BY <1>1, Sizes
    <2> QED
        BY <1>1, <1>3, <1>4, <2>1, <2>2, TrimsSufficeStable
<1> QED
    BY <1>4, <1>5, <1>6, <1>7

LEMMA SecondKeeps == ASSUME FilesInv, Second PROVE FilesInv'
<1> USE DEF FilesInv
<1>1. /\ clock \in Nat /\ clock' = clock + 1 /\ clock' \in 0 .. MaxClock
      /\ UNCHANGED <<dir, step, job, shared, finished, failures>>
    BY BackupAssumption DEF Second, FilesType, files
<1>2. Names' = Names /\ Listed' = Listed
    BY <1>1 DEF Names, Listed
<1>3. FilesType'
    <2>1. 0 .. clock \subseteq 0 .. clock'
        BY <1>1
    <2> QED
        BY <1>1, <1>2, <2>1 DEF FilesType
<1>4. HandlesAreBusy' /\ ListedIsComplete'
    BY <1>1, <1>2 DEF HandlesAreBusy, ListedIsComplete
<1>5. ListsAreOld'
    <2> SUFFICES ASSUME NEW v \in Writers, NEW k \in job[v].delete
                 PROVE  /\ k < clock'
                        /\ step[v] \in {"expire", "trim"}
                        /\ step[v] = "expire" => clock' - k > Retention
                        /\ step[v] = "trim" => Cardinality({m \in finished : m > k}) >= MaxBackups
        BY <1>1 DEF ListsAreOld
    <2>1. /\ k < clock /\ step[v] \in {"expire", "trim"}
          /\ step[v] = "expire" => clock - k > Retention
          /\ step[v] = "trim" => Cardinality({m \in finished : m > k}) >= MaxBackups
        BY DEF ListsAreOld
    <2>2. k \in Nat
        BY BackupAssumption DEF FilesType, Job
    <2>3. k < clock' /\ (step[v] = "expire" => clock' - k > Retention)
        BY <1>1, <2>1, <2>2, BackupAssumption
    <2> QED
        BY <2>1, <2>3
<1>6. BusyOwn'
    <2>1. \A v \in Writers : Busy(v)' <=> Busy(v)
        BY <1>1 DEF Busy
    <2>2. \A v \in Writers : Busy(v) => job[v].name \in Nat /\ job[v].name <= clock'
        BY <1>1, BackupAssumption DEF BusyOwn, FilesType, Job
    <2> QED
        BY <1>1, <1>2, <2>1, <2>2 DEF BusyOwn, Owns
<1>7. TrimsSuffice'
    BY <1>1, <1>2 DEF TrimsSuffice, ToDelete, Trimming, Cleaning
<1> QED
    BY <1>3, <1>4, <1>5, <1>6, <1>7

LEMMA FilesCrashKeeps == ASSUME FilesInv, FilesCrash PROVE FilesInv'
<1> USE DEF FilesInv
<1>1. /\ failures' = failures + Cardinality(Active) /\ failures' <= MaxFailures
      /\ Cardinality(Active) \in Nat /\ failures \in Nat /\ IsFiniteSet(Active)
      /\ UNCHANGED <<clock, shared, finished>>
    <2>1. Active \in SUBSET Writers
        BY DEF Active
    <2> QED
        BY <2>1, Sizes DEF FilesCrash
<1>2. /\ Names' = Names /\ dir' \in [Names -> Backup]
      /\ \A n \in Names : /\ dir'[n].writers = {} /\ dir'[n].meta = dir[n].meta
                          /\ dir'[n].data = dir[n].data
    <2>1. dir' = [n \in Names |-> [dir[n] EXCEPT !.writers = {}]] /\ dir \in [Names -> Backup]
        BY DEF FilesCrash, FilesType
    <2> QED
        BY <2>1 DEF Names, Backup
<1>3. /\ step' \in [Writers -> Steps] /\ job' \in [Writers -> Job]
      /\ \A w \in Writers : step'[w] = "idle" /\ job'[w].delete = {}
    BY BackupAssumption DEF FilesCrash, Steps, Job, NoJob
<1>4. Listed' = Listed
    BY <1>2 DEF Listed
<1>5. FilesType'
    BY <1>1, <1>2, <1>3, <1>4, BackupAssumption DEF FilesType
<1>6. HandlesAreBusy' /\ ListsAreOld' /\ BusyOwn'
    BY <1>2, <1>3 DEF HandlesAreBusy, ListsAreOld, BusyOwn, Busy
<1>7. ListedIsComplete'
    BY <1>1, <1>2, <1>4 DEF ListedIsComplete, Listed
<1>8. TrimsSuffice'
    <2>1. Trimming' = {} /\ Cleaning' = {}
        BY <1>3 DEF Trimming, Cleaning
    <2>2. SUFFICES Cardinality(Listed \ ToDelete({})') <= MaxBackups + failures'
        <3>1. \A T \in SUBSET Trimming' : T = {}
            BY <2>1
        <3>2. Cardinality(Listed \ ToDelete({})') \in Nat /\ MaxBackups \in Nat /\ failures' \in Nat
            BY <1>1, Sizes
        <3> QED
            BY <1>4, <2>1, <2>2, <3>1, <3>2, FS_EmptySet DEF TrimsSuffice
    <2>3. Cardinality(Listed \ ToDelete({})) + Cardinality({})
              <= MaxBackups + failures + Cardinality(Cleaning)
        BY DEF TrimsSuffice
    <2>4. Cleaning \subseteq Active
        BY DEF Cleaning, Active
    <2>5. Cardinality(Cleaning) <= Cardinality(Active) /\ Cardinality(Cleaning) \in Nat
        BY <1>1, <2>4, AtMost
    <2>6. ToDelete({})' = ToDelete({})
        BY DEF ToDelete
    <2>7. Cardinality(Listed \ ToDelete({})) \in Nat /\ MaxBackups \in Nat
        BY Sizes
    <2> QED
        BY <1>1, <2>3, <2>5, <2>6, <2>7, FS_EmptySet
<1> QED
    BY <1>5, <1>6, <1>7, <1>8

LEMMA FilesInvNext == FilesInv /\ FilesNext => FilesInv'
<1> SUFFICES ASSUME FilesInv, FilesNext PROVE FilesInv'
    OBVIOUS
<1>1. ASSUME NEW w \in Writers, CreateBackupStep(w) PROVE FilesInv'
    BY <1>1, CopyKeeps, DescribedKeeps, UndescribedKeeps, ListKeeps, DeleteKeeps, ReturnKeeps
       DEF CreateBackupStep
<1>2. CASE UNCHANGED <<clock, files>>
    <2>1. UNCHANGED <<clock, dir, step, job, shared, finished, failures>>
        BY <1>2 DEF files
    <2>2. Names' = Names /\ Listed' = Listed
        BY <2>1 DEF Names, Listed
    <2>3. FilesType' /\ HandlesAreBusy' /\ ListsAreOld' /\ ListedIsComplete'
        BY <2>1, <2>2 DEF FilesInv, FilesType, HandlesAreBusy, ListsAreOld, ListedIsComplete
    <2>4. BusyOwn'
        BY <2>1, <2>2 DEF FilesInv, BusyOwn, Owns, Busy
    <2>5. TrimsSuffice'
        BY <2>1, <2>2 DEF FilesInv, TrimsSuffice, ToDelete, Trimming, Cleaning
    <2> QED
        BY <2>3, <2>4, <2>5 DEF FilesInv
<1> QED
    BY <1>1, <1>2, BeginBackupKeeps, ReadyKeeps, DeleteBackupKeeps, SecondKeeps, FilesCrashKeeps
       DEF FilesNext

-----------------------------------------------------------------------------
(* The manager.                                                            *)

LEMMA NextIsFilesNext == [Next]_vars => FilesNext
<1> SUFFICES ASSUME [Next]_vars PROVE FilesNext
    OBVIOUS
<1> USE WritersAssumption
<1>1. ASSUME NEW c \in Callers, CreateBackup(c) PROVE FilesNext
    BY <1>1 DEF CreateBackup, FilesNext
<1>2. ASSUME NEW w \in Writers, FileStep(w) PROVE FilesNext
    BY <1>2 DEF FileStep, FilesNext
<1>3. ASSUME NEW l \in Loops, EnableAutoBackup(l) \/ LoopStep(l) \/ Fire(l) PROVE FilesNext
    <2>1. CASE LoopBackup(l)
        BY <2>1 DEF LoopBackup, FilesNext
    <2>2. CASE LoopReset(l)
        BY <2>2 DEF LoopReset, FilesNext
    <2>3. CASE EnableAutoBackup(l) \/ LoopSelect(l) \/ LoopStop(l) \/ LoopTick(l) \/ Fire(l)
        BY <2>3 DEF EnableAutoBackup, LoopSelect, LoopStop, LoopTick, Fire, FilesNext
    <2> QED
        BY <1>3, <2>1, <2>2, <2>3 DEF LoopStep
<1>4. CASE DisableAutoBackup \/ UNCHANGED vars
    BY <1>4 DEF DisableAutoBackup, vars, FilesNext
<1>5. CASE Crash \/ (Second /\ UNCHANGED <<manager, timers, loops>>)
    BY <1>5 DEF Crash, FilesNext
<1>6. ASSUME NEW n \in Names, DeleteBackup(n) PROVE FilesNext
    BY <1>6 DEF FilesNext
<1> QED
    BY <1>1, <1>2, <1>3, <1>4, <1>5, <1>6 DEF Next

ManagerType ==
    /\ autoBackup \in BOOLEAN /\ backupTimer \in Loops \cup {NoTimer}
    /\ stopChan \in 1 .. MaxStops + 1
    /\ loop \in [Loops -> {"unborn", "start", "waiting", "backup", "gone"}]
ManagerInv == ManagerType /\ TimersAreMade

LEMMA ManagerInvInit == Init => ManagerInv
<1> SUFFICES ASSUME Init PROVE ManagerInv
    OBVIOUS
<1>1. ManagerType
    <2>1. 1 \in 1 .. MaxStops + 1
        BY BoundsAssumption
    <2> QED
        BY <2>1 DEF Init, ManagerType
<1>2. TimersAreMade
    BY DEF Init, manager, timers, TimersAreMade, NoTimer, Loops
<1> QED
    BY <1>1, <1>2 DEF ManagerInv

LEMMA ManagerInvNext == ManagerInv /\ [Next]_vars => ManagerInv'
<1> SUFFICES ASSUME ManagerInv, [Next]_vars PROVE ManagerInv'
    OBVIOUS
<1> USE BoundsAssumption DEF ManagerInv, manager, timers, loops
<1>1. NoTimer \notin Loops
    BY DEF NoTimer, Loops
<1>2. CASE UNCHANGED <<manager, timers, loops>>
    BY <1>2 DEF ManagerType, TimersAreMade
<1>3. ASSUME NEW l \in Loops, EnableAutoBackup(l) PROVE ManagerInv'
    BY <1>1, <1>3 DEF EnableAutoBackup, ManagerType, TimersAreMade
<1>4. ASSUME NEW l \in Loops, LoopStep(l) \/ Fire(l) PROVE ManagerInv'
    <2>1. CASE LoopSelect(l) \/ LoopStop(l)
        BY <2>1 DEF LoopSelect, LoopStop, ManagerType, TimersAreMade
    <2>2. CASE LoopTick(l)
        BY <2>2 DEF LoopTick, ManagerType, TimersAreMade
    <2>3. CASE LoopBackup(l)
        BY <1>2, <2>3 DEF LoopBackup
    <2>4. CASE LoopReset(l)
        BY <1>1, <2>4 DEF LoopReset, ManagerType, TimersAreMade
    <2>5. CASE Fire(l)
        BY <2>5 DEF Fire, ManagerType, TimersAreMade
    <2> QED
        BY <1>4, <2>1, <2>2, <2>3, <2>4, <2>5 DEF LoopStep
<1>5. CASE DisableAutoBackup
    <2>1. ManagerType'
        <3>1. stopChan' \in 1 .. MaxStops + 1
            BY <1>5 DEF DisableAutoBackup, ManagerType
        <3>2. autoBackup' = FALSE /\ backupTimer' = backupTimer /\ loop' = loop
            BY <1>5 DEF DisableAutoBackup
        <3> QED
            BY <3>1, <3>2 DEF ManagerType
    <2>2. TimersAreMade'
        BY <1>5 DEF DisableAutoBackup, TimersAreMade
    <2> QED
        BY <2>1, <2>2
<1>6. CASE Crash
    BY <1>1, <1>6 DEF Crash, ManagerType, TimersAreMade
<1> QED
    BY <1>2, <1>3, <1>4, <1>5, <1>6 DEF Next, vars, CreateBackup, FileStep

-----------------------------------------------------------------------------
IInv == FilesInv /\ ManagerInv

LEMMA IInvCorrect == Spec => []IInv
<1>1. Init => IInv
    BY FilesInvInit, ManagerInvInit DEF Init, IInv
<1>2. IInv /\ [Next]_vars => IInv'
    BY NextIsFilesNext, FilesInvNext, ManagerInvNext DEF IInv
<1> QED
    BY <1>1, <1>2, PTL DEF Spec

(* Every variable of BackupManager keeps its type, and no timer both runs  *)
(* and has ticked.                                                         *)
THEOREM TypeCorrect == Spec => []TypeOK
<1>1. IInv => TypeOK
    <2> SUFFICES ASSUME IInv PROVE TypeOK
        OBVIOUS
    <2> USE DEF IInv, FilesInv, ManagerInv
    <2>1. /\ clock \in 0 .. MaxClock /\ Names \subseteq 0 .. MaxClock /\ step \in [Writers -> Steps]
          /\ shared \subseteq 0 .. clock /\ Listed \subseteq finished /\ failures \in 0 .. MaxFailures
        BY BackupAssumption DEF FilesType
    <2>2. \A n \in Names : /\ dir[n].data \in {"partial", "whole", "mixed"}
                           /\ dir[n].meta \in BOOLEAN
                           /\ dir[n].writers \subseteq {w \in Writers : step[w] = "copy"}
        BY DEF FilesType, Backup, HandlesAreBusy
    <2> QED
        BY <2>1, <2>2 DEF TypeOK, Steps, ManagerType, TimersAreMade
<1> QED
    BY <1>1, IInvCorrect, PTL

(* The data file of every listed backup is whole, whatever overlaps, fails *)
(* or dies, as long as no two calls of CreateBackup used its name.         *)
THEOREM ListedIsCompleteCorrect == Spec => []ListedIsComplete
<1>1. IInv => ListedIsComplete
    BY DEF IInv, FilesInv
<1> QED
    BY <1>1, IInvCorrect, PTL

(* However many cleanups overlap and whatever fails, with nobody in        *)
(* CreateBackup there is at most one backup more than MaxBackups for each  *)
(* attempt that did not end well.                                          *)
THEOREM CountBoundedCorrect == Spec => []CountBounded
<1>1. IInv => CountBounded
    <2> SUFFICES ASSUME IInv, Active = {} PROVE Cardinality(Listed) <= MaxBackups + failures
        BY DEF CountBounded
    <2>1. FilesType /\ TrimsSuffice
        BY DEF IInv, FilesInv
    <2>2. Cleaning = {}
        BY DEF Cleaning, Active
    <2>3. Cardinality(Listed \ ToDelete({})) + Cardinality({})
              <= MaxBackups + failures + Cardinality(Cleaning)
        BY <2>1 DEF TrimsSuffice
    <2>4. ToDelete({}) = {}
        BY DEF ToDelete
    <2>5. Listed \ ToDelete({}) = Listed
        BY <2>4
    <2>6. Cardinality(Listed \ ToDelete({})) \in Nat /\ MaxBackups \in Nat /\ failures \in Nat
        BY <2>1, Sizes
    <2> QED
        BY <2>2, <2>3, <2>5, <2>6, FS_EmptySet
<1> QED
    BY <1>1, IInvCorrect, PTL

(* A backup disappears only by hand, when it has expired, or when there    *)
(* are MaxBackups newer ones that ended: a cleanup that works on an old    *)
(* list, beside any other, deletes no other.                               *)
THEOREM OnlyTheOldAreDeletedCorrect == Spec => OnlyTheOldAreDeleted
<1>1. IInv /\ [Next]_vars =>
          [\A n \in Listed \ shared :
               n \in Listed' \/ DeleteBackup(n) \/ clock - n > Retention
                             \/ Cardinality({m \in finished : m > n}) >= MaxBackups]_vars
    <2> SUFFICES ASSUME IInv, [Next]_vars, NEW n \in Listed, n \notin shared, n \notin Listed'
                 PROVE  \/ DeleteBackup(n) \/ clock - n > Retention
                        \/ Cardinality({m \in finished : m > n}) >= MaxBackups
        OBVIOUS
    <2> USE DEF IInv, FilesInv
    <2>1. FilesNext
        BY NextIsFilesNext
    <2>2. n \in Names /\ dir[n].meta
        BY DEF Listed
    <2>3. n \notin Names' \/ ~dir'[n].meta
        BY DEF Listed
    <2>4. ASSUME NEW w \in Writers, Delete(w)
          PROVE  \/ clock - n > Retention
                 \/ Cardinality({m \in finished : m > n}) >= MaxBackups
        <3>1. PICK k \in job[w].delete :
                  step[w] \in {"expire", "trim"} /\ (dir' = RemoveAll(k) \/ dir' = dir)
            BY <2>4, DeleteSplit
        <3>2. n = k
            BY <2>2, <2>3, <3>1 DEF Names, RemoveAll
        <3>3. /\ step[w] = "expire" => clock - n > Retention
              /\ step[w] = "trim" => Cardinality({m \in finished : m > n}) >= MaxBackups
            BY <3>1, <3>2 DEF ListsAreOld
        <3> QED
            BY <3>1, <3>3
    <2>5. ASSUME NEW w \in Writers, Busy(w), job[w].name = n PROVE FALSE
        BY <2>2, <2>5 DEF BusyOwn, Owns
    <2>6. ASSUME dir' = dir PROVE FALSE
        BY <2>2, <2>3, <2>6 DEF Names
    <2>7. ASSUME NEW w \in Writers, BeginBackup(w) PROVE FALSE
        <3>1. CASE clock \in Names
            BY <2>2, <2>3, <2>7, <3>1 DEF BeginBackup, FilesType, Names, Backup
        <3>2. CASE clock \notin Names
            BY <2>2, <2>3, <2>7, <3>2 DEF BeginBackup, Put, Names
        <3> QED
            BY <3>1, <3>2
    <2>8. ASSUME NEW w \in Writers, Copy(w) \/ CopyFails(w) PROVE FALSE
        <3>1. job[w].name # n
            BY <2>5, <2>8 DEF Copy, CopyFails, Busy
        <3>2. Names' = Names /\ dir'[n] = dir[n]
            <4>1. CASE Copy(w)
                BY <2>2, <3>1, <4>1 DEF Copy, Names, FilesType
            <4>2. CASE CopyFails(w)
                BY <2>2, <3>1, <4>2 DEF CopyFails, Names, FilesType
            <4> QED
                BY <2>8, <4>1, <4>2
        <3> QED
            BY <2>2, <2>3, <3>2
    <2>9. ASSUME NEW w \in Writers, Describe(w) \/ DescribeFails(w) PROVE FALSE
        <3>1. job[w].name # n
            BY <2>5, <2>9 DEF Describe, DescribeFails, Busy
        <3>2. Names' = Names /\ dir'[n] = dir[n]
            BY <2>2, <2>9, <3>1 DEF Describe, DescribeFails, Names, FilesType
        <3> QED
            BY <2>2, <2>3, <3>2
    <2>10. ASSUME NEW w \in Writers, CreateBackupStep(w), ~Delete(w) PROVE FALSE
        BY <2>6, <2>8, <2>9, <2>10 DEF CreateBackupStep, ListExpired, ListExcess, Return
    <2>11. ASSUME NEW m \in Names, DeleteBackup(m) PROVE DeleteBackup(n)
        BY <2>2, <2>3, <2>11 DEF DeleteBackup, RemoveAll, Names
    <2>12. CASE FilesCrash
        BY <2>2, <2>3, <2>12 DEF FilesCrash, FilesType, Names, Backup
    <2>13. CASE Second \/ UNCHANGED <<clock, files>>
        BY <2>6, <2>13 DEF Second, files
    <2> QED
        BY <2>1, <2>4, <2>6, <2>7, <2>10, <2>11, <2>12, <2>13 DEF FilesNext
<1> QED
    BY <1>1, IInvCorrect, PTL DEF Spec, OnlyTheOldAreDeleted
=============================================================================
