---------------------------- MODULE BackupFiles ----------------------------
(***************************************************************************)
(* The files of storage/backup/backup.go: a directory for each backup,     *)
(* named by the second it began in, with data.backup and metadata.json in  *)
(* it.  CreateBackup holds no lock: its calls of the file system and of    *)
(* Badger are a step each, and those of several goroutines interleave.     *)
(*                                                                         *)
(* What the database holds and how many vectors the metadata counts is     *)
(* left out; a data file is whole when it is what one Backup wrote.        *)
(***************************************************************************)
EXTENDS Naturals, FiniteSets, FiniteSetsExt

CONSTANTS
    Writers,        \* the goroutines that may be inside CreateBackup
    MaxBackups,     \* maxBackups
    Retention,      \* retention, in seconds
    MaxClock, MaxFailures   \* bounds

ASSUME BackupAssumption ==
    /\ MaxBackups \in Nat \ {0} /\ Retention \in Nat
    /\ MaxClock \in Nat /\ MaxFailures \in Nat
    /\ IsFiniteSet(Writers)

NoJob == [name |-> 0, delete |-> {}]

VARIABLES
    clock,          \* the second of time.Now
    dir,            \* the backups there are: the data file is "partial",
                    \* "whole" or "mixed" of two; whether the metadata can be
                    \* read; and who has yet to write the data file
    step,           \* where in CreateBackup a goroutine is
    job,            \* the name it uses and the names it has yet to delete
    shared,         \* history: the names that two CreateBackup have used
    finished,       \* history: the names that ever had their metadata
    failures        \* history: the backups and deletions that did not end well

files == <<dir, step, job, shared, finished, failures>>

FilesInit ==
    /\ clock = 0
    /\ dir = [n \in {} |-> {}]
    /\ step = [w \in Writers |-> "idle"]
    /\ job = [w \in Writers |-> NoJob]
    /\ shared = {} /\ finished = {} /\ failures = 0

Names == DOMAIN dir

(* ListBackups skips a directory whose metadata cannot be read.            *)
Listed == {n \in Names : dir[n].meta}

Go(w, next) == step' = [step EXCEPT ![w] = next]
Finish(w) == Go(w, "done") /\ job' = [job EXCEPT ![w] = NoJob]
Put(n, backup) == [m \in Names \cup {n} |-> IF m = n THEN backup ELSE dir[m]]
RemoveAll(n) == [m \in Names \ {n} |-> dir[m]]
Active == {w \in Writers : step[w] \notin {"idle", "done"}}

-----------------------------------------------------------------------------
(* CreateBackup.                                                           *)

(* Mutant: the metadata is written first.                                  *)
BeginBackupDescribed(w) ==
    /\ dir' = IF clock \in Names
              THEN [dir EXCEPT ![clock].data = "partial", ![clock].writers = @ \cup {w}]
              ELSE Put(clock, [data |-> "partial", meta |-> TRUE, writers |-> {w}])
    /\ shared' = IF clock \in Names THEN shared \cup {clock} ELSE shared
    /\ job' = [job EXCEPT ![w] = [name |-> clock, delete |-> {}]]
    /\ Go(w, "copy")
    /\ UNCHANGED <<clock, finished, failures>>

(* MkdirAll takes a directory that is there already, and os.Create empties *)
(* its file.                                                               *)
BeginBackup(w) ==
    /\ dir' = IF clock \in Names
              THEN [dir EXCEPT ![clock].data = "partial", ![clock].writers = @ \cup {w}]
              ELSE Put(clock, [data |-> "partial", meta |-> FALSE, writers |-> {w}])
    /\ shared' = IF clock \in Names THEN shared \cup {clock} ELSE shared
    /\ job' = [job EXCEPT ![w] = [name |-> clock, delete |-> {}]]
    /\ Go(w, "copy")
    /\ UNCHANGED <<clock, finished, failures>>

(* A file that was removed, or removed and made anew, is written to nobody.*)
IsMine(w) == job[w].name \in Names /\ w \in dir[job[w].name].writers

(* Each handle writes from the start of the file.                          *)
Copy(w) ==
    /\ step[w] = "copy"
    /\ LET n == job[w].name
       IN  IF IsMine(w)
           THEN \E data \in {"whole"} \cup (IF n \in shared THEN {"mixed"} ELSE {}) :
                    dir' = [dir EXCEPT ![n].data = data, ![n].writers = @ \ {w}]
           ELSE UNCHANGED dir
    /\ Go(w, "describe")
    /\ UNCHANGED <<clock, job, shared, finished, failures>>

(* Mutant: an error of Backup is not looked at.                            *)
CopyFailsUnseen(w) ==
    /\ step[w] = "copy" /\ failures < MaxFailures
    /\ dir' = IF IsMine(w) THEN [dir EXCEPT ![job[w].name].writers = @ \ {w}] ELSE dir
    /\ Go(w, "describe") /\ failures' = failures + 1
    /\ UNCHANGED <<clock, job, shared, finished>>

(* The error is returned, and what is there of the backup stays; the part  *)
(* that was written may lie over the bytes of another one.                 *)
CopyFails(w) ==
    /\ step[w] = "copy" /\ failures < MaxFailures
    /\ LET n == job[w].name
       IN  IF IsMine(w)
           THEN \E data \in {dir[n].data, "partial"} :
                    dir' = [dir EXCEPT ![n].data = data, ![n].writers = @ \ {w}]
           ELSE UNCHANGED dir
    /\ Finish(w) /\ failures' = failures + 1
    /\ UNCHANGED <<clock, shared, finished>>

(* Without its directory the metadata cannot be written.                   *)
Describe(w) ==
    /\ step[w] = "describe"
    /\ LET n == job[w].name
       IN  IF n \in Names
           THEN /\ dir' = [dir EXCEPT ![n].meta = TRUE]
                /\ finished' = finished \cup {n}
                /\ Go(w, "list")
                /\ UNCHANGED job
           ELSE Finish(w) /\ UNCHANGED <<dir, finished>>
    /\ UNCHANGED <<clock, shared, failures>>

DescribeFails(w) ==
    /\ step[w] = "describe" /\ failures < MaxFailures
    /\ LET n == job[w].name
       IN  dir' = IF n \in Names THEN [dir EXCEPT ![n].meta = FALSE] ELSE dir
    /\ Finish(w) /\ failures' = failures + 1
    /\ UNCHANGED <<clock, shared, finished>>

-----------------------------------------------------------------------------
(* cleanupOldBackups.                                                      *)

Expired == {n \in Listed : clock - n > Retention}

(* Mutant: one backup too many is kept.                                    *)
ExcessOffByOne == {n \in Listed : Cardinality({m \in Listed : m > n}) > MaxBackups}

(* The oldest of the listed backups, as many as there are too many.        *)
Excess == {n \in Listed : Cardinality({m \in Listed : m > n}) >= MaxBackups}

(* Mutant: the list is deleted from its newest end.                        *)
ListExcessNewestFirst(w) ==
    /\ step[w] = "expire" /\ job[w].delete = {}
    /\ job' = [job EXCEPT ![w].delete = {n \in Listed : Cardinality({m \in Listed : m < n}) >= MaxBackups}]
    /\ Go(w, "trim")
    /\ UNCHANGED <<clock, dir, shared, finished, failures>>

ListExpired(w) ==
    /\ step[w] = "list"
    /\ job' = [job EXCEPT ![w].delete = Expired]
    /\ Go(w, "expire")
    /\ UNCHANGED <<clock, dir, shared, finished, failures>>

ListExcess(w) ==
    /\ step[w] = "expire" /\ job[w].delete = {}
    /\ job' = [job EXCEPT ![w].delete = Excess]
    /\ Go(w, "trim")
    /\ UNCHANGED <<clock, dir, shared, finished, failures>>

(* The expired are deleted from the newest on, the excess from the oldest; *)
(* a deletion that fails is logged and passed over.                        *)
Delete(w) ==
    /\ step[w] \in {"expire", "trim"} /\ job[w].delete # {}
    /\ LET n == IF step[w] = "expire" THEN Max(job[w].delete) ELSE Min(job[w].delete)
       IN  /\ job' = [job EXCEPT ![w].delete = @ \ {n}]
           /\ \/ dir' = RemoveAll(n) /\ UNCHANGED failures
              \/ failures < MaxFailures /\ failures' = failures + 1 /\ UNCHANGED dir
    /\ UNCHANGED <<clock, step, shared, finished>>

Return(w) ==
    /\ step[w] = "trim" /\ job[w].delete = {}
    /\ Finish(w)
    /\ UNCHANGED <<clock, dir, shared, finished, failures>>

CreateBackupStep(w) ==
    \/ Copy(w) \/ CopyFails(w) \/ Describe(w) \/ DescribeFails(w)
    \/ ListExpired(w) \/ ListExcess(w) \/ Delete(w) \/ Return(w)

-----------------------------------------------------------------------------
(* Around it.                                                              *)

(* DeleteBackup of a name that ListBackups returned.                       *)
DeleteBackup(n) ==
    /\ n \in Listed
    /\ dir' = RemoveAll(n)
    /\ UNCHANGED <<clock, step, job, shared, finished, failures>>

Second ==
    /\ clock < MaxClock
    /\ clock' = clock + 1
    /\ UNCHANGED files

(* The process dies; the files stay as they are.                           *)
FilesCrash ==
    /\ failures + Cardinality(Active) <= MaxFailures
    /\ failures' = failures + Cardinality(Active)
    /\ dir' = [n \in Names |-> [dir[n] EXCEPT !.writers = {}]]
    /\ step' = [w \in Writers |-> "idle"]
    /\ job' = [w \in Writers |-> NoJob]
    /\ UNCHANGED <<clock, shared, finished>>
=============================================================================
