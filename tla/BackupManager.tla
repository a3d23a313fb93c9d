--------------------------- MODULE BackupManager ---------------------------
(***************************************************************************)
(* The backup manager of storage/backup/backup.go as badger_store.go uses  *)
(* it.  Callers create and delete backups; EnableAutoBackup starts a       *)
(* goroutine that creates one each time its timer ticks.  No method of the *)
(* manager takes a lock.                                                   *)
(*                                                                         *)
(* Loop l was started by the l-th EnableAutoBackup, and l also names the   *)
(* timer it made.  Every channel in stopChan but the present one has been  *)
(* closed; channels are numbered.  Timers are those of Go 1.23 and later.  *)
(***************************************************************************)
EXTENDS BackupFiles

CONSTANTS
    Callers, MaxLoops,
    MaxStops        \* bound on the calls of DisableAutoBackup

Loops == 1 .. MaxLoops
ASSUME WritersAssumption == Writers = Loops \cup Callers /\ Loops \cap Callers = {}
ASSUME BoundsAssumption == MaxLoops \in Nat /\ MaxStops \in Nat

NoTimer == 0

VARIABLES
    autoBackup, backupTimer, stopChan,
    running, due,       \* timers that will tick, and that have ticked unheard
    loop,               \* where autoBackupLoop is
    waitsOn,            \* the timer and the channel its select waits on
    missed              \* history: the loops that were about to select when
                        \* the channel was replaced

manager == <<autoBackup, backupTimer, stopChan>>
timers == <<running, due>>
loops == <<loop, waitsOn, missed>>
vars == <<clock, files, manager, timers, loops>>

Init ==
    /\ FilesInit
    /\ autoBackup = FALSE /\ backupTimer = NoTimer /\ stopChan = 1
    /\ running = {} /\ due = {}
    /\ loop = [l \in Loops |-> "unborn"]
    /\ waitsOn = [l \in Loops |-> [timer |-> NoTimer, stop |-> 1]]
    /\ missed = {}

-----------------------------------------------------------------------------
CreateBackup(c) ==
    /\ step[c] \in {"idle", "done"}
    /\ BeginBackup(c)
    /\ UNCHANGED <<manager, timers, loops>>

EnableAutoBackup(l) ==
    /\ loop[l] = "unborn" /\ \A k \in 1 .. l - 1 : loop[k] # "unborn"
    /\ autoBackup' = TRUE
    /\ backupTimer' = l /\ running' = running \cup {l}
    /\ loop' = [loop EXCEPT ![l] = "start"]
    /\ UNCHANGED <<clock, files, stopChan, due, waitsOn, missed>>

(* Close is DisableAutoBackup.                                             *)
DisableAutoBackup ==
    /\ stopChan <= MaxStops
    /\ autoBackup' = FALSE
    /\ running' = running \ {backupTimer} /\ due' = due \ {backupTimer}
    /\ stopChan' = stopChan + 1
    /\ missed' = missed \cup {l \in Loops : loop[l] = "start"}
    /\ UNCHANGED <<clock, files, backupTimer, loop, waitsOn>>

-----------------------------------------------------------------------------
(* autoBackupLoop.                                                         *)

LoopSelect(l) ==
    /\ loop[l] = "start"
    /\ waitsOn' = [waitsOn EXCEPT ![l] = [timer |-> backupTimer, stop |-> stopChan]]
    /\ loop' = [loop EXCEPT ![l] = "waiting"]
    /\ UNCHANGED <<clock, files, manager, timers, missed>>

LoopStop(l) ==
    /\ loop[l] = "waiting" /\ waitsOn[l].stop < stopChan
    /\ loop' = [loop EXCEPT ![l] = "gone"]
    /\ UNCHANGED <<clock, files, manager, timers, waitsOn, missed>>

(* Mutant: a tick after the backups were disabled is ignored.              *)
LoopTickIgnored(l) ==
    /\ loop[l] = "waiting" /\ waitsOn[l].timer \in due
    /\ due' = due \ {waitsOn[l].timer}
    /\ loop' = [loop EXCEPT ![l] = IF autoBackup THEN "backup" ELSE "start"]
    /\ UNCHANGED <<clock, files, manager, running, waitsOn, missed>>

LoopTick(l) ==
    /\ loop[l] = "waiting" /\ waitsOn[l].timer \in due
    /\ due' = due \ {waitsOn[l].timer}
    /\ loop' = [loop EXCEPT ![l] = IF autoBackup THEN "backup" ELSE "gone"]
    /\ UNCHANGED <<clock, files, manager, running, waitsOn, missed>>

LoopBackup(l) ==
    /\ loop[l] = "backup" /\ step[l] = "idle"
    /\ BeginBackup(l)
    /\ UNCHANGED <<manager, timers, loops>>

(* Whichever timer the manager has now is set again, disabled or not.      *)
LoopReset(l) ==
    /\ loop[l] = "backup" /\ step[l] = "done"
    /\ running' = running \cup {backupTimer} /\ due' = due \ {backupTimer}
    /\ loop' = [loop EXCEPT ![l] = "start"] /\ Go(l, "idle")
    /\ UNCHANGED <<clock, dir, job, shared, finished, failures, manager, waitsOn, missed>>

Fire(t) ==
    /\ t \in running
    /\ running' = running \ {t} /\ due' = due \cup {t}
    /\ UNCHANGED <<clock, files, manager, loops>>

-----------------------------------------------------------------------------
(* The process dies and another one opens the store with a new manager.    *)
Crash ==
    /\ FilesCrash
    /\ autoBackup' = FALSE /\ backupTimer' = NoTimer
    /\ running' = {} /\ due' = {}
    /\ loop' = [l \in Loops |-> IF loop[l] = "unborn" THEN "unborn" ELSE "gone"]
    /\ UNCHANGED <<stopChan, waitsOn, missed>>

FileStep(w) == CreateBackupStep(w) /\ UNCHANGED <<manager, timers, loops>>

LoopStep(l) ==
    LoopSelect(l) \/ LoopStop(l) \/ LoopTick(l) \/ LoopBackup(l) \/ LoopReset(l)

Next ==
    \/ \E c \in Callers : CreateBackup(c)
    \/ \E w \in Writers : FileStep(w)
    \/ \E n \in Names : DeleteBackup(n) /\ UNCHANGED <<manager, timers, loops>>
    \/ Second /\ UNCHANGED <<manager, timers, loops>>
    \/ \E l \in Loops : EnableAutoBackup(l) \/ LoopStep(l) \/ Fire(l)
    \/ DisableAutoBackup
    \/ Crash

(* Goroutines run, timers tick, and the calls of CreateBackup return.      *)
Fairness == \A l \in Loops : WF_vars(LoopStep(l)) /\ WF_vars(FileStep(l)) /\ WF_vars(Fire(l))

Spec == Init /\ [][Next]_vars /\ Fairness

-----------------------------------------------------------------------------
(* Properties.                                                             *)

(* Every variable keeps its type, and no timer both runs and has ticked.   *)
TypeOK ==
    /\ clock \in 0 .. MaxClock
    /\ Names \subseteq 0 .. MaxClock
    /\ \A n \in Names : /\ dir[n].data \in {"partial", "whole", "mixed"}
                        /\ dir[n].meta \in BOOLEAN
                        /\ dir[n].writers \subseteq {w \in Writers : step[w] = "copy"}
    /\ step \in [Writers -> {"idle", "copy", "describe", "list", "expire", "trim", "done"}]
    /\ shared \subseteq 0 .. clock /\ Listed \subseteq finished /\ failures \in 0 .. MaxFailures
    /\ autoBackup \in BOOLEAN /\ backupTimer \in Loops \cup {NoTimer}
    /\ stopChan \in 1 .. MaxStops + 1 /\ running \cap due = {}
    /\ loop \in [Loops -> {"unborn", "start", "waiting", "backup", "gone"}]

(* The file of a backup that is listed is whole, through failures and      *)
(* crashes at every step, for names that were used only once.              *)
ListedIsComplete ==
    \A n \in Listed \ shared : dir[n].data = "whole"

(* A backup disappears because it was deleted by hand, has expired, or is  *)
(* older than MaxBackups finished ones; cleanups that overlap each other,  *)
(* backups and deletions, and work on old lists, delete no other.          *)
OnlyTheOldAreDeleted ==
    [][\A n \in Listed \ shared :
           n \in Listed' \/ DeleteBackup(n) \/ clock - n > Retention
                         \/ Cardinality({m \in finished : m > n}) >= MaxBackups]_vars

(* Whenever nobody is in CreateBackup, there are no more backups than      *)
(* MaxBackups, but for one per failed attempt or deletion.                 *)
CountBounded ==
    Active = {} => Cardinality(Listed) <= MaxBackups + failures

(* Once the automatic backups are disabled, their loop ends, even if it is *)
(* in the middle of a backup, when they were enabled only once and the     *)
(* channel was not replaced while the loop was about to wait on it.        *)
OnlyLoop(l) == loop[l] # "unborn" /\ \A k \in Loops \ {l} : loop[k] = "unborn"
StoppedLoopEnds ==
    \A l \in Loops :
        OnlyLoop(l) /\ ~autoBackup /\ l \notin missed
            ~> loop[l] = "gone" \/ autoBackup \/ l \in missed \/ ~OnlyLoop(l)
=============================================================================
