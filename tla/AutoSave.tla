------------------------------ MODULE AutoSave ------------------------------
(***************************************************************************)
(* The automatic saving of interface/vector_db.go.  EnableAutoSave starts  *)
(* a goroutine, autoSaveLoop, that waits for a timer and saves the storage *)
(* to savePath under the database's lock; DisableAutoSave and Close stop   *)
(* the timer and close the channel the goroutine waits on.  The goroutine  *)
(* reads db.autoSaveTimer and db.autoSaveDone without the lock.            *)
(*                                                                         *)
(* Goroutine l was started by the l-th EnableAutoSave of the process; l    *)
(* also names the timer it makes and the done channel it was started with. *)
(* Timers are those of Go 1.23 and later (go.mod says 1.26): Stop and      *)
(* Reset discard a tick that was not received.                             *)
(*                                                                         *)
(* VectorDB_proofs extends this module and VectorDB, so that names both    *)
(* would use carry a word more here: dbClosed is db.closed, CloseDB is     *)
(* Close, RestartProcess the end of a process and the start of the next.   *)
(***************************************************************************)
EXTENDS Naturals, FiniteSets

CONSTANT MaxLoops   \* bound on the calls of EnableAutoSave in one process

ASSUME MaxLoopsAssumption == MaxLoops \in Nat \ {0}

Loops == 1 .. MaxLoops
Nil == 0                \* no timer, no channel, and nobody
Caller == MaxLoops + 1  \* a goroutine inside Save, ForceSave or Close

VARIABLES
    autoSave, dbClosed, dirty,
    autoSaveTimer, autoSaveDone,   \* the fields of the database
    running, due,      \* timers that will tick, and that have ticked unheard
    doneClosed,        \* done channels that are closed
    loop,              \* where each goroutine is
    waitsOn,           \* the timer and the channel its select waits on
    owner,             \* who holds db.mu across a storage.Save
    call,              \* what the caller is in
    target,            \* the path being written: "auto" is savePath
    file,              \* the file under savePath
    unsaved            \* history: the calls that changed the storage since
                       \* the last completed save, with auto save enabled

flags == <<autoSave, dbClosed, dirty>>
fields == <<autoSaveTimer, autoSaveDone>>
timers == <<running, due>>
saving == <<owner, call, target>>
autoSaveVars == <<flags, fields, timers, doneClosed, loop, waitsOn, saving, file, unsaved>>

AutoSaveInit ==
    /\ autoSave = FALSE /\ dbClosed = FALSE /\ dirty = FALSE
    /\ autoSaveTimer = Nil /\ autoSaveDone = Nil
    /\ running = {} /\ due = {} /\ doneClosed = {}
    /\ loop = [l \in Loops |-> "unborn"]
    /\ waitsOn = [l \in Loops |-> [timer |-> Nil, done |-> Nil]]
    /\ owner = Nil /\ call = "none" /\ target = "none"
    /\ unsaved = {}
    /\ file = "absent"

-----------------------------------------------------------------------------
(* Callers.  Each of these holds db.mu from its first line to its last.    *)

EnableAutoSave ==
    /\ owner = Nil /\ ~dbClosed /\ ~autoSave
    /\ \E l \in Loops :
           /\ loop[l] = "unborn" /\ \A m \in 1 .. l - 1 : loop[m] # "unborn"
           /\ autoSaveDone' = l
           /\ loop' = [loop EXCEPT ![l] = "start"]
    /\ autoSave' = TRUE
    /\ UNCHANGED <<dbClosed, dirty, autoSaveTimer, timers, doneClosed, waitsOn, saving, file, unsaved>>

disableAutoSave ==
    /\ autoSave' = FALSE
    /\ running' = running \ {autoSaveTimer}
    /\ due' = due \ {autoSaveTimer}
    /\ doneClosed' = doneClosed \cup ({autoSaveDone} \ {Nil})
    /\ autoSaveDone' = Nil
    /\ UNCHANGED autoSaveTimer

DisableAutoSave ==
    /\ owner = Nil /\ ~dbClosed /\ autoSave
    /\ disableAutoSave
    /\ UNCHANGED <<dbClosed, dirty, loop, waitsOn, saving, file, unsaved>>

(* Insert and Deletes mark the database dirty, Delete does not.            *)
Write(op) ==
    /\ owner = Nil /\ ~dbClosed
    /\ dirty' = IF op = "Delete" THEN dirty ELSE (dirty \/ autoSave)
    /\ unsaved' = IF autoSave THEN unsaved \cup {op} ELSE unsaved
    /\ UNCHANGED <<autoSave, dbClosed, fields, timers, doneClosed, loop, waitsOn, saving, file>>

(* storage.Save truncates the file before it writes it anew.               *)
BeginSave(who, path) ==
    /\ owner' = who
    /\ target' = path
    /\ file' = IF path = "auto" THEN "torn" ELSE file

(* Save(path) and ForceSave(path), to savePath or elsewhere.               *)
CallSave(c, path) ==
    /\ owner = Nil /\ ~dbClosed
    /\ call' = c
    /\ BeginSave(Caller, path)
    /\ UNCHANGED <<flags, fields, timers, doneClosed, loop, waitsOn, unsaved>>

CloseDB ==
    /\ owner = Nil /\ ~dbClosed
    /\ dbClosed' = TRUE
    /\ IF autoSave THEN disableAutoSave
                   ELSE UNCHANGED <<autoSave, fields, timers, doneClosed>>
    /\ IF dirty THEN call' = "Close" /\ BeginSave(Caller, "auto")
                ELSE UNCHANGED <<saving, file>>
    /\ UNCHANGED <<dirty, loop, waitsOn, unsaved>>

(* The lock is released when storage.Save has returned; the goroutine then *)
(* goes on to reset the timer.                                             *)
Release ==
    /\ owner' = Nil /\ target' = "none" /\ call' = "none"
    /\ loop' = IF owner \in Loops THEN [loop EXCEPT ![owner] = "reset"] ELSE loop

Saved ==
    /\ target # "none"
    /\ Release
    /\ file' = IF target = "auto" THEN "whole" ELSE file
    /\ unsaved' = {}
    /\ dirty' = IF owner \in Loops \/ call = "ForceSave" THEN FALSE ELSE dirty
    /\ UNCHANGED <<autoSave, dbClosed, fields, timers, doneClosed, waitsOn>>

(* Mutant: a save that failed leaves the database clean.                   *)
SaveFailsClean ==
    /\ target # "none"
    /\ Release
    /\ dirty' = IF owner \in Loops \/ call = "ForceSave" THEN FALSE ELSE dirty
    /\ UNCHANGED <<autoSave, dbClosed, fields, timers, doneClosed, waitsOn, file, unsaved>>

SaveFails ==
    /\ target # "none"
    /\ Release
    /\ UNCHANGED <<flags, fields, timers, doneClosed, waitsOn, file, unsaved>>

-----------------------------------------------------------------------------
(* autoSaveLoop.                                                           *)

LoopStart(l) ==
    /\ loop[l] = "start"
    /\ autoSaveTimer' = l
    /\ running' = running \cup {l}
    /\ loop' = [loop EXCEPT ![l] = "select"]
    /\ UNCHANGED <<flags, autoSaveDone, due, doneClosed, waitsOn, saving, file, unsaved>>

(* select reads both fields once, and then waits on what it has read.      *)
LoopSelect(l) ==
    /\ loop[l] = "select"
    /\ waitsOn' = [waitsOn EXCEPT ![l] = [timer |-> autoSaveTimer, done |-> autoSaveDone]]
    /\ loop' = [loop EXCEPT ![l] = "waiting"]
    /\ UNCHANGED <<flags, fields, timers, doneClosed, saving, file, unsaved>>

LoopDone(l) ==
    /\ loop[l] = "waiting" /\ waitsOn[l].done \in doneClosed
    /\ loop' = [loop EXCEPT ![l] = "gone"]
    /\ UNCHANGED <<flags, fields, timers, doneClosed, waitsOn, saving, file, unsaved>>

LoopTick(l) ==
    /\ loop[l] = "waiting" /\ waitsOn[l].timer \in due
    /\ due' = due \ {waitsOn[l].timer}
    /\ loop' = [loop EXCEPT ![l] = "tick"]
    /\ UNCHANGED <<flags, fields, running, doneClosed, waitsOn, saving, file, unsaved>>

(* Mutant: the goroutine does not look at the database again once it has   *)
(* the lock.                                                               *)
LoopLockUnchecked(l) ==
    /\ loop[l] = "tick" /\ owner = Nil
    /\ IF dirty THEN loop' = [loop EXCEPT ![l] = "saving"] /\ BeginSave(l, "auto")
                ELSE loop' = [loop EXCEPT ![l] = "reset"] /\ UNCHANGED <<owner, target, file>>
    /\ UNCHANGED <<flags, fields, timers, doneClosed, waitsOn, call, unsaved>>

(* Mutant: the goroutine ends when there is nothing to save.               *)
LoopLockGivesUp(l) ==
    /\ loop[l] = "tick" /\ owner = Nil
    /\ IF autoSave /\ ~dbClosed /\ dirty
       THEN loop' = [loop EXCEPT ![l] = "saving"] /\ BeginSave(l, "auto")
       ELSE loop' = [loop EXCEPT ![l] = "gone"] /\ UNCHANGED <<owner, target, file>>
    /\ UNCHANGED <<flags, fields, timers, doneClosed, waitsOn, call, unsaved>>

LoopLock(l) ==
    /\ loop[l] = "tick" /\ owner = Nil
    /\ \/ /\ ~autoSave \/ dbClosed
          /\ loop' = [loop EXCEPT ![l] = "gone"]
          /\ UNCHANGED <<owner, target, file>>
       \/ /\ autoSave /\ ~dbClosed /\ dirty
          /\ loop' = [loop EXCEPT ![l] = "saving"]
          /\ BeginSave(l, "auto")
       \/ /\ autoSave /\ ~dbClosed /\ ~dirty
          /\ loop' = [loop EXCEPT ![l] = "reset"]
          /\ UNCHANGED <<owner, target, file>>
    /\ UNCHANGED <<flags, fields, timers, doneClosed, waitsOn, call, unsaved>>

(* Mutant: the goroutine goes back to its select with the timer unset.     *)
LoopResetNothing(l) ==
    /\ loop[l] = "reset"
    /\ loop' = [loop EXCEPT ![l] = "select"]
    /\ UNCHANGED <<flags, fields, timers, doneClosed, waitsOn, saving, file, unsaved>>

(* Mutant: a tick that was not received outlives the Reset of its timer.   *)
LoopResetKeepsTick(l) ==
    /\ loop[l] = "reset"
    /\ running' = running \cup {autoSaveTimer}
    /\ loop' = [loop EXCEPT ![l] = "select"]
    /\ UNCHANGED <<flags, fields, due, doneClosed, waitsOn, saving, file, unsaved>>

LoopReset(l) ==
    /\ loop[l] = "reset"
    /\ running' = running \cup {autoSaveTimer}
    /\ due' = due \ {autoSaveTimer}
    /\ loop' = [loop EXCEPT ![l] = "select"]
    /\ UNCHANGED <<flags, fields, doneClosed, waitsOn, saving, file, unsaved>>

(* The interval of a timer has passed.                                     *)
Fire(t) ==
    /\ t \in running
    /\ running' = running \ {t}
    /\ due' = due \cup {t}
    /\ UNCHANGED <<flags, fields, doneClosed, loop, waitsOn, saving, file, unsaved>>

(* The process ends or dies, and another one opens the database.           *)
RestartProcess ==
    /\ autoSave' = FALSE /\ dbClosed' = FALSE /\ dirty' = FALSE
    /\ autoSaveTimer' = Nil /\ autoSaveDone' = Nil
    /\ running' = {} /\ due' = {} /\ doneClosed' = {}
    /\ loop' = [l \in Loops |-> "unborn"]
    /\ waitsOn' = [l \in Loops |-> [timer |-> Nil, done |-> Nil]]
    /\ owner' = Nil /\ call' = "none" /\ target' = "none"
    /\ unsaved' = {}
    /\ UNCHANGED file

LoopStep(l) ==
    LoopStart(l) \/ LoopSelect(l) \/ LoopDone(l) \/ LoopTick(l) \/ LoopReset(l)

AutoSaveNext ==
    \/ EnableAutoSave \/ DisableAutoSave \/ CloseDB
    \/ \E op \in {"Insert", "Delete"} : Write(op)
    \/ \E c \in {"Save", "ForceSave"}, path \in {"auto", "other"} : CallSave(c, path)
    \/ Saved \/ SaveFails
    \/ \E l \in Loops : LoopStep(l) \/ LoopLock(l) \/ Fire(l)
    \/ RestartProcess

(* Goroutines run and timers tick; a goroutine that waits for db.mu gets   *)
(* it, since a Go mutex hands over to a waiter that starves; storage.Save  *)
(* returns, and does not fail for ever when the goroutines call it.        *)
Fairness ==
    /\ \A l \in Loops :
           /\ WF_autoSaveVars(LoopStep(l))
           /\ SF_autoSaveVars(LoopLock(l))
           /\ WF_autoSaveVars(Fire(l))
    /\ WF_autoSaveVars(Saved \/ SaveFails)
    /\ SF_autoSaveVars(owner \in Loops /\ Saved)

AutoSaveSpec == AutoSaveInit /\ [][AutoSaveNext]_autoSaveVars /\ Fairness

-----------------------------------------------------------------------------
AutoSaveTypeOK ==
    /\ autoSave \in BOOLEAN /\ dbClosed \in BOOLEAN /\ dirty \in BOOLEAN
    /\ autoSaveTimer \in Loops \cup {Nil} /\ autoSaveDone \in Loops \cup {Nil}
    /\ running \in SUBSET Loops /\ due \in SUBSET Loops /\ running \cap due = {}
    /\ doneClosed \in SUBSET Loops
    /\ loop \in [Loops -> {"unborn", "start", "select", "waiting", "tick", "saving",
                           "reset", "gone"}]
    /\ waitsOn \in [Loops -> [timer : Loops \cup {Nil}, done : Loops \cup {Nil}]]
    /\ owner \in Loops \cup {Nil, Caller}
    /\ call \in {"none", "Save", "ForceSave", "Close"}
    /\ target \in {"none", "auto", "other"}
    /\ file \in {"absent", "torn", "whole"}
    /\ unsaved \in SUBSET {"Insert", "Delete"}

(* A database that is not dirty has every insert made under auto save in a *)
(* file that was saved completely, whichever goroutines, callers and       *)
(* failures the saves are due to.                                          *)
CleanMeansSaved == ~dirty => "Insert" \notin unsaved

(* As long as auto save is enabled, some goroutine is on its way to the    *)
(* next save, or waits on a timer that is going to wake it; this survives  *)
(* any number of disables and enables whose goroutines overlap.            *)
Awake(l) == \/ loop[l] \in {"start", "select", "tick", "saving", "reset"}
            \/ loop[l] = "waiting" /\ waitsOn[l].timer \in running \cup due
NeverWedged == autoSave => \E l \in Loops : Awake(l)

(* Once Close has returned, no goroutine that is still there touches the   *)
(* file.                                                                   *)
QuietAfterClose ==
    [][dbClosed /\ owner = Nil => RestartProcess \/ UNCHANGED file]_autoSaveVars

(* While auto save stays enabled, what is dirty gets saved.                *)
DirtyIsSaved ==
    autoSave /\ dirty ~> ~dirty \/ ~autoSave
=============================================================================
