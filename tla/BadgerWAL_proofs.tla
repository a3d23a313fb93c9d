-------------------------- MODULE BadgerWAL_proofs --------------------------
(***************************************************************************)
(* Proofs about BadgerWAL, for every set of ids, every set of vectors and  *)
(* every bound on the log.                                                 *)
(***************************************************************************)
EXTENDS BadgerWAL, TLAPS

-----------------------------------------------------------------------------
(* The requests and what they do to the maps, once and for all.            *)

LEMMA RequestType ==
    ASSUME NEW w \in Request
    PROVE  /\ w.puts \in [Ids -> Entry] /\ w.dels \in SUBSET Ids
           /\ \A id \in w.dels : w.puts[id] = NoVal
           /\ Data(w) \in Record
           /\ Data(w).kind = "data" /\ Data(w).puts = w.puts /\ Data(w).dels = w.dels
BY DEF Request, Data, Record, Entry, NoPuts

LEMMA MarkType ==
    ASSUME NEW k \in {"none", "data", "checkpoint", "torn"}
    PROVE  /\ Mark(k) \in Record /\ Mark(k).kind = k
           /\ Mark(k).puts = NoPuts /\ Mark(k).dels = {}
BY DEF Mark, Record, Entry, NoPuts

LEMMA WrittenType ==
    ASSUME NEW m \in [Ids -> Entry], NEW w, w.puts \in [Ids -> Entry]
    PROVE  Written(m, w) \in [Ids -> Entry]
BY DEF Written

LEMMA WidenedType ==
    ASSUME NEW a \in [Ids -> SUBSET Entry], NEW w, w.puts \in [Ids -> Entry]
    PROVE  Widened(a, w) \in [Ids -> SUBSET Entry]
BY DEF Widened

LEMMA SettledType ==
    ASSUME NEW a \in [Ids -> SUBSET Entry], NEW w, w.puts \in [Ids -> Entry]
    PROVE  Settled(a, w) \in [Ids -> SUBSET Entry]
BY DEF Settled

(* Appending one record to a log that has room for it.                     *)
LEMMA AppendRecord ==
    ASSUME NEW log \in Seq(Record), NEW r \in Record
    PROVE  /\ Append(log, r) \in Seq(Record)
           /\ Len(log) \in Nat
           /\ Len(Append(log, r)) = Len(log) + 1
           /\ DOMAIN Append(log, r) = DOMAIN log \cup {Len(log) + 1}
           /\ Append(log, r)[Len(log) + 1] = r
           /\ \A i \in DOMAIN log : i \in Nat /\ i <= Len(log) /\ Append(log, r)[i] = log[i]
OBVIOUS

LEMMA BoundedAppend ==
    ASSUME NEW log \in Seq(Record), NEW r \in Record, Len(log) < MaxLog
    PROVE  Append(log, r) \in Seq(Record) /\ Len(Append(log, r)) <= MaxLog
BY AppendRecord, MaxLogAssumption

-----------------------------------------------------------------------------
(* Types.                                                                  *)

LEMMA TypeOKInit == Init => TypeOK
<1> SUFFICES ASSUME Init PROVE TypeOK
    OBVIOUS
<1>1. wal \in Seq(Record) /\ Len(wal) = 0
    BY DEF Init
<1>2. NoPuts \in [Ids -> Entry] /\ [id \in Ids |-> {NoVal}] \in [Ids -> SUBSET Entry]
    BY DEF NoPuts, Entry
<1>3. op \in Record
    BY MarkType DEF Init, NoOp
<1>4. replay \in [phase : {"put", "delete"}, pos : 1 .. MaxLog + 1]
    BY MaxLogAssumption DEF Init
<1>5. walUsable \in BOOLEAN
    BY Zenon DEF Init
<1> QED
    BY <1>1, <1>2, <1>3, <1>4, <1>5, MaxLogAssumption DEF Init, TypeOK

LEMMA TypeOKNext == TypeOK /\ [Next]_vars => TypeOK'
<1> SUFFICES ASSUME TypeOK, [Next]_vars PROVE TypeOK'
    OBVIOUS
<1> USE DEF TypeOK
<1>1. ASSUME NEW w \in Request, LogWrite(w) PROVE TypeOK'
    <2>1. wal' \in Seq(Record) /\ Len(wal') <= MaxLog
        BY <1>1, RequestType, BoundedAppend DEF LogWrite
    <2>2. op' \in Record /\ admissible' \in [Ids -> SUBSET Entry]
        BY <1>1, RequestType, WidenedType DEF LogWrite
    <2> QED
        BY <1>1, <2>1, <2>2 DEF LogWrite
<1>2. ASSUME NEW w \in Request, LogFails(w) PROVE TypeOK'
    <2>1. wal' \in Seq(Record) /\ Len(wal') <= MaxLog
        <3>1. Mark("torn") \in Record /\ Data(w) \in Record
            BY MarkType, RequestType
        <3>2. /\ Append(wal, Mark("torn")) \in Seq(Record)
              /\ Len(Append(wal, Mark("torn"))) <= MaxLog
            BY <1>2, <3>1, BoundedAppend DEF LogFails
        <3>3. Append(wal, Data(w)) \in Seq(Record) /\ Len(Append(wal, Data(w))) <= MaxLog
            BY <1>2, <3>1, BoundedAppend DEF LogFails
        <3> QED
            BY <1>2, <3>2, <3>3 DEF LogFails
    <2>2. admissible' \in [Ids -> SUBSET Entry]
        BY <1>2, RequestType, WidenedType DEF LogFails
    <2> QED
        BY <1>2, <2>1, <2>2 DEF LogFails
<1>3. CASE ApplyWrite
    <2>1. op.puts \in [Ids -> Entry] /\ NoOp \in Record
        BY MarkType DEF Record, NoOp
    <2> QED
        BY <1>3, <2>1, WrittenType, SettledType DEF ApplyWrite, BadgerWrote
<1>4. ASSUME FlushPart PROVE store' \in [Ids -> Entry]
    <2>1. Written(store, op) \in [Ids -> Entry]
        BY WrittenType DEF Record
    <2> QED
        BY <1>4, <2>1 DEF FlushPart
<1>5. CASE ApplyFails
    BY <1>4, <1>5, MarkType DEF ApplyFails, BadgerWrote, NoOp
<1>6. CASE WriteCheckpoint
    <2>1. wal' \in Seq(Record) /\ Len(wal') <= MaxLog
        BY <1>6, MarkType, BoundedAppend DEF WriteCheckpoint
    <2> QED
        BY <1>6, <2>1, MarkType DEF WriteCheckpoint
<1>7. CASE Truncate
    BY <1>7, MarkType, MaxLogAssumption DEF Truncate, NoOp
<1>8. CASE OpenTorn
    BY <1>8 DEF OpenTorn
<1>9. CASE OpenAndRecover
    BY <1>9, MaxLogAssumption DEF OpenAndRecover
<1>10. CASE ReplayPut
    <2>1. wal[replay.pos] \in Record
        BY <1>10 DEF ReplayPut
    <2>2. store' \in [Ids -> Entry]
        BY <1>10, <2>1 DEF ReplayPut, Record, Entry
    <2>3. replay' \in [phase : {"put", "delete"}, pos : 1 .. MaxLog + 1]
        BY <1>10, MaxLogAssumption DEF ReplayPut
    <2> QED
        BY <1>10, <2>2, <2>3 DEF ReplayPut, BadgerWrote
<1>11. CASE ReplayPutsDone
    BY <1>11, MaxLogAssumption DEF ReplayPutsDone
<1>12. CASE ReplayDelete
    <2>1. store' \in [Ids -> Entry]
        BY <1>12 DEF ReplayDelete, Entry
    <2>2. replay' \in [phase : {"put", "delete"}, pos : 1 .. MaxLog + 1]
        BY <1>12, MaxLogAssumption DEF ReplayDelete
    <2> QED
        BY <1>12, <2>1, <2>2 DEF ReplayDelete, BadgerWrote
<1>13. CASE FinishRecovery
    BY <1>13, MaxLogAssumption DEF FinishRecovery
<1>14. CASE Close
    BY <1>14 DEF Close
<1>15. CASE Crash
    BY <1>4, <1>15, MarkType DEF Crash, NoOp
<1>16. CASE UNCHANGED vars
    BY <1>16 DEF vars
<1> QED
    BY <1>1, <1>2, <1>3, <1>5, <1>6, <1>7, <1>8, <1>9, <1>10, <1>11, <1>12, <1>13,
       <1>14, <1>15, <1>16 DEF Next

(* Every reachable state of the store and its log is well typed; the       *)
(* replay position stays within one of the end of the log.                 *)
THEOREM TypeCorrect == Spec => []TypeOK
BY TypeOKInit, TypeOKNext, PTL DEF Spec

-----------------------------------------------------------------------------
(* What one more record does to the live part of a log.                    *)

LEMMA LiveBounds ==
    ASSUME NEW log \in Seq(Record), NEW id \in Ids
    PROVE  /\ Live(log) \subseteq DOMAIN log
           /\ LivePuts(log, id) \subseteq DOMAIN log
           /\ LiveDeletes(log, id) \subseteq DOMAIN log
           /\ \A i \in DOMAIN log : i \in Nat /\ 1 <= i /\ i <= Len(log)
BY DEF Live, LivePuts, LiveDeletes

LEMMA LiveAppend ==
    ASSUME NEW log \in Seq(Record), NEW r \in Record, r.kind # "checkpoint"
    PROVE  Live(Append(log, r)) = Live(log) \cup {Len(log) + 1}
<1> DEFINE new == Append(log, r)
<1> HIDE DEF new
<1>1. /\ DOMAIN new = DOMAIN log \cup {Len(log) + 1} /\ Len(log) \in Nat
      /\ new[Len(log) + 1] = r
      /\ \A i \in DOMAIN log : i \in Nat /\ i <= Len(log) /\ new[i] = log[i]
    BY AppendRecord DEF new
<1>2. Live(new) = Live(log) \cup {Len(log) + 1}
    BY <1>1 DEF Live
<1> QED
    BY <1>2 DEF new

LEMMA LiveCheckpoint ==
    ASSUME NEW log \in Seq(Record), NEW r \in Record, r.kind = "checkpoint"
    PROVE  Live(Append(log, r)) = {}
<1> DEFINE new == Append(log, r)
<1> HIDE DEF new
<1>1. /\ DOMAIN new = DOMAIN log \cup {Len(log) + 1} /\ Len(log) \in Nat
      /\ new[Len(log) + 1] = r
      /\ \A i \in DOMAIN log : i \in Nat /\ i <= Len(log)
    BY AppendRecord DEF new
<1>2. Live(new) = {}
    BY <1>1 DEF Live
<1> QED
    BY <1>2 DEF new

LEMMA EntriesAppend ==
    ASSUME NEW log \in Seq(Record), NEW r \in Record, r.kind # "checkpoint", NEW id \in Ids
    PROVE  /\ r.puts[id] = NoVal => LivePuts(Append(log, r), id) = LivePuts(log, id)
           /\ r.puts[id] # NoVal =>
                 LivePuts(Append(log, r), id) = LivePuts(log, id) \cup {Len(log) + 1}
           /\ id \notin r.dels => LiveDeletes(Append(log, r), id) = LiveDeletes(log, id)
           /\ id \in r.dels =>
                 LiveDeletes(Append(log, r), id) = LiveDeletes(log, id) \cup {Len(log) + 1}
<1> DEFINE new == Append(log, r)
<1> HIDE DEF new
<1>1. /\ new[Len(log) + 1] = r /\ Len(log) \in Nat
      /\ \A i \in DOMAIN log : i \in Nat /\ i <= Len(log) /\ new[i] = log[i]
    BY AppendRecord DEF new
<1>2. Live(new) = Live(log) \cup {Len(log) + 1} /\ Live(log) \subseteq DOMAIN log
    BY LiveAppend, LiveBounds DEF new
<1>3. /\ r.puts[id] = NoVal => LivePuts(new, id) = LivePuts(log, id)
      /\ r.puts[id] # NoVal => LivePuts(new, id) = LivePuts(log, id) \cup {Len(log) + 1}
    BY <1>1, <1>2 DEF LivePuts
<1>4. /\ id \notin r.dels => LiveDeletes(new, id) = LiveDeletes(log, id)
      /\ id \in r.dels => LiveDeletes(new, id) = LiveDeletes(log, id) \cup {Len(log) + 1}
    BY <1>1, <1>2 DEF LiveDeletes
<1> QED
    BY <1>3, <1>4 DEF new

LEMMA TornAppend ==
    ASSUME NEW log \in Seq(Record), NEW r \in Record
    PROVE  Torn(Append(log, r)) <=> Torn(log) \/ r.kind = "torn"
<1> DEFINE new == Append(log, r)
<1> HIDE DEF new
<1>1. /\ DOMAIN new = DOMAIN log \cup {Len(log) + 1}
      /\ new[Len(log) + 1] = r
      /\ \A i \in DOMAIN log : i \in Nat /\ i <= Len(log) /\ new[i] = log[i]
      /\ Len(log) \in Nat
    BY AppendRecord DEF new
<1>2. Torn(new) <=> Torn(log) \/ r.kind = "torn"
    BY <1>1 DEF Torn
<1> QED
    BY <1>2 DEF new

(* The empty log.                                                          *)
LEMMA EmptyLog ==
    /\ ~Torn(<<>>)
    /\ \A id \in Ids : LivePuts(<<>>, id) = {} /\ LiveDeletes(<<>>, id) = {}
BY DEF Torn, Live, LivePuts, LiveDeletes

-----------------------------------------------------------------------------
(* A record appended to an allowed log keeps it allowed, if what the       *)
(* record puts is allowed under the possibly larger `new'.                 *)
Allows(log, allowed) ==
    \A id \in Ids :
        /\ LivePuts(log, id) # {} => \E i \in DOMAIN log : IsLastPut(log, id, i)
        /\ LiveDeletes(log, id) = {} =>
              \A i \in DOMAIN log :
                  IsLastPut(log, id, i) => log[i].puts[id] \in allowed[id]

LEMMA AllowsAppend ==
    ASSUME NEW log \in Seq(Record), NEW r \in Record,
           NEW old \in [Ids -> SUBSET Entry], NEW new \in [Ids -> SUBSET Entry],
           Allows(log, old),
           \A id \in Ids : r.kind # "checkpoint" =>
               /\ r.puts[id] # NoVal => r.puts[id] \in new[id]
               /\ r.puts[id] = NoVal /\ id \notin r.dels => old[id] \subseteq new[id]
    PROVE  Allows(Append(log, r), new)
<1> DEFINE ext == Append(log, r)
           n == Len(log) + 1
<1>1. /\ n \in Nat /\ DOMAIN ext = DOMAIN log \cup {n} /\ ext[n] = r
      /\ \A i \in DOMAIN log : i \in Nat /\ i < n /\ ext[i] = log[i]
    BY AppendRecord
<1>2. SUFFICES ASSUME NEW id \in Ids
               PROVE  /\ LivePuts(ext, id) # {} => \E i \in DOMAIN ext : IsLastPut(ext, id, i)
                      /\ LiveDeletes(ext, id) = {} =>
                            \A i \in DOMAIN ext :
                                IsLastPut(ext, id, i) => ext[i].puts[id] \in new[id]
    BY DEF Allows
<1>3. CASE r.kind = "checkpoint"
    <2>1. Live(Append(log, r)) = {}
        BY <1>3, LiveCheckpoint
    <2>2. LivePuts(ext, id) = {}
        BY <2>1 DEF LivePuts
    <2> QED
        BY <2>2 DEF IsLastPut
<1>4. CASE r.kind # "checkpoint" /\ r.puts[id] # NoVal
    <2>1. LivePuts(ext, id) = LivePuts(log, id) \cup {n} /\ LivePuts(log, id) \subseteq DOMAIN log
        BY <1>4, EntriesAppend, LiveBounds
    <2> HIDE DEF ext, n
    <2>2. IsLastPut(ext, id, n)
        BY <1>1, <2>1 DEF IsLastPut
    <2>3. \A i \in DOMAIN ext : IsLastPut(ext, id, i) => i = n
        BY <1>1, <2>1 DEF IsLastPut
    <2> QED
        BY <1>1, <1>4, <2>2, <2>3
<1>5. CASE r.kind # "checkpoint" /\ r.puts[id] = NoVal
    <2>1. /\ LivePuts(ext, id) = LivePuts(log, id) /\ LivePuts(log, id) \subseteq DOMAIN log
          /\ LiveDeletes(log, id) \subseteq LiveDeletes(ext, id)
          /\ id \in r.dels => n \in LiveDeletes(ext, id)
        BY <1>5, EntriesAppend, LiveBounds
    <2> HIDE DEF ext, n
    <2>2. \A i : IsLastPut(ext, id, i) <=> IsLastPut(log, id, i)
        BY <2>1 DEF IsLastPut
    <2>3. \A i : IsLastPut(log, id, i) => i \in DOMAIN log
        BY <2>1 DEF IsLastPut
    <2>4. LivePuts(log, id) # {} => \E i \in DOMAIN log : IsLastPut(log, id, i)
        BY DEF Allows
    <2>5. LiveDeletes(log, id) = {} =>
             \A i \in DOMAIN log : IsLastPut(log, id, i) => log[i].puts[id] \in old[id]
        BY DEF Allows
    <2> QED
        BY <1>1, <1>5, <2>1, <2>2, <2>3, <2>4, <2>5
<1> QED
    BY <1>3, <1>4, <1>5

LEMMA AllowsIsLogIsAllowed ==
    /\ LogIsAllowed <=> Allows(wal, admissible)
    /\ LogIsAllowed' <=> Allows(wal', admissible')
BY DEF LogIsAllowed, Allows

-----------------------------------------------------------------------------
(* The inductive step, one part of the invariant at a time.                *)

LEMMA RecoveryInvInit == Init => RecoveryInv
<1> SUFFICES ASSUME Init PROVE RecoveryInv
    OBVIOUS
<1>1. OpIsLogged
    BY MarkType DEF Init, OpIsLogged, NoOp, Touches, NoPuts
<1>2. LogIsAllowed
    BY EmptyLog DEF Init, LogIsAllowed, IsLastPut
<1>3. StoreIsAllowed
    BY DEF Init, StoreIsAllowed, NoPuts
<1> QED
    BY <1>1, <1>2, <1>3 DEF Init, RecoveryInv, ReplayIsOnTrack

LEMMA OpIsLoggedNext == TypeOK /\ OpIsLogged /\ [Next]_vars => OpIsLogged'
<1> SUFFICES ASSUME TypeOK, OpIsLogged, [Next]_vars PROVE OpIsLogged'
    OBVIOUS
<1>1. \A id \in Ids : ~Touches(NoOp, id)
    BY MarkType DEF NoOp, Touches, NoPuts
<1>2. NoOp.kind = "none"
    BY MarkType DEF NoOp
<1>3. ASSUME NEW w \in Request, LogWrite(w) PROVE OpIsLogged'
    <2>1. /\ op' = Data(w) /\ op'.kind = "data" /\ op'.puts = w.puts /\ op'.dels = w.dels
          /\ \A id \in w.dels : w.puts[id] = NoVal
        BY <1>3, RequestType DEF LogWrite
    <2>2. Len(wal') > 0 /\ wal'[Len(wal')] = op'
        BY <1>3, RequestType, AppendRecord DEF LogWrite, TypeOK
    <2>3. \A id \in Ids : Touches(op', id) => op'.puts[id] \in admissible'[id]
        BY <1>3, <2>1 DEF LogWrite, Touches, Widened
    <2>4. status' = "open"
        BY <1>3 DEF LogWrite
    <2> QED
        BY <2>1, <2>2, <2>3, <2>4 DEF OpIsLogged
<1>4. ASSUME NEW w \in Request, LogFails(w) PROVE OpIsLogged'
    BY <1>1, <1>2, <1>4 DEF LogFails, OpIsLogged
<1>5. CASE op' = NoOp
    BY <1>1, <1>2, <1>5 DEF OpIsLogged
<1>6. CASE WriteCheckpoint
    BY <1>6, MarkType DEF WriteCheckpoint, OpIsLogged, Touches, NoPuts
<1>7. CASE OpenTorn \/ OpenAndRecover
    BY <1>7 DEF OpenTorn, OpenAndRecover, OpIsLogged
<1>8. CASE ReplayPut \/ ReplayPutsDone \/ ReplayDelete \/ FinishRecovery
    BY <1>8 DEF ReplayPut, ReplayPutsDone, ReplayDelete, FinishRecovery, OpIsLogged
<1>9. CASE UNCHANGED vars
    BY <1>9 DEF vars, OpIsLogged
<1> QED
    BY <1>3, <1>4, <1>5, <1>6, <1>7, <1>8, <1>9
       DEF Next, ApplyWrite, ApplyFails, Truncate, Close, Crash

LEMMA LogIsAllowedNext ==
    TypeOK /\ OpIsLogged /\ LogIsAllowed /\ [Next]_vars => LogIsAllowed'
<1> SUFFICES ASSUME TypeOK, OpIsLogged, LogIsAllowed, [Next]_vars PROVE LogIsAllowed'
    OBVIOUS
<1>1. /\ wal \in Seq(Record) /\ admissible \in [Ids -> SUBSET Entry]
      /\ admissible' \in [Ids -> SUBSET Entry]
    BY TypeOKNext DEF TypeOK
<1>2. Allows(wal, admissible)
    BY AllowsIsLogIsAllowed
<1>3. ASSUME NEW w \in Request
      PROVE  /\ Allows(wal, Widened(admissible, w))
             /\ Allows(Append(wal, Data(w)), Widened(admissible, w))
             /\ Allows(Append(wal, Mark("torn")), Widened(admissible, w))
    <2>1. /\ Widened(admissible, w) \in [Ids -> SUBSET Entry]
          /\ \A id \in Ids : admissible[id] \subseteq Widened(admissible, w)[id]
          /\ \A id \in Ids : w.puts[id] # NoVal => w.puts[id] \in Widened(admissible, w)[id]
        BY <1>1, RequestType, WidenedType DEF Widened, Touches
    <2>2. Allows(wal, Widened(admissible, w))
        BY <1>2, <2>1 DEF Allows
    <2>3. Allows(Append(wal, Data(w)), Widened(admissible, w))
        BY <1>1, <1>2, <2>1, RequestType, AllowsAppend
    <2>4. Allows(Append(wal, Mark("torn")), Widened(admissible, w))
        BY <1>1, <1>2, <2>1, MarkType, AllowsAppend DEF NoPuts
    <2> QED
        BY <2>2, <2>3, <2>4
<1>4. ASSUME NEW w \in Request, LogWrite(w) \/ LogFails(w) PROVE LogIsAllowed'
    <2>1. /\ wal' \in {wal, Append(wal, Mark("torn")), Append(wal, Data(w))}
          /\ admissible' = Widened(admissible, w)
        BY <1>4 DEF LogWrite, LogFails
    <2> QED
        BY <1>3, <2>1, AllowsIsLogIsAllowed
<1>5. CASE ApplyWrite
    <2>1. wal' = wal /\ admissible' = Settled(admissible, op) /\ op.kind = "data"
        BY <1>5 DEF ApplyWrite
    <2>2. /\ Len(wal) \in DOMAIN wal /\ Len(wal) \in Nat /\ wal[Len(wal)] = op
          /\ \A i \in DOMAIN wal : i \in Nat /\ i <= Len(wal)
          /\ Len(wal) \in Live(wal)
        BY <1>1, <2>1 DEF OpIsLogged, Live
    <2>3. SUFFICES ASSUME NEW id \in Ids, LiveDeletes(wal, id) = {},
                          NEW i \in DOMAIN wal, IsLastPut(wal, id, i)
                   PROVE  wal[i].puts[id] \in Settled(admissible, op)[id]
        BY <1>2, <2>1, AllowsIsLogIsAllowed DEF Allows
    <2>4. CASE op.puts[id] # NoVal
        <3>1. i = Len(wal)
            BY <2>2, <2>3, <2>4 DEF IsLastPut, LivePuts
        <3> QED
            BY <2>2, <2>4, <3>1 DEF Settled, Touches
    <2>5. CASE op.puts[id] = NoVal
        <3>1. id \notin op.dels
            BY <2>2, <2>3 DEF LiveDeletes
        <3>2. Settled(admissible, op)[id] = admissible[id]
            BY <2>5, <3>1 DEF Settled, Touches
        <3> QED
            BY <1>2, <2>3, <3>2 DEF Allows
    <2> QED
        BY <2>4, <2>5
<1>6. CASE WriteCheckpoint
    <2>1. Mark("checkpoint") \in Record /\ Mark("checkpoint").kind = "checkpoint"
        BY MarkType
    <2>2. Allows(Append(wal, Mark("checkpoint")), admissible)
        BY <1>1, <1>2, <2>1, AllowsAppend
    <2> QED
        BY <1>6, <2>2, AllowsIsLogIsAllowed DEF WriteCheckpoint
<1>7. CASE Truncate \/ FinishRecovery
    BY <1>7, EmptyLog, AllowsIsLogIsAllowed DEF Truncate, FinishRecovery, Allows, IsLastPut
<1>8. CASE wal' = wal /\ admissible' = admissible
    BY <1>2, <1>8, AllowsIsLogIsAllowed
<1> QED
    BY <1>4, <1>5, <1>6, <1>7, <1>8
       DEF Next, vars, ApplyFails, OpenTorn, OpenAndRecover, ReplayPut, ReplayPutsDone,
           ReplayDelete, Close, Crash

(* The entries a broken-off flush leaves behind.                           *)
LEMMA FlushPartEntries ==
    ASSUME FlushPart, TypeOK
    PROVE  \A id \in Ids : \/ store'[id] = store[id]
                           \/ Touches(op, id) /\ store'[id] = op.puts[id]
BY DEF FlushPart, Written, TypeOK

LEMMA StoreIsAllowedNext ==
    ASSUME TypeOK, RecoveryInv, [Next]_vars, ~LosesUnsynced
    PROVE  StoreIsAllowed'
<1> USE DEF RecoveryInv
<1>1. /\ admissible \in [Ids -> SUBSET Entry] /\ wal \in Seq(Record)
      /\ store \in [Ids -> Entry] /\ op \in Record
    BY DEF TypeOK
<1>2. ASSUME NEW w \in Request, LogWrite(w) \/ LogFails(w) PROVE StoreIsAllowed'
    <2>1. status = "open" /\ store' = store /\ admissible' = Widened(admissible, w)
        BY <1>2 DEF LogWrite, LogFails
    <2>2. \A id \in Ids : admissible[id] \subseteq admissible'[id]
        BY <2>1, <1>1 DEF Widened
    <2> QED
        BY <2>1, <2>2 DEF StoreIsAllowed
<1>3. CASE ApplyWrite
    <2>1. \A id \in Ids : store'[id] \in admissible'[id] \cup {NoVal}
        BY <1>3 DEF ApplyWrite, StoreIsAllowed, Written, Settled
    <2> QED
        BY <2>1 DEF StoreIsAllowed
<1>4. CASE ApplyFails
    <2>1. /\ status = "open" /\ admissible' = admissible
          /\ op.kind = "data" /\ FlushPart
        BY <1>4 DEF ApplyFails
    <2>2. \A id \in Ids : store'[id] \in admissible[id] \cup {NoVal}
        BY <2>1, FlushPartEntries DEF StoreIsAllowed, OpIsLogged
    <2> QED
        BY <2>1, <2>2 DEF StoreIsAllowed
<1>5. CASE WriteCheckpoint \/ Truncate \/ Close
    BY <1>5 DEF WriteCheckpoint, Truncate, Close, StoreIsAllowed
<1>6. CASE OpenTorn \/ OpenAndRecover \/ ReplayPutsDone
    BY <1>6 DEF OpenTorn, OpenAndRecover, ReplayPutsDone, StoreIsAllowed
<1>7. CASE ReplayPut
    <2>1. /\ status' = "replaying" /\ wal' = wal /\ admissible' = admissible /\ ~Torn(wal)
        BY <1>7 DEF ReplayPut, ReplayIsOnTrack
    <2>2. \A id \in Ids : LivePuts(wal, id) = {} => store'[id] = store[id]
        BY <1>7 DEF ReplayPut, LivePuts
    <2> QED
        BY <2>1, <2>2 DEF StoreIsAllowed
<1>8. CASE ReplayDelete
    <2>1. /\ status' = "replaying" /\ wal' = wal /\ admissible' = admissible /\ ~Torn(wal)
        BY <1>8 DEF ReplayDelete, ReplayIsOnTrack
    <2>2. \A id \in Ids : LiveDeletes(wal, id) = {} => store'[id] = store[id]
        BY <1>8 DEF ReplayDelete, LiveDeletes
    <2> QED
        BY <2>1, <2>2 DEF StoreIsAllowed
<1>9. CASE FinishRecovery
    <2>1. /\ DeletesReplayed /\ replay.pos > Len(wal)
          /\ store' = store /\ admissible' = admissible
        BY <1>9 DEF FinishRecovery, ReplayIsOnTrack
    <2>2. SUFFICES ASSUME NEW id \in Ids PROVE store[id] \in admissible[id] \cup {NoVal}
        BY <2>1 DEF StoreIsAllowed
    <2>3. CASE LiveDeletes(wal, id) # {}
        <3>1. PICK d \in LiveDeletes(wal, id) : TRUE
            BY <2>3
        <3>2. d < replay.pos
            BY <2>1, <3>1, <1>1, LiveBounds DEF TypeOK
        <3> QED
            BY <2>1, <3>2 DEF DeletesReplayed
    <2>4. CASE LiveDeletes(wal, id) = {} /\ LivePuts(wal, id) # {}
        BY <2>1, <2>4 DEF DeletesReplayed, LogIsAllowed
    <2>5. CASE LiveDeletes(wal, id) = {} /\ LivePuts(wal, id) = {}
        BY <2>5 DEF StoreIsAllowed
    <2> QED
        BY <2>3, <2>4, <2>5
<1>10. CASE Crash
    <2>1. /\ status' = "closed" /\ wal' = wal /\ admissible' = admissible
          /\ \A id \in Ids : \/ store'[id] = store[id]
                             \/ Touches(op, id) /\ store'[id] = op.puts[id]
        BY <1>10, FlushPartEntries DEF Crash
    <2>2. SUFFICES ASSUME NEW id \in Ids,
                          \/ Torn(wal)
                          \/ LivePuts(wal, id) = {} /\ LiveDeletes(wal, id) = {}
                   PROVE  store'[id] \in admissible[id] \cup {NoVal}
        BY <2>1 DEF StoreIsAllowed
    <2>3. store[id] \in admissible[id] \cup {NoVal}
        BY <2>2 DEF StoreIsAllowed
    <2>4. Touches(op, id) => op.puts[id] \in admissible[id]
        BY DEF OpIsLogged
    <2> QED
        BY <2>1, <2>3, <2>4
<1>11. CASE UNCHANGED vars
    BY <1>11 DEF vars, StoreIsAllowed
<1> QED
    BY <1>2, <1>3, <1>4, <1>5, <1>6, <1>7, <1>8, <1>9, <1>10, <1>11 DEF Next

LEMMA ReplayIsOnTrackNext ==
    ASSUME TypeOK, RecoveryInv, [Next]_vars
    PROVE  ReplayIsOnTrack'
<1> USE DEF RecoveryInv
<1>1. /\ wal \in Seq(Record) /\ store \in [Ids -> Entry] /\ replay.pos \in Nat
      /\ replay \in [phase : {"put", "delete"}, pos : Nat]
    BY MaxLogAssumption DEF TypeOK
<1>2. CASE OpenAndRecover
    <2>1. /\ ~Torn(wal) /\ wal' = wal /\ replay'.pos = 1 /\ replay'.phase = "put"
        BY <1>2 DEF OpenAndRecover
    <2>2. PutsReplayed'
        BY <2>1, <1>1, LiveBounds DEF PutsReplayed
    <2> QED
        BY <2>1, <2>2 DEF ReplayIsOnTrack
<1>3. CASE ReplayPut
    <2>1. /\ ~Torn(wal) /\ PutsReplayed
          /\ wal' = wal /\ replay'.pos = replay.pos + 1 /\ replay'.phase = "put"
        BY <1>1, <1>3 DEF ReplayPut, ReplayIsOnTrack
    <2>2. \A id \in Ids : store'[id] = IF replay.pos \in LivePuts(wal, id)
                                       THEN wal[replay.pos].puts[id] ELSE store[id]
        BY <1>3 DEF ReplayPut, LivePuts
    <2>3. SUFFICES ASSUME NEW id \in Ids, NEW i \in LivePuts(wal, id), i < replay.pos + 1,
                          \A j \in LivePuts(wal, id) : j < replay.pos + 1 => j <= i
                   PROVE  store'[id] = wal[i].puts[id]
        BY <2>1 DEF ReplayIsOnTrack, PutsReplayed
    <2>4. \A j \in LivePuts(wal, id) : j \in Nat
        BY <1>1, LiveBounds
    <2>5. CASE replay.pos \in LivePuts(wal, id)
        BY <1>1, <2>2, <2>3, <2>4, <2>5
    <2>6. CASE replay.pos \notin LivePuts(wal, id)
        <3>1. i < replay.pos /\ \A j \in LivePuts(wal, id) : j < replay.pos => j <= i
            BY <1>1, <2>3, <2>4, <2>6
        <3> QED
            BY <2>1, <2>2, <2>6, <3>1 DEF PutsReplayed
    <2> QED
        BY <2>5, <2>6
<1>4. CASE ReplayPutsDone
    <2>1. /\ ~Torn(wal) /\ PutsReplayed /\ replay.pos > Len(wal)
          /\ wal' = wal /\ store' = store /\ replay'.pos = 1 /\ replay'.phase = "delete"
        BY <1>4 DEF ReplayPutsDone, ReplayIsOnTrack
    <2>2. ASSUME NEW id \in Ids, NEW i \in DOMAIN wal, IsLastPut(wal, id, i)
          PROVE  store[id] = wal[i].puts[id]
        <3>1. i < replay.pos
            BY <1>1, <2>1, LiveBounds
        <3> QED
            BY <2>1, <2>2, <3>1 DEF IsLastPut, PutsReplayed
    <2>3. \A id \in Ids : \A d \in LiveDeletes(wal, id) : ~(d < 1)
        BY <1>1, LiveBounds
    <2> QED
        BY <2>1, <2>2, <2>3 DEF ReplayIsOnTrack, DeletesReplayed
<1>5. CASE ReplayDelete
    <2>1. /\ ~Torn(wal) /\ DeletesReplayed
          /\ wal' = wal /\ replay'.pos = replay.pos + 1 /\ replay'.phase = "delete"
        BY <1>1, <1>5 DEF ReplayDelete, ReplayIsOnTrack
    <2>2. \A id \in Ids : store'[id] = IF replay.pos \in LiveDeletes(wal, id)
                                       THEN NoVal ELSE store[id]
        BY <1>5 DEF ReplayDelete, LiveDeletes
    <2>3. ASSUME NEW id \in Ids, LiveDeletes(wal, id) = {},
                 NEW i \in DOMAIN wal, IsLastPut(wal, id, i)
          PROVE  store'[id] = wal[i].puts[id]
        BY <2>1, <2>2, <2>3 DEF DeletesReplayed
    <2>4. ASSUME NEW id \in Ids, NEW d \in LiveDeletes(wal, id), d < replay.pos + 1
          PROVE  store'[id] = NoVal
        <3>1. d \in Nat
            BY <1>1, LiveBounds
        <3>2. d = replay.pos \/ d < replay.pos
            BY <1>1, <2>4, <3>1
        <3> QED
            BY <2>1, <2>2, <3>2 DEF DeletesReplayed
    <2> QED
        BY <2>1, <2>3, <2>4 DEF ReplayIsOnTrack, DeletesReplayed
<1>6. CASE status' # "replaying"
    BY <1>6 DEF ReplayIsOnTrack
<1>7. CASE UNCHANGED vars
    BY <1>7 DEF vars, ReplayIsOnTrack, PutsReplayed, DeletesReplayed
<1> QED
    BY <1>2, <1>3, <1>4, <1>5, <1>6, <1>7
       DEF Next, LogWrite, LogFails, ApplyWrite, ApplyFails, WriteCheckpoint, Truncate,
           OpenTorn, FinishRecovery, Close, Crash

LEMMA DurableNext ==
    ASSUME ~LosesUnsynced, durable = store, [Next]_vars
    PROVE  durable' = store'
BY DEF Next, vars, LogWrite, LogFails, ApplyWrite, ApplyFails, BadgerWrote, WriteCheckpoint,
       Truncate, OpenTorn, OpenAndRecover, ReplayPut, ReplayPutsDone, ReplayDelete,
       FinishRecovery, Close, Crash

LEMMA RecoveryInvNext ==
    ASSUME ~LosesUnsynced, TypeOK, RecoveryInv, [Next]_vars
    PROVE  RecoveryInv'
<1>1. durable' = store'
    BY DurableNext DEF RecoveryInv
<1>2. OpIsLogged'
    BY OpIsLoggedNext DEF RecoveryInv
<1>3. LogIsAllowed'
    BY LogIsAllowedNext DEF RecoveryInv
<1>4. StoreIsAllowed'
    BY StoreIsAllowedNext
<1>5. ReplayIsOnTrack'
    BY ReplayIsOnTrackNext
<1> QED
    BY <1>1, <1>2, <1>3, <1>4, <1>5 DEF RecoveryInv

(* Unless a power loss takes what Badger had not synced, the log and       *)
(* Badger together determine an allowed value of every id at every moment, *)
(* in the middle of a write, of a checkpoint and of a replay included.     *)
THEOREM RecoveryInvCorrect == ASSUME ~LosesUnsynced PROVE Spec => []RecoveryInv
<1>1. TypeOK /\ RecoveryInv /\ [Next]_vars => RecoveryInv'
    BY RecoveryInvNext
<1> QED
    BY <1>1, TypeCorrect, RecoveryInvInit, PTL DEF Spec

(* A process that dies as often and wherever it likes never brings back a  *)
(* value the caller has overwritten or deleted with an acknowledged write. *)
THEOREM NoStale == ASSUME ~LosesUnsynced PROVE Spec => []NoStaleValue
<1>1. RecoveryInv => NoStaleValue
    BY DEF RecoveryInv, StoreIsAllowed, NoStaleValue
<1> QED
    BY <1>1, RecoveryInvCorrect, PTL

-----------------------------------------------------------------------------
(* Refinement of DurableStore.                                             *)

(* What is being written is what a caller asked for.                       *)
OpIsRequest == op.kind = "data" => \E w \in Request : op = Data(w)

LEMMA OpIsRequestInit == Init => OpIsRequest
BY MarkType DEF Init, OpIsRequest, NoOp

LEMMA OpIsRequestNext == OpIsRequest /\ [Next]_vars => OpIsRequest'
<1> SUFFICES ASSUME OpIsRequest, [Next]_vars PROVE OpIsRequest'
    OBVIOUS
<1>1. NoOp.kind # "data" /\ Mark("checkpoint").kind # "data"
    BY MarkType DEF NoOp
<1>2. ASSUME NEW w \in Request, LogWrite(w) PROVE OpIsRequest'
    BY <1>2 DEF LogWrite, OpIsRequest
<1>3. CASE op' \in {op, NoOp, Mark("checkpoint")}
    BY <1>1, <1>3 DEF OpIsRequest
<1> QED
    BY <1>2, <1>3
       DEF Next, vars, LogFails, ApplyWrite, ApplyFails, WriteCheckpoint, Truncate, OpenTorn,
           OpenAndRecover, ReplayPut, ReplayPutsDone, ReplayDelete, FinishRecovery, Close, Crash

Refines == TypeOK /\ RecoveryInv /\ OpIsRequest

LEMMA RefinesCorrect == ASSUME ~LosesUnsynced PROVE Spec => []Refines
<1>1. OpIsRequest /\ [Next]_vars => OpIsRequest'
    BY OpIsRequestNext
<1>2. Spec => []OpIsRequest
    BY <1>1, OpIsRequestInit, PTL DEF Spec
<1> QED
    BY <1>2, TypeCorrect, RecoveryInvCorrect, PTL DEF Refines

(* The last put of an id is the one that CHOOSE finds.                     *)
LEMMA LastPutIsLast ==
    ASSUME LogIsAllowed, NEW id \in Ids, LivePuts(wal, id) # {}
    PROVE  LastPut(wal, id) \in DOMAIN wal /\ IsLastPut(wal, id, LastPut(wal, id))
<1>1. \E i \in DOMAIN wal : IsLastPut(wal, id, i)
    BY DEF LogIsAllowed
<1> QED
    BY <1>1 DEF LastPut

(* While the store is down a step leaves what recovery will bring back.    *)
LEMMA SettledStep ==
    ASSUME ~LosesUnsynced, TypeOK, RecoveryInv, [Next]_vars,
           status # "open", status' # "open"
    PROVE  Visible' = Visible
<1> USE DEF RecoveryInv
<1>1. SUFFICES ASSUME NEW id \in Ids PROVE Outcome(id)' = Outcome(id)
    BY DEF Visible
<1>2. CASE wal' = wal /\ store'[id] = store[id]
    BY <1>2 DEF Outcome, LastPut
<1>3. CASE OpenAndRecover \/ ReplayPutsDone
    BY <1>2, <1>3 DEF OpenAndRecover, ReplayPutsDone
<1>4. CASE ReplayPut
    <2>1. ~Torn(wal) /\ wal' = wal
        BY <1>4 DEF ReplayPut, ReplayIsOnTrack
    <2>2. LivePuts(wal, id) = {} => store'[id] = store[id]
        BY <1>4 DEF ReplayPut, LivePuts
    <2> QED
        BY <2>1, <2>2 DEF Outcome, LastPut
<1>5. CASE ReplayDelete
    <2>1. ~Torn(wal) /\ wal' = wal
        BY <1>5 DEF ReplayDelete, ReplayIsOnTrack
    <2>2. LiveDeletes(wal, id) = {} => store'[id] = store[id]
        BY <1>5 DEF ReplayDelete, LiveDeletes
    <2> QED
        BY <2>1, <2>2 DEF Outcome, LastPut
<1>6. CASE Crash
    <2>1. ~Touches(op, id)
        BY DEF OpIsLogged
    <2>2. store'[id] = store[id] /\ wal' = wal
        BY <1>6, <2>1, FlushPartEntries DEF Crash
    <2> QED
        BY <1>2, <2>2
<1>7. CASE UNCHANGED vars
    BY <1>2, <1>7 DEF vars
<1> QED
    BY <1>3, <1>4, <1>5, <1>6, <1>7
       DEF Next, LogWrite, LogFails, ApplyWrite, ApplyFails, WriteCheckpoint, Truncate,
           OpenTorn, FinishRecovery, Close

(* A recovery that crashes and starts over, however often, is going to     *)
(* bring back what the first one was going to.                             *)
THEOREM RecoveryIsSettledCorrect == ASSUME ~LosesUnsynced PROVE Spec => RecoveryIsSettled
<1>1. TypeOK /\ RecoveryInv /\ [Next]_vars
          => [status # "open" /\ status' # "open" => Visible' = Visible]_vars
    BY SettledStep
<1> QED
    BY <1>1, TypeCorrect, RecoveryInvCorrect, PTL DEF Spec, RecoveryIsSettled

(* The ids that a restart may drop.                                        *)
Deletable == {id \in Ids : \E i \in DOMAIN wal : id \in wal[i].dels}

LEMMA DeletableAppend ==
    ASSUME NEW log \in Seq(Record), NEW r \in Record, wal = log, wal' = Append(log, r)
    PROVE  Deletable' = Deletable \cup r.dels
<1>1. r.dels \subseteq Ids
    BY DEF Record
<1>2. /\ DOMAIN wal' = DOMAIN wal \cup {Len(log) + 1} /\ wal'[Len(log) + 1] = r
      /\ \A i \in DOMAIN wal : wal'[i] = wal[i]
    BY AppendRecord
<1> QED
    BY <1>1, <1>2 DEF Deletable

LEMMA InitRefines == Init => Store!Init
<1> SUFFICES ASSUME Init PROVE Store!Init
    OBVIOUS
<1>1. \A id \in Ids : Outcome(id) = store[id]
    BY EmptyLog DEF Init, Outcome
<1>2. Visible = NoPuts
    BY <1>1 DEF Init, Visible, NoPuts
<1> QED
    BY <1>2 DEF Init, Store!Init, Store!NoPuts, NoPuts

LEMMA NextRefines ==
    ASSUME ~LosesUnsynced, Refines, [Next]_vars
    PROVE  [Store!Next]_(Store!vars)
<1>1. /\ TypeOK /\ LogIsAllowed /\ OpIsLogged /\ ReplayIsOnTrack /\ durable = store
      /\ wal \in Seq(Record) /\ TypeOK'
    BY TypeOKNext DEF Refines, RecoveryInv, TypeOK
<1>2. \A id \in Ids : Visible[id] = IF status = "open" THEN store[id] ELSE Outcome(id)
    BY DEF Visible
<1>3. status = "open" => Visible = store
    BY <1>1 DEF Visible, TypeOK
<1>4. status' = "open" => Visible' = store'
    BY <1>1 DEF Visible, TypeOK
<1>5. CASE Visible' = Visible /\ admissible' = admissible /\ Deletable' = Deletable
    BY <1>5 DEF Store!vars, Deletable
<1>6. CASE Visible' = Visible /\ admissible' = admissible /\ Deletable' = {}
    BY <1>6 DEF Store!Next, Store!Forget, Deletable
<1>7. ASSUME NEW w \in Request, LogWrite(w) \/ LogFails(w) PROVE Store!Next
    <2>1. /\ status = "open" /\ status' = "open" /\ store' = store
          /\ admissible' = Widened(admissible, w)
          /\ wal' \in {wal, Append(wal, Mark("torn")), Append(wal, Data(w))}
        BY <1>7 DEF LogWrite, LogFails
    <2>2. /\ Data(w) \in Record /\ Data(w).dels = w.dels
          /\ Mark("torn") \in Record /\ Mark("torn").dels = {}
        BY RequestType, MarkType
    <2>3. Deletable' \in {Deletable, Deletable \cup w.dels}
        <3>1. CASE wal' = wal
            BY <3>1 DEF Deletable
        <3>2. CASE wal' = Append(wal, Mark("torn"))
            BY <1>1, <2>2, <3>2, DeletableAppend
        <3>3. CASE wal' = Append(wal, Data(w))
            BY <1>1, <2>2, <3>3, DeletableAppend
        <3> QED
            BY <2>1, <3>1, <3>2, <3>3
    <2>4. Visible' = Visible
        BY <1>3, <1>4, <2>1
    <2>5. Store!Submit(w)
        BY <2>1, <2>3, <2>4 DEF Store!Submit, Store!Widened, Widened, Store!Touches, Touches,
                                Deletable
    <2>6. w \in Store!Request
        BY DEF Request, Store!Request, Entry, Store!Entry, NoPuts, Store!NoPuts
    <2> QED
        BY <2>5, <2>6 DEF Store!Next
<1>8. CASE ApplyWrite
    <2>1. PICK w \in Request : op = Data(w)
        BY <1>8 DEF ApplyWrite, Refines, OpIsRequest
    <2>2. op.puts = w.puts /\ op.dels = w.dels
        BY <2>1, RequestType
    <2>3. /\ Visible = store /\ Visible' = Written(store, op)
          /\ admissible' = Settled(admissible, op) /\ wal' = wal
        BY <1>3, <1>4, <1>8 DEF ApplyWrite
    <2>4. Store!Acknowledge(w)
        BY <2>2, <2>3 DEF Store!Acknowledge, Store!Written, Written, Store!Settled, Settled,
                          Store!Touches, Touches
    <2>5. w \in Store!Request
        BY DEF Request, Store!Request, Entry, Store!Entry, NoPuts, Store!NoPuts
    <2> QED
        BY <2>4, <2>5 DEF Store!Next
<1>9. ASSUME wal' = wal, admissible' = admissible, Visible' \in [Ids -> Entry],
             \A id \in Ids : \/ Visible'[id] \in admissible[id] \cup {Visible[id]}
                             \/ Visible'[id] = NoVal /\ id \in Deletable
      PROVE  Store!Next
    BY <1>9 DEF Store!Next, Store!Revise, Store!Entry, Entry, Deletable
<1>10. CASE ApplyFails
    <2>1. /\ status = "open" /\ status' = "open" /\ wal' = wal /\ admissible' = admissible
          /\ FlushPart
        BY <1>10 DEF ApplyFails
    <2>2. \A id \in Ids : store'[id] \in admissible[id] \cup {store[id]}
        BY <1>1, <2>1, FlushPartEntries DEF OpIsLogged
    <2>3. store' \in [Ids -> Entry]
        BY <1>1 DEF TypeOK
    <2> QED
        BY <1>3, <1>4, <1>9, <2>1, <2>2, <2>3
<1>11. CASE WriteCheckpoint
    <2>1. Mark("checkpoint") \in Record /\ Mark("checkpoint").dels = {}
        BY MarkType
    <2>2. Deletable' = Deletable
        BY <1>1, <1>11, <2>1, DeletableAppend DEF WriteCheckpoint
    <2> QED
        BY <1>3, <1>4, <1>5, <1>11, <2>2 DEF WriteCheckpoint
<1>12. CASE Truncate
    <2>1. Deletable' = {}
        BY <1>12 DEF Truncate, Deletable
    <2> QED
        BY <1>3, <1>4, <1>6, <1>12, <2>1 DEF Truncate
<1>13. CASE OpenTorn
    <2>1. \A id \in Ids : Outcome(id) = store[id]
        BY <1>13 DEF OpenTorn, Outcome
    <2>2. Visible = store
        BY <1>1, <1>13, <2>1 DEF OpenTorn, Visible, TypeOK
    <2> QED
        BY <1>4, <1>5, <1>13, <2>2 DEF OpenTorn, Deletable
<1>14. CASE OpenAndRecover \/ ReplayPut \/ ReplayPutsDone \/ ReplayDelete
    <2>1. /\ status # "open" /\ status' # "open" /\ wal' = wal /\ admissible' = admissible
        BY <1>14 DEF OpenAndRecover, ReplayPut, ReplayPutsDone, ReplayDelete
    <2>2. Visible' = Visible
        BY <2>1, SettledStep DEF Refines
    <2> QED
        BY <1>5, <2>1, <2>2 DEF Deletable
<1>15. CASE FinishRecovery
    <2>1. /\ DeletesReplayed /\ ~Torn(wal) /\ replay.pos > Len(wal) /\ replay.pos \in Nat
          /\ status # "open" /\ status' = "open" /\ store' = store
        BY <1>1, <1>15, MaxLogAssumption DEF FinishRecovery, ReplayIsOnTrack, TypeOK
    <2>2. ASSUME NEW id \in Ids PROVE Outcome(id) = store[id]
        <3>1. CASE LiveDeletes(wal, id) # {}
            <4>1. PICK d \in LiveDeletes(wal, id) : d < replay.pos
                BY <1>1, <2>1, <3>1, LiveBounds
            <4> QED
                BY <2>1, <3>1, <4>1 DEF DeletesReplayed, Outcome
        <3>2. CASE LiveDeletes(wal, id) = {} /\ LivePuts(wal, id) # {}
            BY <1>1, <2>1, <3>2, LastPutIsLast DEF DeletesReplayed, Outcome
        <3>3. CASE LiveDeletes(wal, id) = {} /\ LivePuts(wal, id) = {}
            BY <3>3 DEF Outcome
        <3> QED
            BY <3>1, <3>2, <3>3
    <2>3. Visible = store
        BY <1>1, <2>1, <2>2 DEF Visible, TypeOK
    <2>4. Deletable' = {} /\ admissible' = admissible
        BY <1>15 DEF FinishRecovery, Deletable
    <2> QED
        BY <1>4, <1>6, <2>1, <2>3, <2>4
<1>16. CASE (Close \/ Crash) /\ status = "open"
    <2>1. /\ wal' = wal /\ admissible' = admissible /\ status' = "closed"
          /\ \A id \in Ids : store'[id] \in admissible[id] \cup {store[id]}
        BY <1>1, <1>16, FlushPartEntries DEF Close, Crash, OpIsLogged
    <2>3. Visible' \in [Ids -> Entry]
        <3>1. ASSUME NEW id \in Ids PROVE Outcome(id)' \in Entry
            <4>1. Outcome(id)' \in {store'[id], NoVal, wal[LastPut(wal, id)].puts[id]}
                BY <2>1 DEF Outcome
            <4>2. LivePuts(wal, id) # {} => wal[LastPut(wal, id)].puts[id] \in Entry
                <5>1. LivePuts(wal, id) # {} => wal[LastPut(wal, id)] \in Record
                    BY <1>1, LastPutIsLast
                <5> QED
                    BY <5>1 DEF Record
            <4>3. store'[id] \in Entry /\ NoVal \in Entry
                BY <1>1 DEF TypeOK, Entry
            <4> QED
                BY <2>1, <4>1, <4>2, <4>3 DEF Outcome
        <3> QED
            BY <2>1, <3>1 DEF Visible
    <2>4. SUFFICES ASSUME NEW id \in Ids
                   PROVE  \/ Visible'[id] \in admissible[id] \cup {Visible[id]}
                          \/ Visible'[id] = NoVal /\ id \in Deletable
        BY <1>9, <2>1, <2>3
    <2>5. Visible'[id] = Outcome(id)' /\ Visible[id] = store[id]
        BY <1>16, <2>1 DEF Visible
    <2>6. CASE Torn(wal)
        BY <2>1, <2>5, <2>6 DEF Outcome
    <2>7. CASE ~Torn(wal) /\ LiveDeletes(wal, id) # {}
        <3>1. id \in Deletable
            BY <2>7 DEF LiveDeletes, Live, Deletable
        <3> QED
            BY <2>1, <2>5, <2>7, <3>1 DEF Outcome
    <2>8. CASE ~Torn(wal) /\ LiveDeletes(wal, id) = {} /\ LivePuts(wal, id) # {}
        <3>1. Outcome(id)' = wal[LastPut(wal, id)].puts[id]
            BY <2>1, <2>8 DEF Outcome, LastPut
        <3>2. wal[LastPut(wal, id)].puts[id] \in admissible[id]
            BY <1>1, <2>8, LastPutIsLast DEF LogIsAllowed
        <3> QED
            BY <2>5, <3>1, <3>2
    <2>9. CASE ~Torn(wal) /\ LiveDeletes(wal, id) = {} /\ LivePuts(wal, id) = {}
        BY <2>1, <2>5, <2>9 DEF Outcome
    <2> QED
        BY <2>6, <2>7, <2>8, <2>9
<1>17. CASE Crash /\ status # "open"
    <2>1. Visible' = Visible /\ wal' = wal /\ admissible' = admissible
        BY <1>17, SettledStep DEF Refines, Crash
    <2> QED
        BY <1>5, <2>1 DEF Deletable
<1>18. CASE Close /\ status # "open"
    BY <1>18 DEF Close
<1>19. CASE UNCHANGED vars
    BY <1>5, <1>19 DEF vars, Visible, Outcome, LastPut, Deletable
<1> QED
    BY <1>7, <1>8, <1>10, <1>11, <1>12, <1>13, <1>14, <1>15, <1>16, <1>17, <1>18, <1>19 DEF Next

(* The store and its log implement the crash-safe map of DurableStore:     *)
(* whatever the caller and the failures do, each step is a step of the map *)
(* or changes nothing that a reader will find.                             *)
THEOREM StoreSpecCorrect == ASSUME ~LosesUnsynced PROVE Spec => StoreSpec
<1>1. Refines /\ [Next]_vars => [Store!Next]_(Store!vars)
    BY NextRefines
<1> QED
    BY <1>1, InitRefines, RefinesCorrect, PTL DEF Spec, StoreSpec, Store!Spec
=============================================================================
