----------------------------- MODULE UndoStoreProofs ---------------------------
(***************************************************************************)
(* The processes on one root, proved for every number of processes, runs,  *)
(* crashes and failing calls.  One transaction at a time, and a journal    *)
(* that is open never hidden by its metadata, if recover runs alone, the   *)
(* removal of the directory in Begin's cleanup does not fail and neither   *)
(* does the sync behind the unlink of a recovery that has undone; that     *)
(* nobody is inside a transaction that has not begun, whatever races and   *)
(* fails; and that recover accepts what is left, if moreover Begin comes   *)
(* to its end and no later append of such a recovery fails.                *)
(***************************************************************************)
EXTENDS UndoStore, FiniteSetTheorems, TLAPS

Disciplined == Exclusive /\ "drop dir" \notin FaultAt /\ "sync" \notin UndoFaultAt

\* Where a process holds the lock of its transaction, or is about to open that.
Inside == Beginning \cup Writing \cup {"open", "read owner", "unlink"}

\* Where a process is the one the lock is held for.
Owner(p) == \/ pc[p] \in Inside
            \/ cmd[p] = "rollback" /\ pc[p] \in Admitting

Looking == {"list", "inspect", "judge"}

\* The lock of an owner; it is empty until it is written.
LockOf(p) ==
  Owner(p) =>
    /\ id[p] \in Ids
    /\ pc[p] = "write lock" => lock = Blank
    /\ pc[p] = "drop lock" => lock \in {Blank, id[p]}
    /\ pc[p] \notin {"write lock", "drop lock"} => lock = id[p]

\* Which command is where, and that nobody keeps what Pending read.
PlaceOf(p) ==
  /\ pc[p] \notin {"idle", "list", "inspect"} => cmd[p] # "history"
  /\ pc[p] \in Beginning \cup {"create lock", "work"} => cmd[p] = "run"
  /\ cmd[p] = "run" /\ pc[p] # "idle" => id[p] \in Ids
  /\ pc[p] \in Inside \cup {"sync"} => id[p] \in Ids
  /\ pc[p] # "inspect" => names[p] = {}
  /\ pc[p] \notin {"inspect", "judge"} => found[p] = {}
  /\ pc[p] \notin Looking => seen[p] = None

\* Who undoes, and what the metadata in memory is where it is written.
MindOf(p) ==
  /\ undoing[p] => pc[p] \in {"enter", "undo", "mark", "close"} \cup Finishing \cup Failing
  /\ pc[p] \in {"enter", "undo"} \cup Failing => undoing[p]
  /\ pc[p] \in {"work", "create journal", "log begin"} => mem[p] = "open"
  /\ pc[p] \in {"enter", "undo", "mark", "close"} => Unresolved(mem[p])
  /\ pc[p] = "settle" => mem[p] \in {"decided", "cleaned"}

\* What an owner may rely on in the store.
RecordOf(p) ==
  Owner(p) =>
    /\ pc[p] = "drop lock" => ~Recorded(id[p])
    /\ pc[p] \in {"settle", "clean", "read owner", "unlink"} => log[id[p]] # "open"
    /\ pc[p] \in {"read owner", "unlink"} => meta[id[p]] = "cleaned"
    /\ pc[p] \in Writing \cup {"log begin", "read owner", "unlink"} => ~behind[p]
    /\ pc[p] \in {"create journal", "log begin", "work"} => meta[id[p]] = "open"
    /\ cmd[p] = "rollback" /\ pc[p] \in Admitting => meta[id[p]] = "open"
    /\ pc[p] \in Appending => Unresolved(meta[id[p]])

\* What Pending has read of a transaction that only this process can change.
SeenOf(p) ==
  /\ cmd[p] \in {"rollback", "recover"} /\ pc[p] \in Looking =>
       /\ seen[p] = lock
       /\ \A i \in found[p] : Unresolved(meta[i])
  /\ cmd[p] = "rollback" /\ pc[p] \in Looking =>
       \A i \in names[p] : meta[i] \notin {"none", "bare"}

PlaceInv == \A p \in Procs : PlaceOf(p) /\ MindOf(p)
OwnInv   == \A p \in Procs : LockOf(p) /\ RecordOf(p) /\ SeenOf(p)

AloneInv ==
  /\ \A p, q \in Procs : Owner(p) /\ Owner(q) => p = q
  /\ \A p, q \in Procs : Recovering(p) /\ p # q => ~Working(q) /\ ~Recovering(q)

Inv == TypeOK /\ LockGuards /\ OpenIsVisible /\ PlaceInv /\ OwnInv /\ AloneInv

\* The values of a lock are different ones.
LEMMA LockValues == None \notin Ids /\ Blank \notin Ids /\ None # Blank
  BY RunsAssumption, SMT DEF Ids, None, Blank

LEMMA NextId ==
  ASSUME runs \in Nat, runs < MaxRuns
  PROVE  runs + 1 \in Ids
  BY RunsAssumption DEF Ids

\* What an append, or its failure, makes of the journal of its transaction.
LEMMA AppendMoves ==
  ASSUME NEW p \in Procs, TypeOK, NEW s \in Logs, Append(p, s) \/ Tear(p) \/ Leaves(p, s)
  PROVE  /\ log' \in [Ids -> Logs] /\ behind' \in [Procs -> BOOLEAN]
         /\ \A i \in Ids : i # id[p] => log'[i] = log[i]
         /\ id[p] \in Ids => \/ log'[id[p]] \in {log[id[p]], s}
                             \/ log'[id[p]] = "corrupt" /\ (behind[p] \/ pc[p] = "spoil log")
         /\ id[p] \in Ids /\ log[id[p]] = "none" => log'[id[p]] = "none"
         /\ id[p] \in Ids /\ ~behind[p] /\ Append(p, s) => log'[id[p]] \in {s, "none"}
         /\ \A q \in Procs : behind'[q] = (behind[q] \/ (q # p /\ id[q] = id[p]))
<1>1. \A q \in Procs : behind'[q] = (behind[q] \/ (q # p /\ id[q] = id[p]))
  BY DEF Append, Tear, Leaves, PassBy
<1>2. behind' \in [Procs -> BOOLEAN]
  BY DEF Append, Tear, Leaves, PassBy, TypeOK
<1>3. PICK f \in Logs :
        /\ log' = [log EXCEPT ![id[p]] = f]
        /\ id[p] \in Ids => \/ f \in {log[id[p]], s}
                            \/ f = "corrupt" /\ (behind[p] \/ pc[p] = "spoil log")
        /\ id[p] \in Ids /\ log[id[p]] = "none" => f = "none"
  <2>1. id[p] \in Ids => log[id[p]] \in Logs
    BY DEF TypeOK
  <2>2. \A t \in Logs : id[p] \in Ids => Frames(p, t) \subseteq Logs
    BY <2>1 DEF Frames, Logs
  <2>3. CASE id[p] \notin Ids
    <3>1. \A f : [log EXCEPT ![id[p]] = f] = log
      BY <2>3 DEF TypeOK
    <3>2. log' = log
      BY <3>1 DEF Append, Tear, Leaves
    <3> QED
      BY <2>3, <3>1, <3>2
  <2>4. CASE id[p] \in Ids
    <3>1. CASE Append(p, s)
      BY <2>1, <2>2, <2>4, <3>1 DEF Append, Frames
    <3>2. CASE Tear(p)
      <4>1. PICK f \in {log[id[p]]} \cup Frames(p, "corrupt") :
              /\ f # log[id[p]] => behind[p] \/ pc[p] = "spoil log"
              /\ log' = [log EXCEPT ![id[p]] = f]
        BY <3>2 DEF Tear
      <4>2. f \in Logs /\ (f = log[id[p]] \/ (f = "corrupt" /\ log[id[p]] # "none"))
        BY <2>1, <2>4, <4>1 DEF Frames, Logs
      <4> QED
        BY <2>4, <4>1, <4>2
    <3> QED
      BY <3>1, <3>2 DEF Leaves
  <2> QED
    BY <2>3, <2>4
<1>4. id[p] \in Ids /\ ~behind[p] /\ Append(p, s) => log'[id[p]] \in {s, "none"}
  BY DEF Append, Frames, TypeOK
<1> QED
  BY <1>1, <1>2, <1>3, <1>4 DEF TypeOK

\* The counters are numbers.
LEMMA Counts ==
  ASSUME NEW p \in Procs, runs \in Nat, crashes \in Nat, faults \in Nat,
         Start(p) \/ Step(p) \/ Crash(p)
  PROVE  runs' \in Nat /\ crashes' \in Nat /\ faults' \in Nat
<1> USE DEF disk, counts
<1>1. CASE Start(p)
  <2>1. /\ runs' \in {runs, runs + 1} /\ crashes' \in {crashes, crashes + 1}
        /\ faults' \in {faults, faults + 1}
    BY <1>1 DEF Start, StartRun, StartRecover, StartHistory
  <2> QED
    BY <2>1
<1>2. CASE Look(p)
  <2>1. /\ runs' \in {runs, runs + 1} /\ crashes' \in {crashes, crashes + 1}
        /\ faults' \in {faults, faults + 1}
    BY <1>2 DEF Look, ReadLock, ReadLockFails, List, Inspect, InspectFails, Inspected, Listed,
        JudgeFails, Admit, Block, NothingPending, Take, Stop, End
  <2> QED
    BY <2>1
<1>3. CASE Begin(p)
  <2>1. /\ runs' \in {runs, runs + 1} /\ crashes' \in {crashes, crashes + 1}
        /\ faults' \in {faults, faults + 1}
    BY <1>3 DEF Begin, CreateLock, LockTaken, CreateLockFails, WriteLock, WriteLockFails,
        MakeDir, MakeDirFails, WriteMeta, WriteMetaFails, CreateJournal, LogBegin,
        JournalFails, DropPart, DropDir, DropLock, DropDirFails, DropLockFails, Stop, End,
        Fault
  <2> QED
    BY <2>1
<1>4. CASE Execute(p)
  <2>1. /\ runs' \in {runs, runs + 1} /\ crashes' \in {crashes, crashes + 1}
        /\ faults' \in {faults, faults + 1}
    BY <1>4 DEF Execute, Work, WorkDone, WorkFails, Open, OpenRefused, OpenFails, Enter,
        EnterFails, Undo, UndoDone, UndoRefused, UndoFails, AppendFails, Mark, Close,
        Settle, SettleFails, Clean, CleanFails, Stop, End, Fault, Fails, Ends
  <2> QED
    BY <2>1
<1>5. CASE Release(p)
  <2>1. /\ runs' \in {runs, runs + 1} /\ crashes' \in {crashes, crashes + 1}
        /\ faults' \in {faults, faults + 1}
    BY <1>5 DEF Release, ReadOwner, NotOwner, Unlink, UnlinkGone, Sync, ReleaseFails, Stop,
        End, Ends, Fault
  <2> QED
    BY <2>1
<1>6. CASE Fail(p)
  <2>1. /\ runs' \in {runs, runs + 1} /\ crashes' \in {crashes, crashes + 1}
        /\ faults' \in {faults, faults + 1}
    BY <1>6 DEF Fail, FailLog, SpoilLog, FailMeta, FailFails, Stop, End, Fault
  <2> QED
    BY <2>1
<1>7. CASE Crash(p)
  <2>1. /\ runs' \in {runs, runs + 1} /\ crashes' \in {crashes, crashes + 1}
        /\ faults' \in {faults, faults + 1}
    BY <1>7 DEF Crash
  <2> QED
    BY <2>1
<1> QED
  BY <1>1, <1>2, <1>3, <1>4, <1>5, <1>6, <1>7 DEF Start, Step

\* The end of a command keeps the types of its memory.
LEMMA StopTypes ==
  ASSUME NEW p \in Procs, TypeOK, NEW a \in Answers, Stop(p, a)
  PROVE  /\ pc' \in [Procs -> Locations] /\ cmd' \in [Procs -> Commands]
         /\ id' \in [Procs -> Ids \cup {None}] /\ mem' \in [Procs -> Metas]
         /\ undoing' \in [Procs -> BOOLEAN] /\ answer' \in [Procs -> Answers]
         /\ seen' \in [Procs -> Ids \cup {None}] /\ names' \in [Procs -> SUBSET Ids]
         /\ found' \in [Procs -> SUBSET Ids]
<1>1. "idle" \in Locations /\ "none" \in Metas
  BY DEF Locations, Metas
<1>2. /\ pc' = [pc EXCEPT ![p] = "idle"] /\ id' = [id EXCEPT ![p] = None]
      /\ mem' = [mem EXCEPT ![p] = "none"] /\ undoing' = [undoing EXCEPT ![p] = FALSE]
      /\ seen' = [seen EXCEPT ![p] = None] /\ names' = [names EXCEPT ![p] = {}]
      /\ found' = [found EXCEPT ![p] = {}] /\ answer' = [answer EXCEPT ![p] = a] /\ cmd' = cmd
  BY DEF Stop, Forget, Goto
<1>3. /\ pc' \in [Procs -> Locations] /\ cmd' \in [Procs -> Commands]
      /\ id' \in [Procs -> Ids \cup {None}] /\ mem' \in [Procs -> Metas]
  BY <1>1, <1>2 DEF TypeOK
<1>4. undoing' \in [Procs -> BOOLEAN] /\ answer' \in [Procs -> Answers]
  BY <1>1, <1>2 DEF TypeOK
<1>5. /\ seen' \in [Procs -> Ids \cup {None}] /\ names' \in [Procs -> SUBSET Ids]
      /\ found' \in [Procs -> SUBSET Ids]
  BY <1>1, <1>2 DEF TypeOK
<1> QED
  BY <1>3, <1>4, <1>5

LEMMA FailureAnswers == \A p \in Procs : Failure(p) \in Answers /\ "failed" \in Answers
  BY DEF Failure, Answers

LEMMA EndTypes ==
  ASSUME NEW p \in Procs, TypeOK, NEW m \in Metas, Ends(p, m)
  PROVE  /\ pc' \in [Procs -> Locations] /\ cmd' \in [Procs -> Commands]
         /\ id' \in [Procs -> Ids \cup {None}] /\ mem' \in [Procs -> Metas]
         /\ undoing' \in [Procs -> BOOLEAN] /\ answer' \in [Procs -> Answers]
         /\ seen' \in [Procs -> Ids \cup {None}] /\ names' \in [Procs -> SUBSET Ids]
         /\ found' \in [Procs -> SUBSET Ids] /\ behind' = behind
<1>1. CASE Stop(p, Failure(p)) /\ behind' = behind
  BY <1>1, StopTypes, FailureAnswers
<1>2. CASE /\ Goto(p, "fail meta") /\ mem' = [mem EXCEPT ![p] = m]
           /\ UNCHANGED <<cmd, id, undoing, behind, answer, reads>>
  <2>1. "fail meta" \in Locations
    BY DEF Locations, Failing
  <2>2. pc' \in [Procs -> Locations] /\ mem' \in [Procs -> Metas]
    BY <1>2, <2>1, ZenonT(60) DEF Goto, TypeOK
  <2> QED
    BY <1>2, <2>2 DEF TypeOK, reads
<1> QED
  BY <1>1, <1>2 DEF Ends, End

\* Every step keeps the types.
LEMMA Types ==
  ASSUME NEW p \in Procs, TypeOK, PlaceOf(p), MindOf(p),
         runs' \in Nat, crashes' \in Nat, faults' \in Nat, Start(p) \/ Step(p) \/ Crash(p)
  PROVE  TypeOK'
<1> USE DEF TypeOK, PlaceOf, MindOf, Inside, Metas, Logs, Commands, Answers, Refusals,
    Locations, Admitting, Beginning, Appending, Finishing, Failing, Writing, disk, memory,
    reads, counts
<1>1. CASE StartRun(p)
  <2>1. runs + 1 \in Ids
    BY <1>1, NextId DEF StartRun
  <2> QED
    BY <1>1, <2>1 DEF StartRun, Goto
<1>2. CASE StartRecover(p)
  BY <1>2 DEF StartRecover, Goto
<1>3. CASE StartHistory(p)
  BY <1>3 DEF StartHistory, Goto
<1>4. CASE ReadLock(p)
  BY <1>4 DEF ReadLock, Goto
<1>5. CASE ReadLockFails(p)
  BY <1>5 DEF ReadLockFails, Goto, Stop, End, Forget
<1>6. CASE List(p)
  BY <1>6 DEF List, Goto
<1>7. CASE Inspect(p)
  <2>1. PICK i \in names[p] : /\ names' = [names EXCEPT ![p] = @ \ {i}]
                             /\ meta[i] \notin {"none", "bare"}
                             /\ found' = [found EXCEPT ![p] = IF Unresolved(meta[i]) THEN @ \cup {i} ELSE @]
    BY <1>7 DEF Inspect
  <2>2. names[p] \subseteq Ids /\ found[p] \subseteq Ids
    OBVIOUS
  <2>3. names' \in [Procs -> SUBSET Ids]
    BY <2>1, <2>2
  <2>4. found' \in [Procs -> SUBSET Ids]
    BY <2>1, <2>2, ZenonT(60)
  <2> QED
    BY <1>7, <2>3, <2>4 DEF Inspect
<1>8. CASE InspectFails(p)
  BY <1>8 DEF InspectFails, Goto, Stop, End, Forget
<1>9. CASE Inspected(p)
  BY <1>9 DEF Inspected, Goto
<1>10. CASE Listed(p)
  BY <1>10 DEF Listed, Goto, Stop, End, Forget
<1>11. CASE JudgeFails(p)
  BY <1>11 DEF JudgeFails, Goto, Stop, End, Forget, Refusal
<1>12. CASE Admit(p)
  BY <1>12 DEF Admit, Goto, Refusal, Pending
<1>13. CASE Block(p)
  BY <1>13 DEF Block, Goto, Stop, End, Forget, Refusal, Pending
<1>14. CASE NothingPending(p)
  BY <1>14 DEF NothingPending, Goto, Stop, End, Forget, Refusal, Pending
<1>15. CASE Take(p)
  <2>1. PICK i \in Pending(p) : id' = [id EXCEPT ![p] = i]
    BY <1>15 DEF Take
  <2>2. i \in Ids
    BY <2>1 DEF Pending
  <2> QED
    BY <1>15, <2>1, <2>2 DEF Take, Goto
<1>16. CASE CreateLock(p)
  BY <1>16 DEF CreateLock, Goto, SetLock
<1>17. CASE LockTaken(p)
  BY <1>17 DEF LockTaken, Goto, Stop, End, Forget
<1>18. CASE CreateLockFails(p)
  BY <1>18 DEF CreateLockFails, Goto, Stop, End, Forget, Fault
<1>19. CASE WriteLock(p)
  BY <1>19 DEF WriteLock, Goto, SetLock
<1>20. CASE WriteLockFails(p)
  <2>1. id[p] \in Ids
    BY <1>20 DEF WriteLockFails
  <2>2. PICK v \in {lock, id[p]} : lock' = v
    BY <1>20 DEF WriteLockFails, SetLock
  <2>3. lock' \in Ids \cup {None, Blank}
    BY <2>1, <2>2
  <2> QED
    BY <1>20, <2>3 DEF WriteLockFails, Goto
<1>21. CASE MakeDir(p)
  BY <1>21 DEF MakeDir, Goto, SetMeta
<1>22. CASE MakeDirFails(p)
  <2>1. PICK s \in {meta[id[p]], "bare"} : SetMeta(p, s)
    BY <1>22 DEF MakeDirFails
  <2>2. \A i \in Ids : meta[i] \in Metas
    OBVIOUS
  <2>3. meta' = [meta EXCEPT ![id[p]] = s] /\ id[p] \in Ids
    BY <1>22, <2>1 DEF MakeDirFails, SetMeta
  <2>4. s \in Metas
    BY <2>1, <2>2, <2>3
  <2>5. meta' \in [Ids -> Metas]
    BY <2>3, <2>4
  <2> QED
    BY <1>22, <2>5 DEF MakeDirFails, Goto
<1>23. CASE WriteMeta(p)
  BY <1>23 DEF WriteMeta, Goto, SetMeta, Missing, Save
<1>24. CASE WriteMetaFails(p)
  <2>1. PICK s \in {meta[id[p]], "open"} : SetMeta(p, s)
    BY <1>24 DEF WriteMetaFails
  <2>2. \A i \in Ids : meta[i] \in Metas
    OBVIOUS
  <2>3. meta' = [meta EXCEPT ![id[p]] = s] /\ id[p] \in Ids
    BY <1>24, <2>1 DEF WriteMetaFails, SetMeta
  <2>4. s \in Metas
    BY <2>1, <2>2, <2>3
  <2>5. meta' \in [Ids -> Metas]
    BY <2>3, <2>4
  <2> QED
    BY <1>24, <2>5 DEF WriteMetaFails, Goto
<1>25. CASE CreateJournal(p)
  BY <1>25 DEF CreateJournal, Goto, SetLog
<1>26. CASE LogBegin(p)
  BY <1>26, AppendMoves DEF LogBegin, Goto
<1>27. CASE JournalFails(p)
  <2>1. PICK s \in {log[id[p]], IF pc[p] = "log begin" THEN "open" ELSE "empty"} : SetLog(p, s)
    BY <1>27 DEF JournalFails
  <2>2. \A i \in Ids : log[i] \in Logs
    OBVIOUS
  <2>3. log' = [log EXCEPT ![id[p]] = s] /\ id[p] \in Ids
    BY <1>27, <2>1 DEF JournalFails, SetLog
  <2>4. s \in Logs
    BY <2>1, <2>2, <2>3
  <2>5. log' \in [Ids -> Logs]
    BY <2>3, <2>4
  <2> QED
    BY <1>27, <2>5 DEF JournalFails, Goto
<1>28. CASE DropPart(p)
  <2>1. id[p] \in Ids
    BY <1>28 DEF DropPart
  <2>2. CASE SetMeta(p, "bare") /\ UNCHANGED log
    BY <1>28, <2>1, <2>2 DEF DropPart, SetMeta
  <2>3. CASE SetLog(p, "none") /\ UNCHANGED meta
    BY <1>28, <2>1, <2>3 DEF DropPart, SetLog
  <2> QED
    BY <1>28, <2>2, <2>3 DEF DropPart
<1>29. CASE DropDir(p)
  BY <1>29 DEF DropDir, Goto, SetMeta
<1>30. CASE DropLock(p)
  BY <1>30 DEF DropLock, Goto, Stop, End, Forget, SetLock
<1>31. CASE DropDirFails(p)
  BY <1>31 DEF DropDirFails, Goto, Fault, Crowded
<1>32. CASE DropLockFails(p)
  BY <1>32 DEF DropLockFails, Goto, Stop, End, Forget, Fault
<1>33. CASE Work(p)
  <2>1. meta' \in [Ids -> Metas]
    BY <1>33 DEF Work, Save, SetMeta
  <2>2. log' \in [Ids -> Logs] /\ behind' \in [Procs -> BOOLEAN]
    BY <1>33, AppendMoves DEF Work
  <2> QED
    BY <1>33, <2>1, <2>2 DEF Work
<1>34. CASE WorkDone(p)
  BY <1>34 DEF WorkDone, Goto
<1>35. CASE WorkFails(p)
  BY <1>35 DEF WorkFails, Goto
<1>36. CASE Open(p)
  <2>1. Ended(meta[id[p]]) \in Metas /\ Unended(meta[id[p]]) \in Metas
    BY DEF Ended, Unended
  <2>2. behind' \in [Procs -> BOOLEAN]
    <3>1. PICK cut \in BOOLEAN :
            behind' = [q \in Procs |-> q # p /\ (behind[q] \/ (cut /\ id[q] = id[p]))]
      BY <1>36 DEF Open
    <3> QED
      BY <3>1
  <2>3. mem' \in [Procs -> Metas]
    BY <1>36, <2>1 DEF Open
  <2>4. pc' \in [Procs -> Locations] /\ undoing' \in [Procs -> BOOLEAN]
    BY <1>36 DEF Open, Goto
  <2> QED
    BY <1>36, <2>2, <2>3, <2>4 DEF Open
<1>37. CASE OpenRefused(p)
  BY <1>37 DEF OpenRefused, Goto, Stop, End, Forget, Readable
<1>38. CASE OpenFails(p)
  BY <1>38 DEF OpenFails, Goto, Stop, End, Forget, Fault
<1>39. CASE Enter(p)
  BY <1>39, AppendMoves DEF Enter, Goto, SetMeta, Missing, Save
<1>40. CASE EnterFails(p)
  <2>1. mem[p] \in Metas /\ "open" \in Logs
    OBVIOUS
  <2>2. meta' \in [Ids -> Metas]
    BY <1>40, <2>1 DEF EnterFails, Save, SetMeta
  <2>3. log' \in [Ids -> Logs] /\ behind' \in [Procs -> BOOLEAN]
    <3>1. UNCHANGED <<log, behind>> \/ Leaves(p, "open")
      BY <1>40 DEF EnterFails
    <3> QED
      BY <2>1, <3>1, AppendMoves
  <2>4. CASE Stop(p, "failed")
    BY <1>40, <2>2, <2>3, <2>4, StopTypes, FailureAnswers DEF EnterFails
  <2>5. CASE ~Stop(p, "failed")
    <3>1. (Goto(p, "fail log") \/ Goto(p, "fail meta")) /\ UNCHANGED <<id, mem, undoing, answer, cmd, reads>>
      BY <1>40, <2>5 DEF EnterFails
    <3>2. PICK l \in {"fail log", "fail meta"} : pc' = [pc EXCEPT ![p] = l]
      BY <3>1 DEF Goto
    <3>3. pc' \in [Procs -> Locations]
      BY <3>2
    <3> QED
      BY <1>40, <2>2, <2>3, <3>1, <3>3 DEF EnterFails
  <2> QED
    BY <2>4, <2>5
<1>41. CASE Undo(p)
  BY <1>41, AppendMoves DEF Undo
<1>42. CASE UndoDone(p)
  BY <1>42 DEF UndoDone, Goto
<1>43. CASE UndoRefused(p)
  BY <1>43 DEF UndoRefused, Goto
<1>44. CASE UndoFails(p)
  BY <1>44 DEF UndoFails, Goto, Missing, Fault, Fails
<1>45. CASE AppendFails(p)
  <2>1. {"open", "decided"} \subseteq Logs
    OBVIOUS
  <2>2. PICK s \in {"open", "decided"} :
          /\ UNCHANGED <<log, behind>> \/ Leaves(p, s)
          /\ \/ Stop(p, Failure(p))
             \/ /\ \E l \in {"read lock", "fail log", "spoil log"} : Goto(p, l)
                /\ cmd' \in {cmd, [cmd EXCEPT ![p] = "rollback"]}
                /\ UNCHANGED <<id, mem, undoing, answer, reads>>
    BY <1>45 DEF AppendFails
  <2>3. log' \in [Ids -> Logs] /\ behind' \in [Procs -> BOOLEAN]
    BY <2>1, <2>2, AppendMoves, ZenonT(60)
  <2>4. CASE Stop(p, Failure(p))
    BY <1>45, <2>3, <2>4, StopTypes, FailureAnswers DEF AppendFails
  <2>5. CASE ~Stop(p, Failure(p))
    <3>1. PICK l \in {"read lock", "fail log", "spoil log"} : pc' = [pc EXCEPT ![p] = l]
      BY <2>2, <2>5 DEF Goto
    <3>2. pc' \in [Procs -> Locations]
      BY <3>1
    <3>3. cmd' \in [Procs -> Commands]
      BY <2>2, <2>5
    <3> QED
      <4>1. UNCHANGED <<id, mem, undoing, answer, reads>>
        BY <2>2, <2>5
      <4>2. UNCHANGED <<lock, meta, torn, runs>>
        BY <1>45 DEF AppendFails
      <4> QED
        BY <2>3, <3>2, <3>3, <4>1, <4>2
  <2> QED
    BY <2>4, <2>5
<1>46. CASE Mark(p)
  BY <1>46, AppendMoves DEF Mark, Goto
<1>47. CASE Close(p)
  BY <1>47, AppendMoves DEF Close, Goto, Ended
<1>48. CASE Settle(p)
  BY <1>48 DEF Settle, Goto, SetMeta, Missing, Save
<1>49. CASE SettleFails(p)
  <2>1. mem[p] \in Metas /\ "cleaned" \in Metas
    OBVIOUS
  <2>2. /\ pc' \in [Procs -> Locations] /\ cmd' \in [Procs -> Commands]
        /\ id' \in [Procs -> Ids \cup {None}] /\ mem' \in [Procs -> Metas]
        /\ undoing' \in [Procs -> BOOLEAN] /\ answer' \in [Procs -> Answers]
        /\ seen' \in [Procs -> Ids \cup {None}] /\ names' \in [Procs -> SUBSET Ids]
        /\ found' \in [Procs -> SUBSET Ids] /\ behind' = behind
    BY <1>49, <2>1, EndTypes DEF SettleFails
  <2>3. meta' \in [Ids -> Metas] /\ UNCHANGED <<lock, log, torn>>
    BY <1>49, <2>1 DEF SettleFails, Save, SetMeta
  <2> QED
    BY <2>2, <2>3
<1>50. CASE Clean(p)
  BY <1>50 DEF Clean, Goto, SetMeta, Missing, Save
<1>51. CASE CleanFails(p)
  <2>1. "cleaned" \in Metas /\ mem[p] \in Metas
    OBVIOUS
  <2>2. PICK m \in Metas : Ends(p, m)
    BY <1>51, <2>1 DEF CleanFails
  <2>3. UNCHANGED meta \/ Save(p, "cleaned")
    BY <1>51 DEF CleanFails
  <2>4. meta' \in [Ids -> Metas]
    BY <2>3 DEF Save, SetMeta
  <2>5. UNCHANGED <<lock, log, torn>>
    BY <1>51 DEF CleanFails
  <2> QED
    BY <2>2, <2>4, <2>5, EndTypes, ZenonT(60)
<1>52. CASE ReadOwner(p)
  BY <1>52 DEF ReadOwner, Goto
<1>53. CASE NotOwner(p)
  <2>1. CASE Ends(p, mem[p])
    BY <1>53, <2>1, EndTypes DEF NotOwner
  <2>2. CASE ~Ends(p, mem[p])
    BY <1>53, <2>2, ZenonT(60) DEF NotOwner, Goto
  <2> QED
    BY <2>1, <2>2
<1>54. CASE Unlink(p)
  BY <1>54 DEF Unlink, Goto, SetLock
<1>55. CASE UnlinkGone(p)
  <2>1. mem[p] \in Metas /\ "cleaned" \in Metas
    OBVIOUS
  <2>2. /\ pc' \in [Procs -> Locations] /\ cmd' \in [Procs -> Commands]
        /\ id' \in [Procs -> Ids \cup {None}] /\ mem' \in [Procs -> Metas]
        /\ undoing' \in [Procs -> BOOLEAN] /\ answer' \in [Procs -> Answers]
        /\ seen' \in [Procs -> Ids \cup {None}] /\ names' \in [Procs -> SUBSET Ids]
        /\ found' \in [Procs -> SUBSET Ids] /\ behind' = behind
    BY <1>55, <2>1, EndTypes DEF UnlinkGone
  <2>3. meta' \in [Ids -> Metas] /\ UNCHANGED <<lock, log, torn>>
    BY <1>55, <2>1 DEF UnlinkGone, Save, SetMeta
  <2> QED
    BY <2>2, <2>3
<1>56. CASE Sync(p)
  BY <1>56 DEF Sync, Goto, Stop, End, Forget, Outcome
<1>57. CASE ReleaseFails(p)
  <2>1. mem[p] \in Metas /\ "cleaned" \in Metas
    OBVIOUS
  <2>2. /\ pc' \in [Procs -> Locations] /\ cmd' \in [Procs -> Commands]
        /\ id' \in [Procs -> Ids \cup {None}] /\ mem' \in [Procs -> Metas]
        /\ undoing' \in [Procs -> BOOLEAN] /\ answer' \in [Procs -> Answers]
        /\ seen' \in [Procs -> Ids \cup {None}] /\ names' \in [Procs -> SUBSET Ids]
        /\ found' \in [Procs -> SUBSET Ids] /\ behind' = behind
    BY <1>57, <2>1, EndTypes DEF ReleaseFails
  <2>3. meta' \in [Ids -> Metas] /\ UNCHANGED <<lock, log, torn>>
    BY <1>57, <2>1 DEF ReleaseFails, Save, SetMeta
  <2> QED
    BY <2>2, <2>3
<1>58. CASE FailLog(p)
  BY <1>58, AppendMoves DEF FailLog, Goto
<1>59. CASE SpoilLog(p)
  <2>1. log' \in [Ids -> Logs]
    BY <1>59, AppendMoves DEF SpoilLog
  <2>2. behind' \in [Procs -> BOOLEAN]
    BY <1>59 DEF SpoilLog, Append, PassBy
  <2> QED
    BY <1>59, <2>1, <2>2 DEF SpoilLog, Goto
<1>60. CASE FailMeta(p)
  BY <1>60 DEF FailMeta, Goto, Stop, End, Forget, SetMeta, Missing, Save, Unended
<1>61. CASE FailFails(p)
  BY <1>61, AppendMoves DEF FailFails, Goto, Stop, Forget, Fault
<1>62. CASE Crash(p)
  BY <1>62, AppendMoves DEF Crash, Goto, Forget
<1> QED
  BY <1>1, <1>2, <1>3, <1>4, <1>5, <1>6, <1>7, <1>8, <1>9, <1>10, <1>11, <1>12, <1>13,
      <1>14, <1>15, <1>16, <1>17, <1>18, <1>19, <1>20, <1>21, <1>22, <1>23, <1>24, <1>25,
      <1>26, <1>27, <1>28, <1>29, <1>30, <1>31, <1>32, <1>33, <1>34, <1>35, <1>36, <1>37,
      <1>38, <1>39, <1>40, <1>41, <1>42, <1>43, <1>44, <1>45, <1>46, <1>47, <1>48, <1>49,
      <1>50, <1>51, <1>52, <1>53, <1>54, <1>55, <1>56, <1>57, <1>58, <1>59, <1>60, <1>61,
      <1>62 DEF Start, Step, Look, Begin, Execute, Release, Fail

\* A step leaves the memory of the other processes alone.
LEMMA OthersStay ==
  ASSUME NEW p \in Procs, TypeOK,
         Start(p) \/ Step(p) \/ Crash(p)
  PROVE  \A q \in Procs : q # p =>
           /\ pc'[q] = pc[q] /\ cmd'[q] = cmd[q] /\ id'[q] = id[q] /\ mem'[q] = mem[q]
           /\ undoing'[q] = undoing[q] /\ answer'[q] = answer[q]
           /\ seen'[q] = seen[q] /\ names'[q] = names[q] /\ found'[q] = found[q]
<1> USE DEF TypeOK, disk, memory, reads, counts
<1>1. CASE StartRun(p)
  BY <1>1 DEF StartRun, Goto
<1>2. CASE StartRecover(p)
  BY <1>2 DEF StartRecover, Goto
<1>3. CASE StartHistory(p)
  BY <1>3 DEF StartHistory, Goto
<1>4. CASE ReadLock(p)
  BY <1>4 DEF ReadLock, Goto
<1>5. CASE ReadLockFails(p)
  BY <1>5 DEF ReadLockFails, Goto, Stop, End, Forget
<1>6. CASE List(p)
  BY <1>6 DEF List, Goto
<1>7. CASE Inspect(p)
  BY <1>7 DEF Inspect
<1>8. CASE InspectFails(p)
  BY <1>8 DEF InspectFails, Goto, Stop, End, Forget
<1>9. CASE Inspected(p)
  BY <1>9 DEF Inspected, Goto
<1>10. CASE Listed(p)
  BY <1>10 DEF Listed, Goto, Stop, End, Forget
<1>11. CASE JudgeFails(p)
  BY <1>11 DEF JudgeFails, Goto, Stop, End, Forget
<1>12. CASE Admit(p)
  BY <1>12 DEF Admit, Goto
<1>13. CASE Block(p)
  BY <1>13 DEF Block, Goto, Stop, End, Forget
<1>14. CASE NothingPending(p)
  BY <1>14 DEF NothingPending, Goto, Stop, End, Forget
<1>15. CASE Take(p)
  BY <1>15 DEF Take, Goto
<1>16. CASE CreateLock(p)
  BY <1>16 DEF CreateLock, Goto
<1>17. CASE LockTaken(p)
  BY <1>17 DEF LockTaken, Goto, Stop, End, Forget
<1>18. CASE CreateLockFails(p)
  BY <1>18 DEF CreateLockFails, Goto, Stop, End, Forget
<1>19. CASE WriteLock(p)
  BY <1>19 DEF WriteLock, Goto
<1>20. CASE WriteLockFails(p)
  BY <1>20 DEF WriteLockFails, Goto
<1>21. CASE MakeDir(p)
  BY <1>21 DEF MakeDir, Goto
<1>22. CASE MakeDirFails(p)
  BY <1>22 DEF MakeDirFails, Goto
<1>23. CASE WriteMeta(p)
  BY <1>23 DEF WriteMeta, Goto
<1>24. CASE WriteMetaFails(p)
  BY <1>24 DEF WriteMetaFails, Goto
<1>25. CASE CreateJournal(p)
  BY <1>25 DEF CreateJournal, Goto
<1>26. CASE LogBegin(p)
  BY <1>26 DEF LogBegin, Goto
<1>27. CASE JournalFails(p)
  BY <1>27 DEF JournalFails, Goto
<1>28. CASE DropPart(p)
  BY <1>28 DEF DropPart
<1>29. CASE DropDir(p)
  BY <1>29 DEF DropDir, Goto
<1>30. CASE DropLock(p)
  BY <1>30 DEF DropLock, Goto, Stop, End, Forget
<1>31. CASE DropDirFails(p)
  BY <1>31 DEF DropDirFails, Goto
<1>32. CASE DropLockFails(p)
  BY <1>32 DEF DropLockFails, Goto, Stop, End, Forget
<1>33. CASE Work(p)
  BY <1>33 DEF Work
<1>34. CASE WorkDone(p)
  BY <1>34 DEF WorkDone, Goto
<1>35. CASE WorkFails(p)
  BY <1>35 DEF WorkFails, Goto
<1>36. CASE Open(p)
  BY <1>36 DEF Open, Goto
<1>37. CASE OpenRefused(p)
  BY <1>37 DEF OpenRefused, Goto, Stop, End, Forget
<1>38. CASE OpenFails(p)
  BY <1>38 DEF OpenFails, Goto, Stop, End, Forget
<1>39. CASE Enter(p)
  BY <1>39 DEF Enter, Goto
<1>40. CASE EnterFails(p)
  BY <1>40 DEF EnterFails, Goto, Stop, Forget
<1>41. CASE Undo(p)
  BY <1>41 DEF Undo
<1>42. CASE UndoDone(p)
  BY <1>42 DEF UndoDone, Goto
<1>43. CASE UndoRefused(p)
  BY <1>43 DEF UndoRefused, Goto
<1>44. CASE UndoFails(p)
  BY <1>44 DEF UndoFails, Goto
<1>45. CASE AppendFails(p)
  BY <1>45 DEF AppendFails, Goto, Stop, Forget
<1>46. CASE Mark(p)
  BY <1>46 DEF Mark, Goto
<1>47. CASE Close(p)
  BY <1>47 DEF Close, Goto
<1>48. CASE Settle(p)
  BY <1>48 DEF Settle, Goto
<1>49. CASE SettleFails(p)
  BY <1>49 DEF SettleFails, Goto, Stop, End, Forget, Ends
<1>50. CASE Clean(p)
  BY <1>50 DEF Clean, Goto
<1>51. CASE CleanFails(p)
  BY <1>51 DEF CleanFails, Goto, Stop, End, Forget, Ends
<1>52. CASE ReadOwner(p)
  BY <1>52 DEF ReadOwner, Goto
<1>53. CASE NotOwner(p)
  BY <1>53 DEF NotOwner, Goto, Stop, End, Forget, Ends
<1>54. CASE Unlink(p)
  BY <1>54 DEF Unlink, Goto
<1>55. CASE UnlinkGone(p)
  BY <1>55 DEF UnlinkGone, Goto, Stop, End, Forget, Ends
<1>56. CASE Sync(p)
  BY <1>56 DEF Sync, Goto, Stop, End, Forget
<1>57. CASE ReleaseFails(p)
  BY <1>57 DEF ReleaseFails, Goto, Stop, End, Forget, Ends
<1>58. CASE FailLog(p)
  BY <1>58 DEF FailLog, Goto
<1>59. CASE SpoilLog(p)
  BY <1>59 DEF SpoilLog, Goto
<1>60. CASE FailMeta(p)
  BY <1>60 DEF FailMeta, Goto, Stop, End, Forget
<1>61. CASE FailFails(p)
  BY <1>61 DEF FailFails, Goto, Stop, Forget
<1>62. CASE Crash(p)
  BY <1>62 DEF Crash, Goto, Forget
<1> QED
  BY <1>1, <1>2, <1>3, <1>4, <1>5, <1>6, <1>7, <1>8, <1>9, <1>10, <1>11, <1>12, <1>13,
      <1>14, <1>15, <1>16, <1>17, <1>18, <1>19, <1>20, <1>21, <1>22, <1>23, <1>24, <1>25,
      <1>26, <1>27, <1>28, <1>29, <1>30, <1>31, <1>32, <1>33, <1>34, <1>35, <1>36, <1>37,
      <1>38, <1>39, <1>40, <1>41, <1>42, <1>43, <1>44, <1>45, <1>46, <1>47, <1>48, <1>49,
      <1>50, <1>51, <1>52, <1>53, <1>54, <1>55, <1>56, <1>57, <1>58, <1>59, <1>60, <1>61,
      <1>62 DEF Start, Step, Look, Begin, Execute, Release, Fail

\* What a process may make of the journal, the metadata and the lock.
LogBecomes(p, s) ==
  \/ pc[p] = "create journal" /\ s = "empty"
  \/ pc[p] = "log begin" /\ s = "open"
  \/ pc[p] = "drop dir" /\ s = "none"
  \/ /\ log[id[p]] # "none"
     /\ \/ /\ pc[p] \in {"work", "enter", "undo", "fail log"} /\ s = "open"
           /\ pc[p] = "fail log" /\ log[id[p]] = "decided" => behind[p]
        \/ pc[p] \in {"mark", "close"} /\ s = "decided"
        \/ /\ pc[p] \in Appending \cup {"log begin"} /\ s = "corrupt"
           /\ behind[p] \/ pc[p] = "spoil log" \/ (pc[p] = "fail log" /\ log[id[p]] = "decided")

MetaBecomes(p, s) ==
  \/ pc[p] = "make dir" /\ s = "bare"
  \/ pc[p] = "write meta" /\ s = "open"
  \/ pc[p] = "drop dir" /\ (s = "bare" \/ (s = "none" /\ log[id[p]] = "none"))
  \/ /\ meta[id[p]] # "none"
     /\ \/ pc[p] \in {"work", "enter", "settle"} /\ s = mem[p]
        \/ pc[p] = "clean" /\ s = "cleaned"
        \/ pc[p] = "fail meta" /\ s = Unended(mem[p])

LockBecomes(p, s) ==
  \/ pc[p] = "create lock" /\ lock = None /\ s = Blank
  \/ pc[p] = "write lock" /\ s = id[p]
  \/ pc[p] \in {"drop lock", "unlink"} /\ s = None

LEMMA AppendBecomes ==
  ASSUME NEW p \in Procs, TypeOK, NEW s \in Logs, id[p] \in Ids,
         \/ UNCHANGED <<log, behind>>
         \/ Append(p, s) \/ Tear(p) \/ Leaves(p, s)
  PROVE  /\ \A i \in Ids :
              \/ log'[i] = log[i]
              \/ /\ i = id[p] /\ log[i] # "none"
                 /\ \/ log'[i] = s
                    \/ log'[i] = "corrupt" /\ (behind[p] \/ pc[p] = "spoil log")
         /\ \A q \in Procs : q # p => behind'[q] = behind[q] \/ id[q] = id[p]
<1>1. CASE UNCHANGED <<log, behind>>
  BY <1>1
<1>2. CASE Append(p, s) \/ Tear(p) \/ Leaves(p, s)
  <2>1. /\ \A i \in Ids : i # id[p] => log'[i] = log[i]
        /\ \/ log'[id[p]] \in {log[id[p]], s}
           \/ log'[id[p]] = "corrupt" /\ (behind[p] \/ pc[p] = "spoil log")
        /\ log[id[p]] = "none" => log'[id[p]] = "none"
        /\ \A q \in Procs : behind'[q] = (behind[q] \/ (q # p /\ id[q] = id[p]))
    BY <1>2, AppendMoves
  <2>2. \A q \in Procs : q # p => behind'[q] = behind[q] \/ id[q] = id[p]
    <3>1. \A q \in Procs : behind[q] \in BOOLEAN
      BY DEF TypeOK
    <3> QED
      BY <2>1, <3>1, ZenonT(60)
  <2> QED
    BY <2>1, <2>2
<1> QED
  BY <1>1, <1>2

\* Only the transaction of a process changes under its hands.
LEMMA DiskMoves ==
  ASSUME NEW p \in Procs, TypeOK, PlaceOf(p), MindOf(p), Start(p) \/ Step(p) \/ Crash(p)
  PROVE  /\ \A i \in Ids : log'[i] = log[i] \/ (i = id[p] /\ LogBecomes(p, log'[i]))
         /\ \A i \in Ids : meta'[i] = meta[i] \/ (i = id[p] /\ MetaBecomes(p, meta'[i]))
         /\ lock' = lock \/ LockBecomes(p, lock')
         /\ \A q \in Procs : q # p => \/ behind'[q] = behind[q]
                                      \/ id[q] = id[p] /\ pc[p] \in Inside
<1> USE DEF TypeOK, PlaceOf, MindOf, Inside, LogBecomes, MetaBecomes, LockBecomes, disk, memory,
    reads, counts, Beginning, Writing, Failing, Appending, Finishing
<1>1. CASE Start(p)
  BY <1>1 DEF Start, StartRun, StartRecover, StartHistory
<1>2. CASE Look(p)
  BY <1>2 DEF Look, ReadLock, ReadLockFails, List, Inspect, InspectFails, Inspected, Listed,
      JudgeFails, Admit, Block, NothingPending, Take, Stop, End, Forget
<1>3. CASE CreateLock(p)
  BY <1>3 DEF CreateLock, SetLock
<1>4. CASE LockTaken(p)
  BY <1>4 DEF LockTaken, Stop, End, Forget
<1>5. CASE CreateLockFails(p)
  BY <1>5 DEF CreateLockFails, Stop, End, Forget
<1>6. CASE WriteLock(p)
  BY <1>6 DEF WriteLock, SetLock
<1>7. CASE WriteLockFails(p)
  BY <1>7 DEF WriteLockFails, SetLock
<1>8. CASE MakeDir(p)
  BY <1>8 DEF MakeDir, SetMeta
<1>9. CASE MakeDirFails(p)
  BY <1>9 DEF MakeDirFails, SetMeta
<1>10. CASE WriteMeta(p)
  BY <1>10 DEF WriteMeta, SetMeta, Missing, Save
<1>11. CASE WriteMetaFails(p)
  BY <1>11 DEF WriteMetaFails, SetMeta
<1>12. CASE CreateJournal(p)
  BY <1>12 DEF CreateJournal, SetLog
<1>13. CASE LogBegin(p)
  <2>1. id[p] \in Ids /\ {"open", "decided", "corrupt", log[id[p]]} \subseteq Logs
    BY <1>13 DEF LogBegin, Logs
  <2>2. PICK s \in {"open"} :
          \/ UNCHANGED <<log, behind>>
          \/ Append(p, s) \/ Tear(p) \/ Leaves(p, s)
    BY <1>13 DEF LogBegin, Leaves
  <2>3. /\ \A i \in Ids :
             \/ log'[i] = log[i]
             \/ /\ i = id[p] /\ log[i] # "none"
                /\ \/ log'[i] = s
                   \/ log'[i] = "corrupt" /\ (behind[p] \/ pc[p] = "spoil log")
        /\ \A q \in Procs : q # p => behind'[q] = behind[q] \/ id[q] = id[p]
    BY <2>1, <2>2, AppendBecomes
  <2> QED
    BY <1>13, <2>1, <2>3 DEF LogBegin
<1>14. CASE JournalFails(p)
  BY <1>14 DEF JournalFails, SetLog
<1>15. CASE DropPart(p)
  BY <1>15 DEF DropPart, SetLog, SetMeta
<1>16. CASE DropDir(p)
  BY <1>16 DEF DropDir, SetMeta
<1>17. CASE DropLock(p)
  BY <1>17 DEF DropLock, Stop, End, Forget, SetLock
<1>18. CASE DropDirFails(p)
  BY <1>18 DEF DropDirFails
<1>19. CASE DropLockFails(p)
  BY <1>19 DEF DropLockFails, Stop, End, Forget
<1>20. CASE Work(p)
  <2>1. id[p] \in Ids /\ {"open", "decided", "corrupt", log[id[p]]} \subseteq Logs
    BY <1>20 DEF Work, Logs
  <2>2. PICK s \in {"open"} :
          \/ UNCHANGED <<log, behind>>
          \/ Append(p, s) \/ Tear(p) \/ Leaves(p, s)
    BY <1>20 DEF Work, Leaves
  <2>3. /\ \A i \in Ids :
             \/ log'[i] = log[i]
             \/ /\ i = id[p] /\ log[i] # "none"
                /\ \/ log'[i] = s
                   \/ log'[i] = "corrupt" /\ (behind[p] \/ pc[p] = "spoil log")
        /\ \A q \in Procs : q # p => behind'[q] = behind[q] \/ id[q] = id[p]
    BY <2>1, <2>2, AppendBecomes
  <2> QED
    BY <1>20, <2>1, <2>3 DEF Work, SetMeta, Missing, Save
<1>21. CASE WorkDone(p)
  BY <1>21 DEF WorkDone
<1>22. CASE WorkFails(p)
  BY <1>22 DEF WorkFails
<1>23. CASE Open(p)
  BY <1>23 DEF Open
<1>24. CASE OpenRefused(p)
  BY <1>24 DEF OpenRefused, Stop, End, Forget
<1>25. CASE OpenFails(p)
  BY <1>25 DEF OpenFails, Stop, End, Forget
<1>26. CASE Enter(p)
  <2>1. id[p] \in Ids /\ {"open", "decided", "corrupt", log[id[p]]} \subseteq Logs
    BY <1>26 DEF Enter, Logs
  <2>2. PICK s \in {"open"} :
          \/ UNCHANGED <<log, behind>>
          \/ Append(p, s) \/ Tear(p) \/ Leaves(p, s)
    BY <1>26 DEF Enter, Leaves
  <2>3. /\ \A i \in Ids :
             \/ log'[i] = log[i]
             \/ /\ i = id[p] /\ log[i] # "none"
                /\ \/ log'[i] = s
                   \/ log'[i] = "corrupt" /\ (behind[p] \/ pc[p] = "spoil log")
        /\ \A q \in Procs : q # p => behind'[q] = behind[q] \/ id[q] = id[p]
    BY <2>1, <2>2, AppendBecomes
  <2> QED
    BY <1>26, <2>1, <2>3 DEF Enter, SetMeta, Missing, Save
<1>27. CASE EnterFails(p)
  <2>1. id[p] \in Ids /\ {"open", "decided", "corrupt", log[id[p]]} \subseteq Logs
    BY <1>27 DEF EnterFails, Logs
  <2>2. PICK s \in {"open"} :
          \/ UNCHANGED <<log, behind>>
          \/ Append(p, s) \/ Tear(p) \/ Leaves(p, s)
    BY <1>27 DEF EnterFails, Leaves
  <2>3. /\ \A i \in Ids :
             \/ log'[i] = log[i]
             \/ /\ i = id[p] /\ log[i] # "none"
                /\ \/ log'[i] = s
                   \/ log'[i] = "corrupt" /\ (behind[p] \/ pc[p] = "spoil log")
        /\ \A q \in Procs : q # p => behind'[q] = behind[q] \/ id[q] = id[p]
    BY <2>1, <2>2, AppendBecomes
  <2>4. /\ UNCHANGED meta \/ Save(p, mem[p])
        /\ UNCHANGED lock /\ pc[p] = "enter"
    BY <1>27 DEF EnterFails
  <2>5. \A i \in Ids : meta'[i] = meta[i] \/ (i = id[p] /\ meta[i] # "none" /\ meta'[i] = mem[p])
    BY <2>1, <2>4 DEF Save, SetMeta, Missing
  <2> QED
    BY <2>1, <2>2, <2>3, <2>4, <2>5
<1>28. CASE Undo(p)
  <2>1. id[p] \in Ids /\ {"open", "decided", "corrupt", log[id[p]]} \subseteq Logs
    BY <1>28 DEF Undo, Logs
  <2>2. PICK s \in {"open"} :
          \/ UNCHANGED <<log, behind>>
          \/ Append(p, s) \/ Tear(p) \/ Leaves(p, s)
    BY <1>28 DEF Undo, Leaves
  <2>3. /\ \A i \in Ids :
             \/ log'[i] = log[i]
             \/ /\ i = id[p] /\ log[i] # "none"
                /\ \/ log'[i] = s
                   \/ log'[i] = "corrupt" /\ (behind[p] \/ pc[p] = "spoil log")
        /\ \A q \in Procs : q # p => behind'[q] = behind[q] \/ id[q] = id[p]
    BY <2>1, <2>2, AppendBecomes
  <2> QED
    BY <1>28, <2>1, <2>3 DEF Undo
<1>29. CASE UndoDone(p)
  BY <1>29 DEF UndoDone
<1>30. CASE UndoRefused(p)
  BY <1>30 DEF UndoRefused
<1>31. CASE UndoFails(p)
  BY <1>31 DEF UndoFails, Missing, Fails
<1>32. CASE AppendFails(p)
  <2>1. id[p] \in Ids /\ {"open", "decided", "corrupt", log[id[p]]} \subseteq Logs
    BY <1>32 DEF AppendFails, Logs
  <2>2. PICK s \in {IF pc[p] \in {"mark", "close"} THEN "decided" ELSE "open"} :
          \/ UNCHANGED <<log, behind>>
          \/ Append(p, s) \/ Tear(p) \/ Leaves(p, s)
    BY <1>32 DEF AppendFails, Leaves
  <2>3. /\ \A i \in Ids :
             \/ log'[i] = log[i]
             \/ /\ i = id[p] /\ log[i] # "none"
                /\ \/ log'[i] = s
                   \/ log'[i] = "corrupt" /\ (behind[p] \/ pc[p] = "spoil log")
        /\ \A q \in Procs : q # p => behind'[q] = behind[q] \/ id[q] = id[p]
    BY <2>1, <2>2, AppendBecomes, ZenonT(60)
  <2> QED
    BY <1>32, <2>1, <2>3 DEF AppendFails
<1>33. CASE Mark(p)
  <2>1. id[p] \in Ids /\ {"open", "decided", "corrupt", log[id[p]]} \subseteq Logs
    BY <1>33 DEF Mark, Logs
  <2>2. PICK s \in {"decided"} :
          \/ UNCHANGED <<log, behind>>
          \/ Append(p, s) \/ Tear(p) \/ Leaves(p, s)
    BY <1>33 DEF Mark, Leaves
  <2>3. /\ \A i \in Ids :
             \/ log'[i] = log[i]
             \/ /\ i = id[p] /\ log[i] # "none"
                /\ \/ log'[i] = s
                   \/ log'[i] = "corrupt" /\ (behind[p] \/ pc[p] = "spoil log")
        /\ \A q \in Procs : q # p => behind'[q] = behind[q] \/ id[q] = id[p]
    BY <2>1, <2>2, AppendBecomes
  <2> QED
    BY <1>33, <2>1, <2>3 DEF Mark
<1>34. CASE Close(p)
  <2>1. id[p] \in Ids /\ {"open", "decided", "corrupt", log[id[p]]} \subseteq Logs
    BY <1>34 DEF Close, Logs
  <2>2. PICK s \in {"decided"} :
          \/ UNCHANGED <<log, behind>>
          \/ Append(p, s) \/ Tear(p) \/ Leaves(p, s)
    BY <1>34 DEF Close, Leaves
  <2>3. /\ \A i \in Ids :
             \/ log'[i] = log[i]
             \/ /\ i = id[p] /\ log[i] # "none"
                /\ \/ log'[i] = s
                   \/ log'[i] = "corrupt" /\ (behind[p] \/ pc[p] = "spoil log")
        /\ \A q \in Procs : q # p => behind'[q] = behind[q] \/ id[q] = id[p]
    BY <2>1, <2>2, AppendBecomes
  <2> QED
    BY <1>34, <2>1, <2>3 DEF Close
<1>35. CASE Settle(p)
  BY <1>35 DEF Settle, SetMeta, Missing, Save
<1>36. CASE SettleFails(p)
  BY <1>36 DEF SettleFails, Stop, End, Forget, SetMeta, Missing, Save, Fails, Ends
<1>37. CASE Clean(p)
  BY <1>37 DEF Clean, SetMeta, Missing, Save
<1>38. CASE CleanFails(p)
  BY <1>38 DEF CleanFails, Stop, End, Forget, SetMeta, Missing, Save, Fails, Ends
<1>39. CASE ReadOwner(p)
  BY <1>39 DEF ReadOwner
<1>40. CASE NotOwner(p)
  BY <1>40 DEF NotOwner, Stop, End, Forget, Ends
<1>41. CASE Unlink(p)
  BY <1>41 DEF Unlink, SetLock
<1>42. CASE UnlinkGone(p)
  BY <1>42 DEF UnlinkGone, Stop, End, Forget, Ends
<1>43. CASE Sync(p)
  BY <1>43 DEF Sync, Stop, End, Forget
<1>44. CASE ReleaseFails(p)
  BY <1>44 DEF ReleaseFails, Stop, End, Forget, Ends
<1>45. CASE FailLog(p)
  <2>1. id[p] \in Ids /\ {"open", "decided", "corrupt", log[id[p]]} \subseteq Logs
    BY <1>45 DEF FailLog, Logs
  <2>2. PICK s \in {IF log[id[p]] = "decided" /\ ~behind[p] THEN "corrupt" ELSE "open"} :
          \/ UNCHANGED <<log, behind>>
          \/ Append(p, s) \/ Tear(p) \/ Leaves(p, s)
    BY <1>45 DEF FailLog, Leaves
  <2>3. /\ \A i \in Ids :
             \/ log'[i] = log[i]
             \/ /\ i = id[p] /\ log[i] # "none"
                /\ \/ log'[i] = s
                   \/ log'[i] = "corrupt" /\ (behind[p] \/ pc[p] = "spoil log")
        /\ \A q \in Procs : q # p => behind'[q] = behind[q] \/ id[q] = id[p]
    BY <2>1, <2>2, AppendBecomes, ZenonT(60)
  <2> QED
    BY <1>45, <2>1, <2>3 DEF FailLog
<1>46. CASE SpoilLog(p)
  <2>1. id[p] \in Ids /\ "corrupt" \in Logs
    BY <1>46 DEF SpoilLog, Logs
  <2>2. CASE Append(p, "corrupt")
    <3>1. PICK s \in {"corrupt"} : id[p] \in Ids /\ s \in Logs /\ Append(p, s)
      BY <2>1, <2>2
    <3>2. \/ UNCHANGED <<log, behind>>
          \/ Append(p, s) \/ Tear(p) \/ Leaves(p, s)
      BY <3>1
    <3>3. /\ \A i \in Ids :
               \/ log'[i] = log[i]
               \/ /\ i = id[p] /\ log[i] # "none"
                  /\ \/ log'[i] = s
                     \/ log'[i] = "corrupt" /\ (behind[p] \/ pc[p] = "spoil log")
          /\ \A q \in Procs : q # p => behind'[q] = behind[q] \/ id[q] = id[p]
      BY <2>1, <3>1, <3>2, AppendBecomes
    <3> QED
      BY <1>46, <2>1, <3>1, <3>3 DEF SpoilLog
  <2>3. CASE PassBy(p) /\ UNCHANGED log
    BY <1>46, <2>1, <2>3 DEF SpoilLog, PassBy
  <2> QED
    BY <1>46, <2>2, <2>3 DEF SpoilLog
<1>47. CASE FailMeta(p)
  BY <1>47 DEF FailMeta, Stop, End, Forget, SetMeta, Missing, Save
<1>48. CASE FailFails(p)
  <2>1. id[p] \in Ids /\ {"open", "decided", "corrupt", log[id[p]]} \subseteq Logs
    BY <1>48 DEF FailFails, Logs
  <2>2. PICK s \in {log[id[p]]} :
          \/ UNCHANGED <<log, behind>>
          \/ Append(p, s) \/ Tear(p) \/ Leaves(p, s)
    BY <1>48 DEF FailFails, Leaves
  <2>3. /\ \A i \in Ids :
             \/ log'[i] = log[i]
             \/ /\ i = id[p] /\ log[i] # "none"
                /\ \/ log'[i] = s
                   \/ log'[i] = "corrupt" /\ (behind[p] \/ pc[p] = "spoil log")
        /\ \A q \in Procs : q # p => behind'[q] = behind[q] \/ id[q] = id[p]
    BY <2>1, <2>2, AppendBecomes
  <2> QED
    BY <1>48, <2>1, <2>3 DEF FailFails
<1>49. CASE Crash(p)
  <2>1. CASE UNCHANGED <<log, behind>>
    BY <1>49, <2>1 DEF Crash
  <2>2. CASE pc[p] \in Appending /\ Tear(p)
    <3>1. PICK s \in Logs : id[p] \in Ids /\ s = log[id[p]]
      BY <2>2
    <3>2. \/ UNCHANGED <<log, behind>>
          \/ Append(p, s) \/ Tear(p) \/ Leaves(p, s)
      BY <2>2
    <3>3. /\ \A i \in Ids :
               \/ log'[i] = log[i]
               \/ /\ i = id[p] /\ log[i] # "none"
                  /\ \/ log'[i] = s
                     \/ log'[i] = "corrupt" /\ (behind[p] \/ pc[p] = "spoil log")
          /\ \A q \in Procs : q # p => behind'[q] = behind[q] \/ id[q] = id[p]
      BY <3>1, <3>2, AppendBecomes, ZenonT(60)
    <3> QED
      BY <1>49, <2>2, <3>1, <3>3 DEF Crash
  <2> QED
    BY <1>49, <2>1, <2>2 DEF Crash
<1> QED
  BY <1>1, <1>2, <1>3, <1>4, <1>5, <1>6, <1>7, <1>8, <1>9, <1>10, <1>11, <1>12, <1>13,
      <1>14, <1>15, <1>16, <1>17, <1>18, <1>19, <1>20, <1>21, <1>22, <1>23, <1>24, <1>25,
      <1>26, <1>27, <1>28, <1>29, <1>30, <1>31, <1>32, <1>33, <1>34, <1>35, <1>36, <1>37,
      <1>38, <1>39, <1>40, <1>41, <1>42, <1>43, <1>44, <1>45, <1>46, <1>47, <1>48, <1>49
      DEF Start, Step, Begin, Execute, Release, Fail

\* Who becomes an owner, and who starts to work or to recover.
LEMMA WhoEnters ==
  ASSUME NEW p \in Procs, Disciplined, TypeOK, PlaceOf(p), MindOf(p),
         Start(p) \/ Step(p) \/ Crash(p)
  PROVE  /\ Owner(p)' => \/ Owner(p) \/ Recovering(p)
                         \/ pc[p] = "create lock" /\ lock = None
         /\ Working(p)' => Working(p) \/ \A q \in Procs : ~Recovering(q)
         /\ Recovering(p)' => \/ Recovering(p)
                              \/ \A q \in Procs : ~Working(q) /\ ~Recovering(q)
<1> USE DEF Disciplined, TypeOK, PlaceOf, MindOf, Owner, Inside, Working, Recovering,
    Admitting, Beginning, Finishing, Writing, Failing, disk, memory, reads, counts
<1>1. CASE StartRun(p)
  BY <1>1 DEF StartRun, Goto
<1>2. CASE StartRecover(p)
  BY <1>2 DEF StartRecover, Goto
<1>3. CASE StartHistory(p)
  BY <1>3 DEF StartHistory, Goto
<1>4. CASE ReadLock(p)
  BY <1>4 DEF ReadLock, Goto
<1>5. CASE ReadLockFails(p)
  BY <1>5 DEF ReadLockFails, Goto, Stop, End, Forget
<1>6. CASE List(p)
  BY <1>6 DEF List, Goto
<1>7. CASE Inspect(p)
  BY <1>7 DEF Inspect
<1>8. CASE InspectFails(p)
  BY <1>8 DEF InspectFails, Goto, Stop, End, Forget
<1>9. CASE Inspected(p)
  BY <1>9 DEF Inspected, Goto
<1>10. CASE Listed(p)
  BY <1>10 DEF Listed, Goto, Stop, End, Forget
<1>11. CASE JudgeFails(p)
  BY <1>11 DEF JudgeFails, Goto, Stop, End, Forget
<1>12. CASE Admit(p)
  BY <1>12 DEF Admit, Goto
<1>13. CASE Block(p)
  BY <1>13 DEF Block, Goto, Stop, End, Forget
<1>14. CASE NothingPending(p)
  BY <1>14 DEF NothingPending, Goto, Stop, End, Forget
<1>15. CASE Take(p)
  BY <1>15 DEF Take, Goto
<1>16. CASE CreateLock(p)
  BY <1>16 DEF CreateLock, Goto
<1>17. CASE LockTaken(p)
  BY <1>17 DEF LockTaken, Goto, Stop, End, Forget
<1>18. CASE CreateLockFails(p)
  BY <1>18 DEF CreateLockFails, Goto, Stop, End, Forget, Fault
<1>19. CASE WriteLock(p)
  BY <1>19 DEF WriteLock, Goto
<1>20. CASE WriteLockFails(p)
  BY <1>20 DEF WriteLockFails, Goto, Fault
<1>21. CASE MakeDir(p)
  BY <1>21 DEF MakeDir, Goto
<1>22. CASE MakeDirFails(p)
  BY <1>22 DEF MakeDirFails, Goto, Fault
<1>23. CASE WriteMeta(p)
  BY <1>23 DEF WriteMeta, Goto
<1>24. CASE WriteMetaFails(p)
  BY <1>24 DEF WriteMetaFails, Goto, Fault
<1>25. CASE CreateJournal(p)
  BY <1>25 DEF CreateJournal, Goto
<1>26. CASE LogBegin(p)
  BY <1>26 DEF LogBegin, Goto
<1>27. CASE JournalFails(p)
  BY <1>27 DEF JournalFails, Goto, Fault
<1>28. CASE DropPart(p)
  BY <1>28 DEF DropPart
<1>29. CASE DropDir(p)
  BY <1>29 DEF DropDir, Goto
<1>30. CASE DropLock(p)
  BY <1>30 DEF DropLock, Goto, Stop, End, Forget
<1>31. CASE DropDirFails(p)
  BY <1>31 DEF DropDirFails, Goto, Fault
<1>32. CASE DropLockFails(p)
  BY <1>32 DEF DropLockFails, Goto, Stop, End, Forget, Fault
<1>33. CASE Work(p)
  BY <1>33 DEF Work
<1>34. CASE WorkDone(p)
  BY <1>34 DEF WorkDone, Goto
<1>35. CASE WorkFails(p)
  BY <1>35 DEF WorkFails, Goto
<1>36. CASE Open(p)
  BY <1>36 DEF Open, Goto
<1>37. CASE OpenRefused(p)
  BY <1>37 DEF OpenRefused, Goto, Stop, End, Forget
<1>38. CASE OpenFails(p)
  BY <1>38 DEF OpenFails, Goto, Stop, End, Forget, Fault
<1>39. CASE Enter(p)
  BY <1>39 DEF Enter, Goto
<1>40. CASE EnterFails(p)
  BY <1>40 DEF EnterFails, Goto, Stop, Forget, Fault, Fails
<1>41. CASE Undo(p)
  BY <1>41 DEF Undo
<1>42. CASE UndoDone(p)
  BY <1>42 DEF UndoDone, Goto
<1>43. CASE UndoRefused(p)
  BY <1>43 DEF UndoRefused, Goto
<1>44. CASE UndoFails(p)
  BY <1>44 DEF UndoFails, Goto, Fault, Fails
<1>45. CASE AppendFails(p)
  BY <1>45 DEF AppendFails, Goto, Stop, Forget, Fault
<1>46. CASE Mark(p)
  BY <1>46 DEF Mark, Goto
<1>47. CASE Close(p)
  BY <1>47 DEF Close, Goto
<1>48. CASE Settle(p)
  BY <1>48 DEF Settle, Goto
<1>49. CASE SettleFails(p)
  BY <1>49 DEF SettleFails, Goto, Stop, End, Forget, Fault, Fails, Ends
<1>50. CASE Clean(p)
  BY <1>50 DEF Clean, Goto
<1>51. CASE CleanFails(p)
  BY <1>51 DEF CleanFails, Goto, Stop, End, Forget, Fault, Fails, Ends
<1>52. CASE ReadOwner(p)
  BY <1>52 DEF ReadOwner, Goto
<1>53. CASE NotOwner(p)
  BY <1>53 DEF NotOwner, Goto, Stop, End, Forget, Ends
<1>54. CASE Unlink(p)
  BY <1>54 DEF Unlink, Goto
<1>55. CASE UnlinkGone(p)
  BY <1>55 DEF UnlinkGone, Goto, Stop, End, Forget, Ends
<1>56. CASE Sync(p)
  BY <1>56 DEF Sync, Goto, Stop, End, Forget
<1>57. CASE ReleaseFails(p)
  <2>1. pc[p] = "sync" => ~undoing[p]
    BY <1>57 DEF ReleaseFails, Fault
  <2>2. CASE undoing[p]
    BY <1>57, <2>1, <2>2 DEF ReleaseFails, Goto, Ends
  <2>3. CASE ~undoing[p]
    BY <1>57, <2>3, ZenonT(60) DEF ReleaseFails, Goto, Stop, End, Forget, Ends
  <2> QED
    BY <2>2, <2>3
<1>58. CASE FailLog(p)
  BY <1>58 DEF FailLog, Goto
<1>59. CASE SpoilLog(p)
  BY <1>59 DEF SpoilLog, Goto
<1>60. CASE FailMeta(p)
  BY <1>60 DEF FailMeta, Goto, Stop, End, Forget
<1>61. CASE FailFails(p)
  BY <1>61 DEF FailFails, Goto, Stop, Forget, Fault
<1>62. CASE Crash(p)
  BY <1>62 DEF Crash, Goto, Forget
<1> QED
  BY <1>1, <1>2, <1>3, <1>4, <1>5, <1>6, <1>7, <1>8, <1>9, <1>10, <1>11, <1>12, <1>13,
      <1>14, <1>15, <1>16, <1>17, <1>18, <1>19, <1>20, <1>21, <1>22, <1>23, <1>24, <1>25,
      <1>26, <1>27, <1>28, <1>29, <1>30, <1>31, <1>32, <1>33, <1>34, <1>35, <1>36, <1>37,
      <1>38, <1>39, <1>40, <1>41, <1>42, <1>43, <1>44, <1>45, <1>46, <1>47, <1>48, <1>49,
      <1>50, <1>51, <1>52, <1>53, <1>54, <1>55, <1>56, <1>57, <1>58, <1>59, <1>60, <1>61,
      <1>62 DEF Start, Step, Look, Begin, Execute, Release, Fail

\* Every command keeps to its places.
LEMMA PlaceStep ==
  ASSUME NEW p \in Procs, TypeOK, PlaceOf(p), MindOf(p),
         Start(p) \/ Step(p) \/ Crash(p)
  PROVE  PlaceOf(p)' /\ MindOf(p)'
<1> USE DEF TypeOK, PlaceOf, MindOf, Inside, Refusal, Pending, Looking, Admitting, Beginning,
    Finishing, Writing, Failing, disk, memory, reads, counts
<1>1. CASE StartRun(p)
  <2>1. runs + 1 \in Ids
    BY <1>1, NextId DEF StartRun
  <2> QED
    BY <1>1, <2>1 DEF StartRun, Goto
<1>2. CASE StartRecover(p)
  BY <1>2 DEF StartRecover, Goto
<1>3. CASE StartHistory(p)
  BY <1>3 DEF StartHistory, Goto
<1>4. CASE ReadLock(p)
  BY <1>4 DEF ReadLock, Goto
<1>5. CASE ReadLockFails(p)
  BY <1>5 DEF ReadLockFails, Goto, Stop, End, Forget
<1>6. CASE List(p)
  BY <1>6 DEF List, Goto
<1>7. CASE Inspect(p)
  BY <1>7 DEF Inspect, Unresolved
<1>8. CASE InspectFails(p)
  BY <1>8 DEF InspectFails, Goto, Stop, End, Forget
<1>9. CASE Inspected(p)
  BY <1>9 DEF Inspected, Goto
<1>10. CASE Listed(p)
  BY <1>10 DEF Listed, Goto, Stop, End, Forget
<1>11. CASE JudgeFails(p)
  BY <1>11 DEF JudgeFails, Goto, Stop, End, Forget
<1>12. CASE Admit(p)
  BY <1>12 DEF Admit, Goto
<1>13. CASE Block(p)
  BY <1>13 DEF Block, Goto, Stop, End, Forget
<1>14. CASE NothingPending(p)
  BY <1>14 DEF NothingPending, Goto, Stop, End, Forget
<1>15. CASE Take(p)
  BY <1>15 DEF Take, Goto
<1>16. CASE CreateLock(p)
  BY <1>16 DEF CreateLock, Goto
<1>17. CASE LockTaken(p)
  BY <1>17 DEF LockTaken, Goto, Stop, End, Forget
<1>18. CASE CreateLockFails(p)
  BY <1>18 DEF CreateLockFails, Goto, Stop, End, Forget
<1>19. CASE WriteLock(p)
  BY <1>19 DEF WriteLock, Goto
<1>20. CASE WriteLockFails(p)
  BY <1>20 DEF WriteLockFails, Goto
<1>21. CASE MakeDir(p)
  BY <1>21 DEF MakeDir, Goto
<1>22. CASE MakeDirFails(p)
  BY <1>22 DEF MakeDirFails, Goto
<1>23. CASE WriteMeta(p)
  BY <1>23 DEF WriteMeta, Goto
<1>24. CASE WriteMetaFails(p)
  BY <1>24 DEF WriteMetaFails, Goto
<1>25. CASE CreateJournal(p)
  BY <1>25 DEF CreateJournal, Goto
<1>26. CASE LogBegin(p)
  BY <1>26 DEF LogBegin, Goto
<1>27. CASE JournalFails(p)
  BY <1>27 DEF JournalFails, Goto
<1>28. CASE DropPart(p)
  BY <1>28 DEF DropPart
<1>29. CASE DropDir(p)
  BY <1>29 DEF DropDir, Goto
<1>30. CASE DropLock(p)
  BY <1>30 DEF DropLock, Goto, Stop, End, Forget
<1>31. CASE DropDirFails(p)
  BY <1>31 DEF DropDirFails, Goto
<1>32. CASE DropLockFails(p)
  BY <1>32 DEF DropLockFails, Goto, Stop, End, Forget
<1>33. CASE Work(p)
  BY <1>33 DEF Work
<1>34. CASE WorkDone(p)
  <2>1. PlaceOf(p)'
    BY <1>34 DEF WorkDone, Goto
  <2>2. MindOf(p)'
    BY <1>34 DEF WorkDone, Goto, Unresolved
  <2> QED
    BY <2>1, <2>2
<1>35. CASE WorkFails(p)
  BY <1>35 DEF WorkFails, Goto
<1>36. CASE Open(p)
  <2>1. PlaceOf(p)'
    BY <1>36 DEF Open, Goto
  <2>2. CASE log[id[p]] = "decided"
    BY <1>36, <2>1, <2>2 DEF Open, Goto, Ended
  <2>3. CASE log[id[p]] # "decided"
    BY <1>36, <2>1, <2>3 DEF Open, Goto, Unended, Unresolved
  <2> QED
    BY <2>2, <2>3
<1>37. CASE OpenRefused(p)
  BY <1>37 DEF OpenRefused, Goto, Stop, End, Forget
<1>38. CASE OpenFails(p)
  BY <1>38 DEF OpenFails, Goto, Stop, End, Forget
<1>39. CASE Enter(p)
  BY <1>39 DEF Enter, Goto
<1>40. CASE EnterFails(p)
  <2>1. CASE Goto(p, "fail log") \/ Goto(p, "fail meta")
    BY <1>40, <2>1 DEF EnterFails, Goto, Stop, Forget
  <2>2. CASE Stop(p, "failed")
    BY <1>40, <2>2 DEF EnterFails, Goto, Stop, Forget
  <2> QED
    BY <1>40, <2>1, <2>2 DEF EnterFails
<1>41. CASE Undo(p)
  BY <1>41 DEF Undo
<1>42. CASE UndoDone(p)
  BY <1>42 DEF UndoDone, Goto
<1>43. CASE UndoRefused(p)
  BY <1>43 DEF UndoRefused, Goto
<1>44. CASE UndoFails(p)
  BY <1>44 DEF UndoFails, Goto
<1>45. CASE AppendFails(p)
  <2>1. pc[p] \in {"work", "undo", "mark", "close"}
    BY <1>45 DEF AppendFails
  <2>2. CASE Stop(p, Failure(p))
    BY <2>1, <2>2 DEF Stop, Forget, Goto
  <2>3. CASE /\ pc[p] = "work" /\ Goto(p, "read lock")
             /\ cmd' = [cmd EXCEPT ![p] = "rollback"]
             /\ UNCHANGED <<id, mem, undoing, answer, reads>>
    BY <2>3 DEF Goto
  <2>4. CASE /\ undoing[p] /\ (Goto(p, "fail log") \/ Goto(p, "spoil log"))
             /\ UNCHANGED <<cmd, id, mem, undoing, answer, reads>>
    BY <2>1, <2>4 DEF Goto
  <2> QED
    BY <1>45, <2>2, <2>3, <2>4 DEF AppendFails
<1>46. CASE Mark(p)
  BY <1>46 DEF Mark, Goto
<1>47. CASE Close(p)
  BY <1>47 DEF Close, Goto, Ended
<1>48. CASE Settle(p)
  BY <1>48 DEF Settle, Goto
<1>49. CASE SettleFails(p)
  <2>1. CASE undoing[p]
    BY <1>49, <2>1 DEF SettleFails, Goto, Ends
  <2>2. CASE ~undoing[p]
    BY <1>49, <2>2, ZenonT(60) DEF SettleFails, Goto, Stop, End, Forget, Ends
  <2> QED
    BY <2>1, <2>2
<1>50. CASE Clean(p)
  BY <1>50 DEF Clean, Goto
<1>51. CASE CleanFails(p)
  <2>1. CASE undoing[p]
    BY <1>51, <2>1 DEF CleanFails, Goto, Ends
  <2>2. CASE ~undoing[p]
    BY <1>51, <2>2, ZenonT(60) DEF CleanFails, Goto, Stop, End, Forget, Ends
  <2> QED
    BY <2>1, <2>2
<1>52. CASE ReadOwner(p)
  BY <1>52 DEF ReadOwner, Goto
<1>53. CASE NotOwner(p)
  BY <1>53, ZenonT(60) DEF NotOwner, Goto, Stop, End, Forget, Ends
<1>54. CASE Unlink(p)
  BY <1>54 DEF Unlink, Goto
<1>55. CASE UnlinkGone(p)
  <2>1. CASE undoing[p]
    BY <1>55, <2>1 DEF UnlinkGone, Goto, Ends
  <2>2. CASE ~undoing[p]
    <3>1. Stop(p, Failure(p))
      BY <1>55, <2>2 DEF UnlinkGone, Ends, End
    <3>2. PlaceOf(p)'
      BY <3>1 DEF Stop, Forget, Goto
    <3>3. MindOf(p)'
      BY <3>1 DEF Stop, Forget, Goto
    <3> QED
      BY <3>2, <3>3
  <2> QED
    BY <2>1, <2>2
<1>56. CASE Sync(p)
  BY <1>56 DEF Sync, Goto, Stop, End, Forget
<1>57. CASE ReleaseFails(p)
  <2>1. CASE undoing[p]
    BY <1>57, <2>1 DEF ReleaseFails, Goto, Ends
  <2>2. CASE ~undoing[p]
    BY <1>57, <2>2, ZenonT(60) DEF ReleaseFails, Goto, Stop, End, Forget, Ends
  <2> QED
    BY <2>1, <2>2
<1>58. CASE FailLog(p)
  BY <1>58 DEF FailLog, Goto
<1>59. CASE SpoilLog(p)
  BY <1>59 DEF SpoilLog, Goto
<1>60. CASE FailMeta(p)
  BY <1>60 DEF FailMeta, Goto, Stop, End, Forget, Unended
<1>61. CASE FailFails(p)
  BY <1>61 DEF FailFails, Goto, Stop, Forget
<1>62. CASE Crash(p)
  BY <1>62 DEF Crash, Goto, Forget
<1> QED
  BY <1>1, <1>2, <1>3, <1>4, <1>5, <1>6, <1>7, <1>8, <1>9, <1>10, <1>11, <1>12, <1>13,
      <1>14, <1>15, <1>16, <1>17, <1>18, <1>19, <1>20, <1>21, <1>22, <1>23, <1>24, <1>25,
      <1>26, <1>27, <1>28, <1>29, <1>30, <1>31, <1>32, <1>33, <1>34, <1>35, <1>36, <1>37,
      <1>38, <1>39, <1>40, <1>41, <1>42, <1>43, <1>44, <1>45, <1>46, <1>47, <1>48, <1>49,
      <1>50, <1>51, <1>52, <1>53, <1>54, <1>55, <1>56, <1>57, <1>58, <1>59, <1>60, <1>61,
      <1>62 DEF Start, Step, Look, Begin, Execute, Release, Fail

\* The owner keeps the lock until it gives it back.
LEMMA LockStep ==
  ASSUME NEW p \in Procs, Disciplined, TypeOK, LockGuards, PlaceOf(p), MindOf(p), LockOf(p),
         SeenOf(p), Start(p) \/ Step(p) \/ Crash(p)
  PROVE  LockOf(p)'
<1> USE DEF Disciplined, TypeOK, PlaceOf, MindOf, LockOf, Owner, Inside, Admitting, Beginning,
    Finishing, Writing, Failing, disk, memory, reads, counts
<1>1. CASE StartRun(p)
  BY <1>1 DEF StartRun, Goto
<1>2. CASE StartRecover(p)
  BY <1>2 DEF StartRecover, Goto
<1>3. CASE StartHistory(p)
  BY <1>3 DEF StartHistory, Goto
<1>4. CASE ReadLock(p)
  BY <1>4 DEF ReadLock, Goto
<1>5. CASE ReadLockFails(p)
  BY <1>5 DEF ReadLockFails, Goto, Stop, End, Forget
<1>6. CASE List(p)
  BY <1>6 DEF List, Goto
<1>7. CASE Inspect(p)
  BY <1>7 DEF Inspect
<1>8. CASE InspectFails(p)
  BY <1>8 DEF InspectFails, Goto, Stop, End, Forget
<1>9. CASE Inspected(p)
  BY <1>9 DEF Inspected, Goto
<1>10. CASE Listed(p)
  BY <1>10 DEF Listed, Goto, Stop, End, Forget
<1>11. CASE JudgeFails(p)
  BY <1>11 DEF JudgeFails, Goto, Stop, End, Forget
<1>12. CASE Admit(p)
  BY <1>12 DEF Admit, Goto
<1>13. CASE Block(p)
  BY <1>13 DEF Block, Goto, Stop, End, Forget
<1>14. CASE NothingPending(p)
  BY <1>14 DEF NothingPending, Goto, Stop, End, Forget
<1>15. CASE Take(p)
  <2>1. PICK i \in Pending(p) : id' = [id EXCEPT ![p] = i]
    BY <1>15 DEF Take
  <2>2. found[p] \subseteq Ids /\ seen[p] \in Ids \cup {None}
    OBVIOUS
  <2>3. seen[p] = lock /\ \A j \in found[p] : Unresolved(meta[j])
    BY <1>15 DEF Take, SeenOf, Looking
  <2>4. i \in Ids /\ i = lock
    BY <2>1, <2>2, <2>3 DEF Pending, LockGuards, Recorded, Active, Unresolved
  <2> QED
    BY <1>15, <2>1, <2>4 DEF Take, Goto
<1>16. CASE CreateLock(p)
  BY <1>16 DEF CreateLock, Goto, SetLock
<1>17. CASE LockTaken(p)
  BY <1>17 DEF LockTaken, Goto, Stop, End, Forget
<1>18. CASE CreateLockFails(p)
  BY <1>18 DEF CreateLockFails, Goto, Stop, End, Forget, Fault
<1>19. CASE WriteLock(p)
  BY <1>19 DEF WriteLock, Goto, SetLock
<1>20. CASE WriteLockFails(p)
  BY <1>20 DEF WriteLockFails, Goto, SetLock, Fault
<1>21. CASE MakeDir(p)
  BY <1>21 DEF MakeDir, Goto
<1>22. CASE MakeDirFails(p)
  BY <1>22 DEF MakeDirFails, Goto, Fault
<1>23. CASE WriteMeta(p)
  BY <1>23 DEF WriteMeta, Goto
<1>24. CASE WriteMetaFails(p)
  BY <1>24 DEF WriteMetaFails, Goto, Fault
<1>25. CASE CreateJournal(p)
  BY <1>25 DEF CreateJournal, Goto
<1>26. CASE LogBegin(p)
  BY <1>26 DEF LogBegin, Goto
<1>27. CASE JournalFails(p)
  BY <1>27 DEF JournalFails, Goto, Fault
<1>28. CASE DropPart(p)
  BY <1>28 DEF DropPart
<1>29. CASE DropDir(p)
  BY <1>29 DEF DropDir, Goto
<1>30. CASE DropLock(p)
  BY <1>30 DEF DropLock, Goto, Stop, End, Forget, SetLock
<1>31. CASE DropDirFails(p)
  BY <1>31 DEF DropDirFails, Goto, Fault
<1>32. CASE DropLockFails(p)
  BY <1>32 DEF DropLockFails, Goto, Stop, End, Forget, Fault
<1>33. CASE Work(p)
  BY <1>33 DEF Work
<1>34. CASE WorkDone(p)
  BY <1>34 DEF WorkDone, Goto
<1>35. CASE WorkFails(p)
  BY <1>35 DEF WorkFails, Goto
<1>36. CASE Open(p)
  BY <1>36 DEF Open, Goto
<1>37. CASE OpenRefused(p)
  BY <1>37 DEF OpenRefused, Goto, Stop, End, Forget
<1>38. CASE OpenFails(p)
  BY <1>38 DEF OpenFails, Goto, Stop, End, Forget, Fault
<1>39. CASE Enter(p)
  BY <1>39 DEF Enter, Goto
<1>40. CASE EnterFails(p)
  <2>1. CASE Stop(p, "failed")
    BY <1>40, <2>1 DEF EnterFails, Goto, Stop, Forget
  <2>2. CASE Goto(p, "fail log") \/ Goto(p, "fail meta")
    <3>1. pc[p] = "enter" /\ LockOf(p)
      BY <1>40 DEF EnterFails
    <3>2. CASE UNCHANGED <<id, cmd, lock>>
      BY <2>2, <3>1, <3>2 DEF Goto
    <3> QED
      BY <1>40, <2>1, <3>2 DEF EnterFails
  <2> QED
    BY <1>40, <2>1, <2>2 DEF EnterFails
<1>41. CASE Undo(p)
  BY <1>41 DEF Undo
<1>42. CASE UndoDone(p)
  BY <1>42 DEF UndoDone, Goto
<1>43. CASE UndoRefused(p)
  BY <1>43 DEF UndoRefused, Goto
<1>44. CASE UndoFails(p)
  BY <1>44 DEF UndoFails, Goto, Fault, Fails
<1>45. CASE AppendFails(p)
  BY <1>45, ZenonT(60) DEF AppendFails, Goto, Stop, Forget, Fault
<1>46. CASE Mark(p)
  BY <1>46 DEF Mark, Goto
<1>47. CASE Close(p)
  BY <1>47 DEF Close, Goto
<1>48. CASE Settle(p)
  BY <1>48 DEF Settle, Goto
<1>49. CASE SettleFails(p)
  BY <1>49, ZenonT(60) DEF SettleFails, Goto, Stop, End, Forget, Fault, Fails, Ends
<1>50. CASE Clean(p)
  BY <1>50 DEF Clean, Goto
<1>51. CASE CleanFails(p)
  BY <1>51, ZenonT(60) DEF CleanFails, Goto, Stop, End, Forget, Fault, Fails, Ends
<1>52. CASE ReadOwner(p)
  BY <1>52 DEF ReadOwner, Goto
<1>53. CASE NotOwner(p)
  BY <1>53 DEF NotOwner, Goto, Stop, End, Forget, Ends
<1>54. CASE Unlink(p)
  BY <1>54 DEF Unlink, Goto, SetLock
<1>55. CASE UnlinkGone(p)
  BY <1>55, ZenonT(60) DEF UnlinkGone, Goto, Stop, End, Forget, Ends
<1>56. CASE Sync(p)
  BY <1>56 DEF Sync, Goto, Stop, End, Forget
<1>57. CASE ReleaseFails(p)
  BY <1>57, ZenonT(60) DEF ReleaseFails, Goto, Stop, End, Forget, Fault, Ends
<1>58. CASE FailLog(p)
  BY <1>58 DEF FailLog, Goto
<1>59. CASE SpoilLog(p)
  BY <1>59 DEF SpoilLog, Goto
<1>60. CASE FailMeta(p)
  BY <1>60 DEF FailMeta, Goto, Stop, End, Forget
<1>61. CASE FailFails(p)
  BY <1>61 DEF FailFails, Goto, Stop, Forget, Fault
<1>62. CASE Crash(p)
  BY <1>62 DEF Crash, Goto, Forget
<1> QED
  BY <1>1, <1>2, <1>3, <1>4, <1>5, <1>6, <1>7, <1>8, <1>9, <1>10, <1>11, <1>12, <1>13,
      <1>14, <1>15, <1>16, <1>17, <1>18, <1>19, <1>20, <1>21, <1>22, <1>23, <1>24, <1>25,
      <1>26, <1>27, <1>28, <1>29, <1>30, <1>31, <1>32, <1>33, <1>34, <1>35, <1>36, <1>37,
      <1>38, <1>39, <1>40, <1>41, <1>42, <1>43, <1>44, <1>45, <1>46, <1>47, <1>48, <1>49,
      <1>50, <1>51, <1>52, <1>53, <1>54, <1>55, <1>56, <1>57, <1>58, <1>59, <1>60, <1>61,
      <1>62 DEF Start, Step, Look, Begin, Execute, Release, Fail

\* Who writes to the store.
LEMMA WhoWrites ==
  ASSUME NEW p \in Procs, TypeOK, TypeOK', PlaceOf(p), MindOf(p),
         Start(p) \/ Step(p) \/ Crash(p)
  PROVE  /\ \/ UNCHANGED <<lock, meta, log>>
            \/ Owner(p)
            \/ pc[p] = "create lock" /\ lock = None /\ UNCHANGED <<meta, log>>
         /\ \A q \in Procs : q # p => behind'[q] = behind[q] \/ Owner(p)
<1>1. /\ \A i \in Ids : log'[i] = log[i] \/ (i = id[p] /\ LogBecomes(p, log'[i]))
      /\ \A i \in Ids : meta'[i] = meta[i] \/ (i = id[p] /\ MetaBecomes(p, meta'[i]))
      /\ lock' = lock \/ LockBecomes(p, lock')
      /\ \A q \in Procs : q # p => \/ behind'[q] = behind[q]
                                   \/ id[q] = id[p] /\ pc[p] \in Inside
  BY DiskMoves
<1>2. ASSUME pc[p] \notin Inside
      PROVE  UNCHANGED <<meta, log>>
  <2>1. \A i \in Ids : log'[i] = log[i]
    BY <1>1, <1>2 DEF LogBecomes, Inside, Beginning, Writing, Failing, Appending
  <2>2. \A i \in Ids : meta'[i] = meta[i]
    BY <1>1, <1>2 DEF MetaBecomes, Inside, Beginning, Writing, Failing
  <2> QED
    BY <2>1, <2>2 DEF TypeOK
<1>3. ASSUME pc[p] \notin Inside
      PROVE  lock' = lock \/ (pc[p] = "create lock" /\ lock = None)
  BY <1>1, <1>3 DEF LockBecomes, Inside, Beginning
<1> QED
  BY <1>1, <1>2, <1>3 DEF Owner

\* What is not settled keeps the name in the lock.
LEMMA GuardStep ==
  ASSUME NEW p \in Procs, TypeOK, TypeOK', LockGuards, PlaceOf(p), MindOf(p), LockOf(p),
         RecordOf(p), Start(p) \/ Step(p) \/ Crash(p)
  PROVE  LockGuards'
<1>1. /\ \A i \in Ids : log'[i] = log[i] \/ (i = id[p] /\ LogBecomes(p, log'[i]))
      /\ \A i \in Ids : meta'[i] = meta[i] \/ (i = id[p] /\ MetaBecomes(p, meta'[i]))
      /\ lock' = lock \/ LockBecomes(p, lock')
  BY DiskMoves
<1>2. ASSUME NEW i \in Ids, Recorded(i)'
      PROVE  lock' = i
  <2>1. CASE pc[p] \in Inside \ {"write lock", "drop lock", "unlink"}
    <3>1. lock = id[p] /\ lock' = lock
      BY <1>1, <2>1 DEF LockOf, Owner, LockBecomes, Inside, Beginning, Writing, Failing
    <3>2. i # id[p] => Recorded(i)
      BY <1>1, <1>2 DEF Recorded, Active
    <3> QED
      BY <3>1, <3>2 DEF LockGuards
  <2>2. CASE pc[p] \notin Inside \ {"write lock", "drop lock", "unlink"}
    <3>1. log'[i] = log[i] /\ meta'[i] = meta[i]
      BY <1>1, <2>2
      DEF LogBecomes, MetaBecomes, Inside, Beginning, Writing, Failing, Appending
    <3>2. Recorded(i) /\ lock = i
      BY <1>2, <3>1 DEF Recorded, Active, LockGuards
    <3>3. ~LockBecomes(p, lock')
      <4>1. CASE pc[p] = "create lock"
        BY <3>2, <4>1, LockValues DEF LockBecomes
      <4>2. CASE pc[p] = "write lock"
        BY <3>2, <4>2, LockValues DEF LockBecomes, LockOf, Owner, Inside, Beginning
      <4>3. CASE pc[p] = "drop lock"
        BY <3>2, <4>3, LockValues DEF LockOf, RecordOf, Owner, Inside, Beginning
      <4>4. CASE pc[p] = "unlink"
        BY <3>2, <4>4 DEF LockOf, RecordOf, Owner, Inside, Recorded, Active
      <4> QED
        BY <4>1, <4>2, <4>3, <4>4 DEF LockBecomes
    <3> QED
      BY <1>1, <3>2, <3>3
  <2> QED
    BY <2>1, <2>2
<1> QED
  BY <1>2 DEF LockGuards

\* What is not decided in its journal stays visible in its directory.
LEMMA VisibleStep ==
  ASSUME NEW p \in Procs, TypeOK, OpenIsVisible, PlaceOf(p), MindOf(p), LockOf(p),
         RecordOf(p), Start(p) \/ Step(p) \/ Crash(p)
  PROVE  OpenIsVisible'
<1>1. /\ \A i \in Ids : log'[i] = log[i] \/ (i = id[p] /\ LogBecomes(p, log'[i]))
      /\ \A i \in Ids : meta'[i] = meta[i] \/ (i = id[p] /\ MetaBecomes(p, meta'[i]))
  BY DiskMoves
<1>2. ASSUME NEW i \in Ids, log'[i] = "open"
      PROVE  Unresolved(meta'[i]) \/ meta'[i] = "bare"
  <2>1. Unresolved(meta[i]) \/ meta[i] = "bare"
    <3>1. CASE log[i] = "open"
      BY <3>1 DEF OpenIsVisible
    <3>2. CASE log[i] # "open"
      <4>1. i = id[p] /\ pc[p] \in {"log begin", "work", "enter", "undo", "fail log"}
        BY <1>1, <1>2, <3>2 DEF LogBecomes
      <4> QED
        BY <4>1
        DEF RecordOf, Owner, Inside, Beginning, Writing, Failing, Appending, Unresolved
    <3> QED
      BY <3>1, <3>2
  <2>2. CASE meta'[i] = meta[i]
    BY <2>1, <2>2
  <2>3. CASE i = id[p] /\ MetaBecomes(p, meta'[i])
    <3>1. pc[p] \in {"settle", "clean"} => log[i] # "open"
      BY <2>3 DEF RecordOf, Owner, Inside, Writing
    <3>2. pc[p] \in {"settle", "clean", "drop dir"} => log'[i] = log[i] \/ log'[i] = "none"
      BY <1>1 DEF LogBecomes, Appending, Failing
    <3> QED
      BY <1>2, <2>3, <3>1, <3>2 DEF MetaBecomes, MindOf, Unresolved, Unended
  <2> QED
    BY <1>1, <2>2, <2>3
<1> QED
  BY <1>2 DEF OpenIsVisible

\* Who stops owns nothing any more.
LEMMA IdleRecord ==
  ASSUME NEW p \in Procs, TypeOK, pc'[p] = "idle" \/ pc' = [pc EXCEPT ![p] = "idle"]
  PROVE  RecordOf(p)'
<1>1. pc'[p] = "idle"
  BY DEF TypeOK
<1> QED
  BY <1>1 DEF RecordOf, Owner, Inside, Beginning, Writing, Failing, Admitting

\* Who appends, and goes on to append.
LEMMA GoesOn ==
  ASSUME NEW p \in Procs, TypeOK, PlaceOf(p), MindOf(p), RecordOf(p),
         pc[p] \in Appending \cup {"log begin"}, behind'[p] = behind[p], id'[p] = id[p],
         pc'[p] \in Appending \cup {"fail meta"},
         pc'[p] = "work" => pc[p] \in {"work", "log begin"},
         UNCHANGED meta \/ (pc[p] \in {"work", "enter"} /\ Save(p, mem[p]))
  PROVE  RecordOf(p)'
<1>1. Owner(p) /\ id[p] \in Ids
  BY DEF Owner, Inside, Appending, Failing, Writing, Beginning, PlaceOf
<1>2. ~behind[p] /\ Unresolved(meta[id[p]])
  BY <1>1 DEF RecordOf, Appending, Failing, Writing, Unresolved
<1>3. Unresolved(meta'[id[p]]) /\ (pc'[p] = "work" => meta'[id[p]] = "open")
  <2>1. CASE UNCHANGED meta
    BY <1>1, <1>2, <2>1 DEF RecordOf
  <2>2. CASE pc[p] \in {"work", "enter"} /\ Save(p, mem[p])
    BY <1>1, <2>2 DEF MindOf, Save, SetMeta, TypeOK, Unresolved
  <2> QED
    BY <2>1, <2>2
<1> QED
  BY <1>1, <1>2, <1>3 DEF RecordOf, Owner, Inside, Appending, Failing, Writing, Beginning, Admitting

\* What an owner relies on holds where it goes.
LEMMA RecordStep ==
  ASSUME NEW p \in Procs, Disciplined, TypeOK, LockGuards, OpenIsVisible, PlaceOf(p),
         MindOf(p), LockOf(p), RecordOf(p), pc[p] = "drop dir" => ~Crowded(p),
         Start(p) \/ Step(p) \/ Crash(p)
  PROVE  RecordOf(p)'
<1> USE DEF Disciplined, TypeOK, PlaceOf, MindOf, LockOf, RecordOf, Owner, Inside, Recorded,
    Active, Unresolved, Appending, Admitting, Beginning, Finishing, Writing, Failing, disk,
    memory, reads, counts
<1>1. CASE Start(p)
  <2>1. pc'[p] \in {"read lock", "list"} /\ cmd'[p] # "rollback"
    <3>1. CASE StartRun(p)
      BY <3>1 DEF StartRun, Goto
    <3>2. CASE StartRecover(p)
      BY <3>2 DEF StartRecover, Goto
    <3>3. CASE StartHistory(p)
      BY <3>3 DEF StartHistory, Goto
    <3> QED
      BY <1>1, <3>1, <3>2, <3>3 DEF Start
  <2> QED
    BY <2>1
<1>2. CASE ReadLock(p)
  BY <1>2 DEF ReadLock, Goto
<1>3. CASE ReadLockFails(p)
  BY <1>3 DEF ReadLockFails, Goto, Stop, End, Forget
<1>4. CASE List(p)
  BY <1>4 DEF List, Goto
<1>5. CASE Inspect(p)
  BY <1>5 DEF Inspect
<1>6. CASE InspectFails(p)
  BY <1>6 DEF InspectFails, Goto, Stop, End, Forget
<1>7. CASE Inspected(p)
  BY <1>7 DEF Inspected, Goto
<1>8. CASE Listed(p)
  BY <1>8 DEF Listed, Goto, Stop, End, Forget
<1>9. CASE JudgeFails(p)
  BY <1>9 DEF JudgeFails, Goto, Stop, End, Forget
<1>10. CASE Admit(p)
  BY <1>10 DEF Admit, Goto
<1>11. CASE Block(p)
  BY <1>11 DEF Block, Goto, Stop, End, Forget
<1>12. CASE NothingPending(p)
  BY <1>12 DEF NothingPending, Goto, Stop, End, Forget
<1>13. CASE Take(p)
  BY <1>13 DEF Take, Goto
<1>14. CASE CreateLock(p)
  BY <1>14 DEF CreateLock, Goto, SetLock
<1>15. CASE LockTaken(p)
  BY <1>15 DEF LockTaken, Goto, Stop, End, Forget
<1>16. CASE CreateLockFails(p)
  BY <1>16 DEF CreateLockFails, Goto, Stop, End, Forget, Fault
<1>17. CASE WriteLock(p)
  BY <1>17 DEF WriteLock, Goto, SetLock
<1>18. CASE WriteLockFails(p)
  <2>1. ~Recorded(id[p])
    BY <1>18, LockValues DEF WriteLockFails, LockGuards
  <2> QED
    BY <1>18, <2>1 DEF WriteLockFails, Goto
<1>19. CASE MakeDir(p)
  BY <1>19 DEF MakeDir, Goto, SetMeta
<1>20. CASE MakeDirFails(p)
  BY <1>20 DEF MakeDirFails, Goto, SetMeta, Fault
<1>21. CASE WriteMeta(p)
  BY <1>21 DEF WriteMeta, Goto, SetMeta, Missing, Save
<1>22. CASE WriteMetaFails(p)
  BY <1>22 DEF WriteMetaFails, Goto, SetMeta, Fault
<1>23. CASE CreateJournal(p)
  BY <1>23 DEF CreateJournal, Goto, SetLog
<1>24. CASE LogBegin(p)
  <2>1. /\ pc[p] \in Appending \cup {"log begin"} /\ behind'[p] = behind[p]
        /\ pc'[p] \in Appending \cup {"fail meta"} /\ id'[p] = id[p]
        /\ pc'[p] = "work" => pc[p] \in {"work", "log begin"}
    BY <1>24 DEF LogBegin, Goto, Append, PassBy
  <2>2. UNCHANGED meta \/ (pc[p] \in {"work", "enter"} /\ Save(p, mem[p]))
    BY <1>24 DEF LogBegin
  <2> QED
    BY <2>1, <2>2, GoesOn
<1>25. CASE JournalFails(p)
  BY <1>25 DEF JournalFails, Goto, SetLog, Fault
<1>26. CASE DropPart(p)
  BY <1>26 DEF DropPart, SetLog, SetMeta
<1>27. CASE DropDir(p)
  BY <1>27 DEF DropDir, Goto, SetMeta
<1>28. CASE DropLock(p)
  BY <1>28 DEF DropLock, Goto, Stop, End, Forget, SetLock
<1>29. CASE DropDirFails(p)
  BY <1>29 DEF DropDirFails, Goto, Fault
<1>30. CASE DropLockFails(p)
  BY <1>30 DEF DropLockFails, Goto, Stop, End, Forget, Fault
<1>31. CASE Work(p)
  <2>1. /\ pc[p] \in Appending \cup {"log begin"} /\ behind'[p] = behind[p]
        /\ pc'[p] \in Appending \cup {"fail meta"} /\ id'[p] = id[p]
        /\ pc'[p] = "work" => pc[p] \in {"work", "log begin"}
    BY <1>31 DEF Work, Goto, Append, PassBy
  <2>2. UNCHANGED meta \/ (pc[p] \in {"work", "enter"} /\ Save(p, mem[p]))
    BY <1>31 DEF Work
  <2> QED
    BY <2>1, <2>2, GoesOn
<1>32. CASE WorkDone(p)
  BY <1>32 DEF WorkDone, Goto
<1>33. CASE WorkFails(p)
  BY <1>33 DEF WorkFails, Goto
<1>34. CASE Open(p)
  <2>1. behind'[p] = FALSE /\ id'[p] = id[p] /\ id[p] \in Ids /\ UNCHANGED <<meta, log>>
    BY <1>34 DEF Open
  <2>2. CASE log[id[p]] = "decided"
    BY <1>34, <2>1, <2>2 DEF Open, Goto
  <2>3. CASE log[id[p]] = "open"
    <3>1. meta[id[p]] \in {"open", "reopened"}
      BY <1>34, <2>1, <2>3 DEF Open, OpenIsVisible
    <3> QED
      BY <1>34, <2>1, <2>3, <3>1 DEF Open, Goto
  <2> QED
    BY <1>34, <2>2, <2>3 DEF Open, Readable
<1>35. CASE OpenRefused(p)
  BY <1>35 DEF OpenRefused, Goto, Stop, End, Forget
<1>36. CASE OpenFails(p)
  BY <1>36 DEF OpenFails, Goto, Stop, End, Forget, Fault
<1>37. CASE Enter(p)
  <2>1. /\ pc[p] \in Appending \cup {"log begin"} /\ behind'[p] = behind[p]
        /\ pc'[p] \in Appending \cup {"fail meta"} /\ id'[p] = id[p]
        /\ pc'[p] = "work" => pc[p] \in {"work", "log begin"}
    BY <1>37 DEF Enter, Goto, Append, PassBy
  <2>2. UNCHANGED meta \/ (pc[p] \in {"work", "enter"} /\ Save(p, mem[p]))
    BY <1>37 DEF Enter
  <2> QED
    BY <2>1, <2>2, GoesOn
<1>38. CASE EnterFails(p)
  <2>1. CASE Stop(p, "failed")
    BY <2>1, IdleRecord DEF Stop, Forget, Goto
  <2>2. CASE ~Stop(p, "failed")
    <3>1. /\ pc[p] = "enter" /\ id' = id /\ behind' = behind
          /\ pc'[p] \in {"fail log", "fail meta"}
      BY <1>38, <2>2 DEF EnterFails, Goto
    <3>2. UNCHANGED meta \/ Save(p, mem[p])
      BY <1>38 DEF EnterFails
    <3> QED
      BY <3>1, <3>2, GoesOn
  <2> QED
    BY <2>1, <2>2
<1>39. CASE Undo(p)
  <2>1. /\ pc[p] \in Appending \cup {"log begin"} /\ behind'[p] = behind[p]
        /\ pc'[p] \in Appending \cup {"fail meta"} /\ id'[p] = id[p]
        /\ pc'[p] = "work" => pc[p] \in {"work", "log begin"}
    BY <1>39 DEF Undo, Goto, Append, PassBy
  <2>2. UNCHANGED meta \/ (pc[p] \in {"work", "enter"} /\ Save(p, mem[p]))
    BY <1>39 DEF Undo
  <2> QED
    BY <2>1, <2>2, GoesOn
<1>40. CASE UndoDone(p)
  BY <1>40 DEF UndoDone, Goto
<1>41. CASE UndoRefused(p)
  BY <1>41 DEF UndoRefused, Goto
<1>42. CASE UndoFails(p)
  BY <1>42 DEF UndoFails, Goto, Missing, Fault, Fails
<1>43. CASE AppendFails(p)
  <2>1. CASE Stop(p, Failure(p))
    BY <2>1, IdleRecord DEF Stop, Forget, Goto
  <2>2. CASE ~Stop(p, Failure(p))
    <3>1. /\ pc[p] \in {"work", "undo", "mark", "close"} /\ UNCHANGED <<meta, id>>
      BY <1>43, <2>2 DEF AppendFails
    <3>2. behind'[p] = behind[p]
      <4>1. UNCHANGED behind \/ PassBy(p)
        BY <1>43 DEF AppendFails, Leaves, Append, Tear
      <4> QED
        BY <4>1 DEF PassBy
    <3>3. CASE pc'[p] = "read lock" /\ pc[p] = "work"
      BY <3>1, <3>2, <3>3
    <3>4. CASE pc'[p] \in {"fail log", "spoil log"}
      BY <3>1, <3>2, <3>4, GoesOn
    <3> QED
      BY <1>43, <2>2, <3>3, <3>4 DEF AppendFails, Goto
  <2> QED
    BY <2>1, <2>2
<1>44. CASE Mark(p)
  <2>1. /\ pc[p] \in Appending \cup {"log begin"} /\ behind'[p] = behind[p]
        /\ pc'[p] \in Appending \cup {"fail meta"} /\ id'[p] = id[p]
        /\ pc'[p] = "work" => pc[p] \in {"work", "log begin"}
    BY <1>44 DEF Mark, Goto, Append, PassBy
  <2>2. UNCHANGED meta \/ (pc[p] \in {"work", "enter"} /\ Save(p, mem[p]))
    BY <1>44 DEF Mark
  <2> QED
    BY <2>1, <2>2, GoesOn
<1>45. CASE Close(p)
  <2>1. /\ pc[p] = "close" /\ pc'[p] = "settle" /\ id'[p] = id[p] /\ id[p] \in Ids
        /\ ~behind[p] /\ cmd' = cmd /\ UNCHANGED meta
    BY <1>45 DEF Close, Goto
  <2>2. Append(p, "decided") /\ "decided" \in Logs
    BY <1>45 DEF Close, Logs
  <2>3. log'[id[p]] \in {"decided", "none"}
    BY <2>1, <2>2 DEF Append, Frames
  <2>4. behind'[p] = behind[p]
    BY <2>2 DEF Append, PassBy
  <2> QED
    BY <2>1, <2>3, <2>4
<1>46. CASE Settle(p)
  BY <1>46 DEF Settle, Goto, SetMeta, Missing, Save
<1>47. CASE SettleFails(p)
  <2>1. CASE pc'[p] = "idle"
    BY <2>1, IdleRecord
  <2>2. CASE pc'[p] # "idle"
    <3>1. pc'[p] = "fail meta" /\ id'[p] = id[p] /\ behind' = behind /\ ~behind[p]
      BY <1>47, <2>2 DEF SettleFails, Goto, Ends, End, Stop, Forget
    <3> QED
      BY <3>1
  <2> QED
    BY <2>1, <2>2
<1>48. CASE Clean(p)
  BY <1>48 DEF Clean, Goto, SetMeta, Missing, Save
<1>49. CASE CleanFails(p)
  <2>1. CASE pc'[p] = "idle"
    BY <2>1, IdleRecord
  <2>2. CASE pc'[p] # "idle"
    <3>1. pc'[p] = "fail meta" /\ id'[p] = id[p] /\ behind' = behind /\ ~behind[p]
      BY <1>49, <2>2 DEF CleanFails, Goto, Ends, End, Stop, Forget
    <3> QED
      BY <3>1
  <2> QED
    BY <2>1, <2>2
<1>50. CASE ReadOwner(p)
  BY <1>50 DEF ReadOwner, Goto
<1>51. CASE NotOwner(p)
  BY <1>51 DEF NotOwner, Goto, Stop, End, Forget, Ends
<1>52. CASE Unlink(p)
  BY <1>52 DEF Unlink, Goto, SetLock
<1>53. CASE UnlinkGone(p)
  <2>1. lock = None /\ lock = id[p] /\ id[p] \in Ids
    BY <1>53 DEF UnlinkGone
  <2> QED
    BY <2>1, LockValues
<1>54. CASE Sync(p)
  BY <1>54 DEF Sync, Goto, Stop, End, Forget
<1>55. CASE ReleaseFails(p)
  <2>1. CASE pc'[p] = "idle"
    BY <2>1, IdleRecord
  <2>2. CASE pc'[p] # "idle" /\ pc[p] # "sync"
    <3>1. pc'[p] = "fail meta" /\ id'[p] = id[p] /\ behind' = behind /\ ~behind[p]
      BY <1>55, <2>2 DEF ReleaseFails, Goto, Ends, End, Stop, Forget
    <3> QED
      BY <3>1
  <2>3. CASE pc[p] = "sync"
    <3>1. ~undoing[p]
      BY <1>55, <2>3 DEF ReleaseFails, Fault
    <3> QED
      BY <1>55, <3>1, IdleRecord DEF ReleaseFails, Ends, End, Stop, Forget, Goto
  <2> QED
    BY <2>1, <2>2, <2>3
<1>56. CASE FailLog(p)
  <2>1. /\ pc[p] \in Appending \cup {"log begin"} /\ behind'[p] = behind[p]
        /\ pc'[p] \in Appending \cup {"fail meta"} /\ id'[p] = id[p]
        /\ pc'[p] = "work" => pc[p] \in {"work", "log begin"}
    BY <1>56 DEF FailLog, Goto, Append, PassBy
  <2>2. UNCHANGED meta \/ (pc[p] \in {"work", "enter"} /\ Save(p, mem[p]))
    BY <1>56 DEF FailLog
  <2> QED
    BY <2>1, <2>2, GoesOn
<1>57. CASE SpoilLog(p)
  <2>1. /\ pc[p] \in Appending \cup {"log begin"} /\ behind'[p] = behind[p]
        /\ pc'[p] \in Appending \cup {"fail meta"} /\ id'[p] = id[p]
        /\ pc'[p] = "work" => pc[p] \in {"work", "log begin"}
    BY <1>57 DEF SpoilLog, Goto, Append, PassBy
  <2>2. UNCHANGED meta \/ (pc[p] \in {"work", "enter"} /\ Save(p, mem[p]))
    BY <1>57 DEF SpoilLog
  <2> QED
    BY <2>1, <2>2, GoesOn
<1>58. CASE FailMeta(p)
  BY <1>58 DEF FailMeta, Goto, Stop, End, Forget, SetMeta, Missing, Save, Unended
<1>59. CASE FailFails(p)
  BY <1>59 DEF FailFails, Goto, Stop, Forget, Fault
<1>60. CASE Crash(p)
  BY <1>60 DEF Crash, Goto, Forget
<1> QED
  BY <1>1, <1>2, <1>3, <1>4, <1>5, <1>6, <1>7, <1>8, <1>9, <1>10, <1>11, <1>12, <1>13,
      <1>14, <1>15, <1>16, <1>17, <1>18, <1>19, <1>20, <1>21, <1>22, <1>23, <1>24, <1>25,
      <1>26, <1>27, <1>28, <1>29, <1>30, <1>31, <1>32, <1>33, <1>34, <1>35, <1>36, <1>37,
      <1>38, <1>39, <1>40, <1>41, <1>42, <1>43, <1>44, <1>45, <1>46, <1>47, <1>48, <1>49,
      <1>50, <1>51, <1>52, <1>53, <1>54, <1>55, <1>56, <1>57, <1>58, <1>59, <1>60
      DEF Start, Step, Look, Begin, Execute, Release, Fail

\* What Pending reads of the transaction of its own root stays so until it judges.
LEMMA SeenStep ==
  ASSUME NEW p \in Procs, TypeOK, LockGuards, PlaceOf(p), MindOf(p), LockOf(p), RecordOf(p),
         SeenOf(p), Start(p) \/ Step(p) \/ Crash(p)
  PROVE  SeenOf(p)'
<1> USE DEF TypeOK, PlaceOf, LockOf, RecordOf, SeenOf, Owner, Inside, Looking,
    Admitting, Beginning, Finishing, disk, memory, reads, counts
<1>1. CASE StartRun(p)
  BY <1>1 DEF StartRun, Goto
<1>2. CASE StartRecover(p)
  BY <1>2 DEF StartRecover, Goto
<1>3. CASE StartHistory(p)
  BY <1>3 DEF StartHistory, Goto
<1>4. CASE ReadLock(p)
  BY <1>4 DEF ReadLock, Goto
<1>5. CASE ReadLockFails(p)
  BY <1>5 DEF ReadLockFails, Goto, Stop, End, Forget
<1>6. CASE List(p)
  BY <1>6, LockValues DEF List, Goto, LockGuards, Recorded, Active
<1>7. CASE Inspect(p)
  <2>1. PICK i \in names[p] : /\ names' = [names EXCEPT ![p] = @ \ {i}]
                             /\ meta[i] \notin {"none", "bare"}
                             /\ found' = [found EXCEPT ![p] = IF Unresolved(meta[i]) THEN @ \cup {i} ELSE @]
    BY <1>7 DEF Inspect
  <2>2. names[p] \subseteq Ids /\ found[p] \subseteq Ids
    OBVIOUS
  <2> QED
    BY <1>7, <2>1, <2>2 DEF Inspect
<1>8. CASE InspectFails(p)
  BY <1>8 DEF InspectFails, Goto, Stop, End, Forget
<1>9. CASE Inspected(p)
  BY <1>9 DEF Inspected, Goto
<1>10. CASE Listed(p)
  BY <1>10 DEF Listed, Goto, Stop, End, Forget
<1>11. CASE JudgeFails(p)
  BY <1>11 DEF JudgeFails, Goto, Stop, End, Forget
<1>12. CASE Admit(p)
  BY <1>12 DEF Admit, Goto
<1>13. CASE Block(p)
  BY <1>13 DEF Block, Goto, Stop, End, Forget
<1>14. CASE NothingPending(p)
  BY <1>14 DEF NothingPending, Goto, Stop, End, Forget
<1>15. CASE Take(p)
  BY <1>15 DEF Take, Goto
<1>16. CASE CreateLock(p)
  BY <1>16 DEF CreateLock, Goto
<1>17. CASE LockTaken(p)
  BY <1>17 DEF LockTaken, Goto, Stop, End, Forget
<1>18. CASE CreateLockFails(p)
  BY <1>18 DEF CreateLockFails, Goto, Stop, End, Forget
<1>19. CASE WriteLock(p)
  BY <1>19 DEF WriteLock, Goto
<1>20. CASE WriteLockFails(p)
  BY <1>20 DEF WriteLockFails, Goto
<1>21. CASE MakeDir(p)
  BY <1>21 DEF MakeDir, Goto
<1>22. CASE MakeDirFails(p)
  BY <1>22 DEF MakeDirFails, Goto
<1>23. CASE WriteMeta(p)
  BY <1>23 DEF WriteMeta, Goto
<1>24. CASE WriteMetaFails(p)
  BY <1>24 DEF WriteMetaFails, Goto
<1>25. CASE CreateJournal(p)
  BY <1>25 DEF CreateJournal, Goto
<1>26. CASE LogBegin(p)
  BY <1>26 DEF LogBegin, Goto
<1>27. CASE JournalFails(p)
  BY <1>27 DEF JournalFails, Goto
<1>28. CASE DropPart(p)
  BY <1>28 DEF DropPart
<1>29. CASE DropDir(p)
  BY <1>29 DEF DropDir, Goto
<1>30. CASE DropLock(p)
  BY <1>30 DEF DropLock, Goto, Stop, End, Forget
<1>31. CASE DropDirFails(p)
  BY <1>31 DEF DropDirFails, Goto
<1>32. CASE DropLockFails(p)
  BY <1>32 DEF DropLockFails, Goto, Stop, End, Forget
<1>33. CASE Work(p)
  BY <1>33 DEF Work
<1>34. CASE WorkDone(p)
  BY <1>34 DEF WorkDone, Goto
<1>35. CASE WorkFails(p)
  BY <1>35 DEF WorkFails, Goto
<1>36. CASE Open(p)
  BY <1>36 DEF Open, Goto
<1>37. CASE OpenRefused(p)
  BY <1>37 DEF OpenRefused, Goto, Stop, End, Forget
<1>38. CASE OpenFails(p)
  BY <1>38 DEF OpenFails, Goto, Stop, End, Forget
<1>39. CASE Enter(p)
  BY <1>39 DEF Enter, Goto
<1>40. CASE EnterFails(p)
  BY <1>40 DEF EnterFails, Goto, Stop, Forget
<1>41. CASE Undo(p)
  BY <1>41 DEF Undo
<1>42. CASE UndoDone(p)
  BY <1>42 DEF UndoDone, Goto
<1>43. CASE UndoRefused(p)
  BY <1>43 DEF UndoRefused, Goto
<1>44. CASE UndoFails(p)
  BY <1>44 DEF UndoFails, Goto
<1>45. CASE AppendFails(p)
  BY <1>45 DEF AppendFails, Goto, Stop, Forget
<1>46. CASE Mark(p)
  BY <1>46 DEF Mark, Goto
<1>47. CASE Close(p)
  BY <1>47 DEF Close, Goto
<1>48. CASE Settle(p)
  BY <1>48 DEF Settle, Goto
<1>49. CASE SettleFails(p)
  BY <1>49 DEF SettleFails, Goto, Stop, End, Forget, Ends
<1>50. CASE Clean(p)
  BY <1>50 DEF Clean, Goto
<1>51. CASE CleanFails(p)
  BY <1>51 DEF CleanFails, Goto, Stop, End, Forget, Ends
<1>52. CASE ReadOwner(p)
  BY <1>52 DEF ReadOwner, Goto
<1>53. CASE NotOwner(p)
  BY <1>53 DEF NotOwner, Goto, Stop, End, Forget, Ends
<1>54. CASE Unlink(p)
  BY <1>54 DEF Unlink, Goto
<1>55. CASE UnlinkGone(p)
  BY <1>55 DEF UnlinkGone, Goto, Stop, End, Forget, Ends
<1>56. CASE Sync(p)
  BY <1>56 DEF Sync, Goto, Stop, End, Forget
<1>57. CASE ReleaseFails(p)
  BY <1>57 DEF ReleaseFails, Goto, Stop, End, Forget, Ends
<1>58. CASE FailLog(p)
  BY <1>58 DEF FailLog, Goto
<1>59. CASE SpoilLog(p)
  BY <1>59 DEF SpoilLog, Goto
<1>60. CASE FailMeta(p)
  BY <1>60 DEF FailMeta, Goto, Stop, End, Forget
<1>61. CASE FailFails(p)
  BY <1>61 DEF FailFails, Goto, Stop, Forget
<1>62. CASE Crash(p)
  BY <1>62 DEF Crash, Goto, Forget
<1> QED
  BY <1>1, <1>2, <1>3, <1>4, <1>5, <1>6, <1>7, <1>8, <1>9, <1>10, <1>11, <1>12, <1>13,
      <1>14, <1>15, <1>16, <1>17, <1>18, <1>19, <1>20, <1>21, <1>22, <1>23, <1>24, <1>25,
      <1>26, <1>27, <1>28, <1>29, <1>30, <1>31, <1>32, <1>33, <1>34, <1>35, <1>36, <1>37,
      <1>38, <1>39, <1>40, <1>41, <1>42, <1>43, <1>44, <1>45, <1>46, <1>47, <1>48, <1>49,
      <1>50, <1>51, <1>52, <1>53, <1>54, <1>55, <1>56, <1>57, <1>58, <1>59, <1>60, <1>61,
      <1>62 DEF Start, Step, Look, Begin, Execute, Release, Fail

\* The steps above, for the process that moves and for the others.
LEMMA InvStep ==
  ASSUME Disciplined, Inv, [Next]_vars
  PROVE  Inv'
<1>1. CASE UNCHANGED vars
  <2>1. /\ lock' = lock /\ meta' = meta /\ log' = log /\ torn' = torn /\ pc' = pc
        /\ cmd' = cmd /\ id' = id /\ mem' = mem /\ undoing' = undoing /\ behind' = behind
        /\ answer' = answer /\ seen' = seen /\ names' = names /\ found' = found
        /\ runs' = runs /\ crashes' = crashes /\ faults' = faults
    BY <1>1 DEF vars, disk, memory, reads, counts
  <2>2. TypeOK' /\ LockGuards' /\ OpenIsVisible'
    BY <2>1 DEF Inv, TypeOK, LockGuards, Recorded, Active, OpenIsVisible
  <2>3. PlaceInv' /\ AloneInv'
    BY <2>1 DEF Inv, PlaceInv, AloneInv, PlaceOf, MindOf, Owner, Inside, Working, Recovering
  <2>4. OwnInv'
    BY <2>1 DEF Inv, OwnInv, LockOf, RecordOf, SeenOf, Owner, Inside, Recorded, Active
  <2> QED
    BY <2>2, <2>3, <2>4 DEF Inv
<1>2. ASSUME NEW p \in Procs, Start(p) \/ Step(p) \/ Crash(p)
      PROVE  Inv'
  <2>1. /\ PlaceOf(p) /\ MindOf(p) /\ LockOf(p) /\ RecordOf(p) /\ SeenOf(p)
        /\ TypeOK /\ LockGuards /\ OpenIsVisible
    BY DEF Inv, PlaceInv, OwnInv
  <2>2. TypeOK'
    <3>1. runs' \in Nat /\ crashes' \in Nat /\ faults' \in Nat
      BY <1>2, <2>1, Counts DEF TypeOK
    <3> QED
      BY <1>2, <2>1, <3>1, Types
  <2>3. LockGuards' /\ OpenIsVisible'
    BY <1>2, <2>1, <2>2, GuardStep, VisibleStep
  <2>4. PlaceOf(p)' /\ MindOf(p)' /\ LockOf(p)' /\ RecordOf(p)' /\ SeenOf(p)'
    <3>1. pc[p] = "drop dir" => ~Crowded(p)
      BY DEF Crowded, Inv, AloneInv, Owner, Inside, Beginning
    <3> QED
      BY <1>2, <2>1, <3>1, PlaceStep, LockStep, RecordStep, SeenStep
  <2>5. \A q \in Procs : q # p =>
           /\ pc'[q] = pc[q] /\ cmd'[q] = cmd[q] /\ id'[q] = id[q]
           /\ mem'[q] = mem[q] /\ undoing'[q] = undoing[q]
           /\ seen'[q] = seen[q] /\ names'[q] = names[q] /\ found'[q] = found[q]
    BY <1>2, <2>1, OthersStay
  <2>6. PlaceInv'
    <3>1. ASSUME NEW q \in Procs, q # p
          PROVE  PlaceOf(q)' /\ MindOf(q)'
      <4>1. PlaceOf(q) /\ MindOf(q)
        BY DEF Inv, PlaceInv
      <4>2. PlaceOf(q)'
        <5>1. /\ pc'[q] = pc[q] /\ cmd'[q] = cmd[q] /\ id'[q] = id[q]
              /\ seen'[q] = seen[q] /\ names'[q] = names[q] /\ found'[q] = found[q]
          BY <2>5, <3>1
        <5> QED
          BY <4>1, <5>1 DEF PlaceOf
      <4>3. MindOf(q)'
        BY <2>5, <3>1, <4>1 DEF MindOf
      <4> QED
        BY <4>2, <4>3
    <3> QED
      BY <2>4, <3>1 DEF PlaceInv
  <2>7. AloneInv'
    <3>1. /\ Owner(p)' => \/ Owner(p) \/ Recovering(p)
                          \/ pc[p] = "create lock" /\ lock = None
          /\ Working(p)' => Working(p) \/ \A q \in Procs : ~Recovering(q)
          /\ Recovering(p)' => \/ Recovering(p)
                               \/ \A q \in Procs : ~Working(q) /\ ~Recovering(q)
      BY <1>2, <2>1, WhoEnters
    <3>2. ASSUME NEW q \in Procs, q # p
          PROVE  /\ Owner(q)' = Owner(q)
                 /\ Working(q)' = Working(q) /\ Recovering(q)' = Recovering(q)
      BY <2>5, <3>2 DEF Owner, Inside, Working, Recovering
    <3>3. ASSUME NEW q \in Procs, q # p, Owner(q)
          PROVE  (Working(q) \/ Recovering(q)) /\ lock # None
      <4>1. LockOf(q) /\ PlaceOf(q)
        BY DEF Inv, OwnInv, PlaceInv
      <4> QED
        BY <3>3, <4>1, LockValues
        DEF LockOf, PlaceOf, Owner, Inside, Working, Recovering, Beginning, Finishing, Writing,
            Failing, Admitting, Inv, TypeOK, Commands
    <3>4. ASSUME NEW q \in Procs, q # p, Owner(q), Owner(p)'
          PROVE  FALSE
      BY <3>1, <3>3, <3>4 DEF Inv, AloneInv
    <3>5. \A q \in Procs : q # p => ~(Owner(q)' /\ Owner(p)')
      BY <3>2, <3>4
    <3>6. \A q \in Procs : q # p =>
            /\ Recovering(p)' => ~Working(q)' /\ ~Recovering(q)'
            /\ Recovering(q)' => ~Working(p)' /\ ~Recovering(p)'
      BY <3>1, <3>2 DEF Inv, AloneInv
    <3>7. \A q, r \in Procs : q # p /\ r # p =>
            /\ Owner(q)' /\ Owner(r)' => q = r
            /\ Recovering(q)' /\ q # r => ~Working(r)' /\ ~Recovering(r)'
      BY <3>2 DEF Inv, AloneInv
    <3> QED
      BY <3>5, <3>6, <3>7 DEF AloneInv
  <2>8. ASSUME NEW q \in Procs, q # p
        PROVE  (LockOf(q) /\ RecordOf(q) /\ SeenOf(q))'
    <3>1. /\ \/ UNCHANGED <<lock, meta, log>>
             \/ Owner(p)
             \/ pc[p] = "create lock" /\ lock = None /\ UNCHANGED <<meta, log>>
          /\ behind'[q] = behind[q] \/ Owner(p)
      BY <1>2, <2>1, <2>2, <2>8, WhoWrites
    <3>2. LockOf(q) /\ RecordOf(q) /\ SeenOf(q) /\ PlaceOf(q)
      BY DEF Inv, OwnInv, PlaceInv
    <3>3. CASE Owner(q)
      <4>1. ~Owner(p)
        BY <2>8, <3>3 DEF Inv, AloneInv
      <4>2. lock # None
        BY <3>2, <3>3, LockValues DEF LockOf
      <4>3. UNCHANGED <<lock, meta, log>> /\ behind'[q] = behind[q]
        BY <3>1, <4>1, <4>2
      <4> QED
        BY <2>5, <2>8, <3>2, <4>3
        DEF LockOf, RecordOf, SeenOf, Owner, Inside, Recorded, Active
    <3>4. CASE ~Owner(q)
      <4>1. ~Owner(q)'
        BY <2>5, <2>8, <3>4 DEF Owner, Inside
      <4>2. SeenOf(q)'
        <5>1. CASE cmd[q] = "recover" /\ pc[q] \in Looking
          <6>1. Recovering(q)
            BY <5>1 DEF Recovering, Looking
          <6>2. ~Working(p) /\ ~Recovering(p)
            BY <2>8, <6>1 DEF Inv, AloneInv
          <6>3. ~Owner(p) /\ pc[p] # "create lock"
            BY <2>1, <6>2
            DEF Owner, Inside, Working, Recovering, PlaceOf, Beginning, Writing, Failing, Admitting,
                TypeOK, Commands
          <6>4. UNCHANGED <<lock, meta, log>>
            BY <3>1, <6>3
          <6> QED
            BY <2>5, <2>8, <3>2, <5>1, <6>4 DEF SeenOf, Looking
        <5>2. CASE ~(cmd[q] = "recover" /\ pc[q] \in Looking)
          <6>1. ~(cmd[q] = "rollback" /\ pc[q] \in Looking)
            BY <3>4 DEF Owner, Inside, Looking, Admitting
          <6> QED
            BY <2>5, <2>8, <5>2, <6>1 DEF SeenOf
        <5> QED
          BY <5>1, <5>2
      <4> QED
        BY <4>1, <4>2 DEF LockOf, RecordOf
    <3> QED
      BY <3>3, <3>4
  <2>9. OwnInv'
    BY <2>4, <2>8 DEF OwnInv
  <2> QED
    BY <2>2, <2>3, <2>6, <2>7, <2>9 DEF Inv
<1> QED
  BY <1>1, <1>2 DEF Next

LEMMA InvInit == Init => Inv
BY RunsAssumption
DEF Init, Inv, TypeOK, LockGuards, OpenIsVisible, PlaceInv, OwnInv, AloneInv, PlaceOf, MindOf,
    LockOf, RecordOf, SeenOf, Owner, Inside, Working, Recovering, Recorded, Active, Locations,
    Admitting, Beginning, Finishing, Writing, Failing, Looking, Commands, Metas, Logs, Answers,
    Refusals, None, Ids

\* The invariant, for every number of processes and runs.
THEOREM Invariance ==
  ASSUME Disciplined
  PROVE  Spec => []Inv
<1>1. Init => Inv
  BY InvInit
<1>2. Inv /\ [Next]_vars => Inv'
  BY InvStep
<1> QED
  BY <1>1, <1>2, PTL DEF Spec

\* The lock names whatever is not settled, through every crash and failing call.
THEOREM LockCorrect ==
  ASSUME Disciplined
  PROVE  Spec => []LockGuards
<1>1. Inv => LockGuards
  BY DEF Inv
<1> QED
  BY <1>1, Invariance, PTL

\* Who writes to a transaction owns the lock and knows its journal.
THEOREM WriterCorrect ==
  ASSUME Disciplined
  PROVE  Spec => []WriterOwns
<1>1. Inv => WriterOwns
  BY DEF Inv, OwnInv, LockOf, RecordOf, WriterOwns, Owner, Inside, Writing, Failing
<1> QED
  BY <1>1, Invariance, PTL

\* Mutual exclusion of the processes of a root.
THEOREM MutualExclusion ==
  ASSUME Disciplined
  PROVE  Spec => []OneWriter
<1>1. Inv => OneWriter
  BY DEF Inv, AloneInv, OneWriter, Owner, Inside
<1> QED
  BY <1>1, Invariance, PTL

\* A transaction whose journal is open is unresolved in its directory.
THEOREM VisibleCorrect ==
  ASSUME Disciplined
  PROVE  Spec => []OpenIsVisible
<1>1. Inv => OpenIsVisible
  BY DEF Inv
<1> QED
  BY <1>1, Invariance, PTL

\* The name in the lock does not become another name in one step.
LEMMA LockChanges ==
  ASSUME NEW p \in Procs, TypeOK, PlaceOf(p), MindOf(p), LockOf(p),
         Start(p) \/ Step(p) \/ Crash(p)
  PROVE  lock' = lock \/ lock \notin Ids \/ lock' \notin Ids
<1>1. lock' = lock \/ LockBecomes(p, lock')
  BY DiskMoves
<1>2. pc[p] = "write lock" => lock = Blank
  BY DEF LockOf, Owner, Inside, Beginning
<1> QED
  BY <1>1, <1>2, LockValues DEF LockBecomes

\* The unsettled transactions change as SerialRoot says, or not at all.
LEMMA SerialStep ==
  ASSUME Inv, Inv', [Next]_vars
  PROVE  [Serial!Next]_{i \in Ids : Active(i) \/ (meta[i] = "cleaned" /\ lock = i)}
<1> DEFINE A == {i \in Ids : Active(i) \/ (meta[i] = "cleaned" /\ lock = i)}
<1>1. A \subseteq {lock} /\ A' \subseteq {lock'}
  BY DEF Inv, LockGuards, Recorded
<1>2. lock' = lock \/ lock \notin Ids \/ lock' \notin Ids
  <2>1. CASE UNCHANGED vars
    BY <2>1 DEF vars, disk
  <2>2. ASSUME NEW p \in Procs, Start(p) \/ Step(p) \/ Crash(p)
        PROVE  lock' = lock \/ lock \notin Ids \/ lock' \notin Ids
    BY <2>2, LockChanges DEF Inv, OwnInv, PlaceInv
  <2> QED
    BY <2>1, <2>2 DEF Next
<1>3. A \subseteq Ids /\ A' \subseteq Ids
  OBVIOUS
<1>4. A' = A \/ A = {} \/ A' = {}
  BY <1>1, <1>2, <1>3
<1>5. A = {} => A' = {} \/ \E i \in Ids : A' = {i}
  BY <1>1, <1>3
<1> HIDE DEF A
<1>6. A' = A \/ (A = {} /\ \E i \in Ids : A' = {i}) \/ (A # {} /\ A' = {})
  BY <1>4, <1>5
<1> QED
  BY <1>6 DEF A, Serial!Next, Serial!Enter, Serial!Leave

\* The lock implements the abstract root: one unsettled transaction at a time.
THEOREM Refinement ==
  ASSUME Disciplined
  PROVE  Spec => OneTransaction
<1>1. Init => Serial!Init
  BY DEF Init, Active, Serial!Init
<1>2. Inv /\ Inv' /\ [Next]_vars =>
        [Serial!Next]_{i \in Ids : Active(i) \/ (meta[i] = "cleaned" /\ lock = i)}
  BY SerialStep
<1> QED
  BY <1>1, <1>2, Invariance, PTL DEF Spec, OneTransaction, Serial!Spec

\* What Pending answers to the rollback of a failed run.
LEMMA OwnPending ==
  ASSUME NEW p \in Procs, Inv, pc[p] = "judge", cmd[p] = "rollback"
  PROVE  Refusal(p) = "none" /\ Pending(p) = {id[p]}
<1>1. Owner(p)
  BY DEF Owner, Inside, Admitting
<1>2. id[p] \in Ids /\ lock = id[p] /\ meta[id[p]] = "open"
  BY <1>1 DEF Inv, OwnInv, LockOf, RecordOf, Admitting
<1>3. seen[p] = lock /\ \A i \in found[p] : Unresolved(meta[i])
  BY DEF Inv, OwnInv, SeenOf, Looking
<1>4. seen[p] # None
  BY <1>2, <1>3, LockValues
<1>5. found[p] \subseteq {seen[p]}
  BY <1>3 DEF Inv, TypeOK, LockGuards, Recorded, Active, Unresolved
<1> QED
  BY <1>2, <1>3, <1>4, <1>5 DEF Refusal, Pending

\* A failed run rolls back its own transaction and no other.
THEOREM OwnRollbackCorrect ==
  ASSUME Disciplined
  PROVE  Spec => OwnRollback
<1> DEFINE Asks(p) == pc[p] = "judge" /\ cmd[p] = "rollback" /\ pc'[p] # "judge"
                      /\ crashes' = crashes
<1>1. ASSUME Inv, [Next]_vars, NEW p \in Procs, Asks(p)
      PROVE  pc'[p] = "open" /\ id'[p] = id[p]
  <2>1. PICK q \in Procs : Start(q) \/ Step(q) \/ Crash(q)
    BY <1>1 DEF Next, vars
  <2>2. q = p
    BY <1>1, <2>1, OthersStay DEF Inv
  <2>3. ~Crash(p)
    BY <1>1 DEF Crash, Inv, TypeOK
  <2>4. Refusal(p) = "none" /\ Pending(p) = {id[p]}
    BY <1>1, OwnPending
  <2>5. Take(p)
    <3>1. ~Start(p)
      BY <1>1 DEF Start, StartRun, StartRecover, StartHistory
    <3>2. ~Begin(p)
      BY <1>1 DEF Begin, CreateLock, LockTaken, CreateLockFails, WriteLock, WriteLockFails,
                  MakeDir, MakeDirFails, WriteMeta, WriteMetaFails, CreateJournal, LogBegin,
                  JournalFails, DropPart, DropDir, DropLock, DropDirFails, DropLockFails
    <3>3. ~Execute(p)
      BY <1>1 DEF Execute, Work, WorkDone, WorkFails, Open, OpenRefused, OpenFails, Enter,
                  EnterFails, Undo, UndoDone, UndoRefused, UndoFails, AppendFails, Mark,
                  Close, Settle, SettleFails, Clean, CleanFails
    <3>4. ~Release(p) /\ ~Fail(p)
      BY <1>1 DEF Release, ReadOwner, NotOwner, Unlink, UnlinkGone, Sync, ReleaseFails,
                  Fail, FailLog, SpoilLog, FailMeta, FailFails, Failing
    <3>5. ~JudgeFails(p) /\ ~NothingPending(p) /\ ~Admit(p) /\ ~Block(p)
      BY <1>1, <2>4 DEF JudgeFails, NothingPending, Admit, Block
    <3>6. ~ReadLock(p) /\ ~ReadLockFails(p) /\ ~List(p) /\ ~Inspect(p) /\ ~InspectFails(p)
          /\ ~Inspected(p) /\ ~Listed(p)
      BY <1>1 DEF ReadLock, ReadLockFails, List, Inspect, InspectFails, Inspected, Listed
    <3> QED
      BY <2>1, <2>2, <2>3, <3>1, <3>2, <3>3, <3>4, <3>5, <3>6 DEF Step, Look
  <2> QED
    BY <1>1, <2>4, <2>5 DEF Take, Goto, Inv, TypeOK
<1>2. Inv /\ [Next]_vars =>
        [\A p \in Procs : /\ pc[p] = "judge" /\ cmd[p] = "rollback" /\ pc'[p] # "judge"
                          /\ crashes' = crashes
                          => pc'[p] = "open" /\ id'[p] = id[p]]_vars
  BY <1>1, SMTT(30)
<1> QED
  BY <1>2, Invariance, PTL DEF Spec, OwnRollback

--------------------------------------------------------------------------------
(* Whatever races and fails: no discipline, any crashes and failing calls.      *)

\* A run whose transaction has no TX_BEGIN yet.
Running(p) == pc[p] # "idle" /\ cmd[p] = "run"
Early      == Admitting \cup {"create lock", "write lock", "make dir", "write meta",
                              "create journal"}
Fresh(p)   == Running(p) /\ pc[p] \in Early \cup {"log begin"}

\* Behind Open, or behind TX_BEGIN.
Later == Writing \cup Finishing

\* A number names one run, and nothing has a number that was not given away.
NumberInv ==
  /\ \A i \in Ids : i > runs => meta[i] = "none" /\ log[i] = "none"
  /\ lock \in Ids => lock <= runs
  /\ \A p \in Procs : /\ id[p] <= runs /\ seen[p] <= runs
                      /\ \A i \in names[p] \cup found[p] : i <= runs
  /\ \A p, q \in Procs : Running(p) /\ Running(q) /\ id[p] = id[q] => p = q

\* Until TX_BEGIN is written nobody gets past Open with the transaction.
UnbegunInv ==
  /\ \A p \in Procs : Running(p) /\ pc[p] \in Early => log[id[p]] = "none"
  /\ \A p \in Procs : pc[p] = "log begin" => log[id[p]] = "empty"
  /\ \A p, q \in Procs : Fresh(p) /\ pc[q] \in Later => id[q] # id[p]

RaceInv == TypeOK /\ PlaceInv /\ NumberInv /\ UnbegunInv

\* Where the numbers in the memory of a process come from.
LEMMA MemoryMoves ==
  ASSUME NEW p \in Procs, TypeOK, PlaceOf(p), MindOf(p), Start(p) \/ Step(p) \/ Crash(p)
  PROVE  /\ runs' \in {runs, runs + 1}
         /\ id'[p] \in {id[p], None, seen[p], runs'} \cup found[p]
         /\ seen'[p] \in {seen[p], None} \/ (seen'[p] = lock /\ lock # Blank)
         /\ \A i \in names'[p] \cup found'[p] :
               i \in Ids /\ (i \in names[p] \cup found[p] \/ meta[i] # "none")
         /\ Running(p)' => \/ Running(p) /\ id'[p] = id[p]
                           \/ id'[p] = runs + 1 /\ runs' = runs + 1
<1> USE DEF TypeOK, PlaceOf, Running, Pending, disk, memory, reads, counts
<1>1. CASE StartRun(p)
  BY <1>1 DEF StartRun, Goto
<1>2. CASE StartRecover(p)
  BY <1>2 DEF StartRecover, Goto
<1>3. CASE StartHistory(p)
  BY <1>3 DEF StartHistory, Goto
<1>4. CASE ReadLock(p)
  BY <1>4 DEF ReadLock, Goto
<1>5. CASE ReadLockFails(p)
  BY <1>5 DEF ReadLockFails, Goto, Stop, End, Forget
<1>6. CASE List(p)
  BY <1>6 DEF List, Goto
<1>7. CASE Inspect(p)
  BY <1>7 DEF Inspect
<1>8. CASE InspectFails(p)
  BY <1>8 DEF InspectFails, Goto, Stop, End, Forget
<1>9. CASE Inspected(p)
  BY <1>9 DEF Inspected, Goto
<1>10. CASE Listed(p)
  BY <1>10 DEF Listed, Goto, Stop, End, Forget
<1>11. CASE JudgeFails(p)
  BY <1>11 DEF JudgeFails, Goto, Stop, End, Forget
<1>12. CASE Admit(p)
  BY <1>12 DEF Admit, Goto
<1>13. CASE Block(p)
  BY <1>13 DEF Block, Goto, Stop, End, Forget
<1>14. CASE NothingPending(p)
  BY <1>14 DEF NothingPending, Goto, Stop, End, Forget
<1>15. CASE Take(p)
  BY <1>15 DEF Take, Goto
<1>16. CASE CreateLock(p)
  BY <1>16 DEF CreateLock, Goto
<1>17. CASE LockTaken(p)
  BY <1>17 DEF LockTaken, Goto, Stop, End, Forget
<1>18. CASE CreateLockFails(p)
  BY <1>18 DEF CreateLockFails, Goto, Stop, End, Forget
<1>19. CASE WriteLock(p)
  BY <1>19 DEF WriteLock, Goto
<1>20. CASE WriteLockFails(p)
  BY <1>20 DEF WriteLockFails, Goto
<1>21. CASE MakeDir(p)
  BY <1>21 DEF MakeDir, Goto
<1>22. CASE MakeDirFails(p)
  BY <1>22 DEF MakeDirFails, Goto
<1>23. CASE WriteMeta(p)
  BY <1>23 DEF WriteMeta, Goto
<1>24. CASE WriteMetaFails(p)
  BY <1>24 DEF WriteMetaFails, Goto
<1>25. CASE CreateJournal(p)
  BY <1>25 DEF CreateJournal, Goto
<1>26. CASE LogBegin(p)
  BY <1>26 DEF LogBegin, Goto
<1>27. CASE JournalFails(p)
  BY <1>27 DEF JournalFails, Goto
<1>28. CASE DropPart(p)
  BY <1>28 DEF DropPart
<1>29. CASE DropDir(p)
  BY <1>29 DEF DropDir, Goto
<1>30. CASE DropLock(p)
  BY <1>30 DEF DropLock, Goto, Stop, End, Forget
<1>31. CASE DropDirFails(p)
  BY <1>31 DEF DropDirFails, Goto
<1>32. CASE DropLockFails(p)
  BY <1>32 DEF DropLockFails, Goto, Stop, End, Forget
<1>33. CASE Work(p)
  BY <1>33 DEF Work
<1>34. CASE WorkDone(p)
  BY <1>34 DEF WorkDone, Goto
<1>35. CASE WorkFails(p)
  BY <1>35 DEF WorkFails, Goto
<1>36. CASE Open(p)
  BY <1>36 DEF Open, Goto
<1>37. CASE OpenRefused(p)
  BY <1>37 DEF OpenRefused, Goto, Stop, End, Forget
<1>38. CASE OpenFails(p)
  BY <1>38 DEF OpenFails, Goto, Stop, End, Forget
<1>39. CASE Enter(p)
  BY <1>39 DEF Enter, Goto
<1>40. CASE EnterFails(p)
  BY <1>40 DEF EnterFails, Goto, Stop, Forget
<1>41. CASE Undo(p)
  BY <1>41 DEF Undo
<1>42. CASE UndoDone(p)
  BY <1>42 DEF UndoDone, Goto
<1>43. CASE UndoRefused(p)
  BY <1>43 DEF UndoRefused, Goto
<1>44. CASE UndoFails(p)
  BY <1>44 DEF UndoFails, Goto
<1>45. CASE AppendFails(p)
  BY <1>45 DEF AppendFails, Goto, Stop, Forget
<1>46. CASE Mark(p)
  BY <1>46 DEF Mark, Goto
<1>47. CASE Close(p)
  BY <1>47 DEF Close, Goto
<1>48. CASE Settle(p)
  BY <1>48 DEF Settle, Goto
<1>49. CASE SettleFails(p)
  BY <1>49 DEF SettleFails, Goto, Stop, End, Forget, Ends
<1>50. CASE Clean(p)
  BY <1>50 DEF Clean, Goto
<1>51. CASE CleanFails(p)
  BY <1>51 DEF CleanFails, Goto, Stop, End, Forget, Ends
<1>52. CASE ReadOwner(p)
  BY <1>52 DEF ReadOwner, Goto
<1>53. CASE NotOwner(p)
  BY <1>53 DEF NotOwner, Goto, Stop, End, Forget, Ends
<1>54. CASE Unlink(p)
  BY <1>54 DEF Unlink, Goto
<1>55. CASE UnlinkGone(p)
  BY <1>55 DEF UnlinkGone, Goto, Stop, End, Forget, Ends
<1>56. CASE Sync(p)
  BY <1>56 DEF Sync, Goto, Stop, End, Forget
<1>57. CASE ReleaseFails(p)
  BY <1>57 DEF ReleaseFails, Goto, Stop, End, Forget, Ends
<1>58. CASE FailLog(p)
  BY <1>58 DEF FailLog, Goto
<1>59. CASE SpoilLog(p)
  BY <1>59 DEF SpoilLog, Goto
<1>60. CASE FailMeta(p)
  BY <1>60 DEF FailMeta, Goto, Stop, End, Forget
<1>61. CASE FailFails(p)
  BY <1>61 DEF FailFails, Goto, Stop, Forget
<1>62. CASE Crash(p)
  BY <1>62, ZenonT(60) DEF Crash, Goto, Forget
<1> QED
  BY <1>1, <1>2, <1>3, <1>4, <1>5, <1>6, <1>7, <1>8, <1>9, <1>10, <1>11, <1>12, <1>13,
      <1>14, <1>15, <1>16, <1>17, <1>18, <1>19, <1>20, <1>21, <1>22, <1>23, <1>24, <1>25,
      <1>26, <1>27, <1>28, <1>29, <1>30, <1>31, <1>32, <1>33, <1>34, <1>35, <1>36, <1>37,
      <1>38, <1>39, <1>40, <1>41, <1>42, <1>43, <1>44, <1>45, <1>46, <1>47, <1>48, <1>49,
      <1>50, <1>51, <1>52, <1>53, <1>54, <1>55, <1>56, <1>57, <1>58, <1>59, <1>60, <1>61,
      <1>62 DEF Start, Step, Look, Begin, Execute, Release, Fail

\* How a process gets to where nobody else may be, and behind that.
LEMMA PlaceMoves ==
  ASSUME NEW p \in Procs, TypeOK, PlaceOf(p), MindOf(p), Start(p) \/ Step(p) \/ Crash(p)
  PROVE  /\ Running(p)' /\ pc'[p] \in Early =>
               \/ id'[p] = runs + 1 /\ runs' = runs + 1
               \/ /\ Running(p) /\ pc[p] \in Early
                  /\ id'[p] = id[p] /\ log' = log
         /\ pc'[p] = "log begin" => pc[p] = "create journal" /\ id'[p] = id[p]
                                    /\ log'[id[p]] = "empty"
         /\ pc'[p] \in Later =>
               /\ id'[p] = id[p]
               /\ \/ pc[p] \in Later \cup {"log begin"}
                  \/ pc[p] = "open" /\ log[id[p]] \in {"open", "decided"}
<1> USE DEF TypeOK, PlaceOf, MindOf, Inside, Running, Early, Later, Writing, Failing, Admitting,
    Beginning, Finishing, disk, memory, reads, counts
<1>1. CASE StartRun(p)
  BY <1>1 DEF StartRun, Goto
<1>2. CASE StartRecover(p)
  BY <1>2 DEF StartRecover, Goto
<1>3. CASE StartHistory(p)
  BY <1>3 DEF StartHistory, Goto
<1>4. CASE ReadLock(p)
  BY <1>4 DEF ReadLock, Goto
<1>5. CASE ReadLockFails(p)
  BY <1>5 DEF ReadLockFails, Goto, Stop, End, Forget
<1>6. CASE List(p)
  BY <1>6 DEF List, Goto
<1>7. CASE Inspect(p)
  BY <1>7 DEF Inspect
<1>8. CASE InspectFails(p)
  BY <1>8 DEF InspectFails, Goto, Stop, End, Forget
<1>9. CASE Inspected(p)
  BY <1>9 DEF Inspected, Goto
<1>10. CASE Listed(p)
  BY <1>10 DEF Listed, Goto, Stop, End, Forget
<1>11. CASE JudgeFails(p)
  BY <1>11 DEF JudgeFails, Goto, Stop, End, Forget
<1>12. CASE Admit(p)
  BY <1>12 DEF Admit, Goto
<1>13. CASE Block(p)
  BY <1>13 DEF Block, Goto, Stop, End, Forget
<1>14. CASE NothingPending(p)
  BY <1>14 DEF NothingPending, Goto, Stop, End, Forget
<1>15. CASE Take(p)
  BY <1>15 DEF Take, Goto
<1>16. CASE CreateLock(p)
  BY <1>16 DEF CreateLock, Goto
<1>17. CASE LockTaken(p)
  BY <1>17 DEF LockTaken, Goto, Stop, End, Forget
<1>18. CASE CreateLockFails(p)
  BY <1>18 DEF CreateLockFails, Goto, Stop, End, Forget
<1>19. CASE WriteLock(p)
  BY <1>19 DEF WriteLock, Goto
<1>20. CASE WriteLockFails(p)
  BY <1>20 DEF WriteLockFails, Goto
<1>21. CASE MakeDir(p)
  BY <1>21 DEF MakeDir, Goto
<1>22. CASE MakeDirFails(p)
  BY <1>22 DEF MakeDirFails, Goto
<1>23. CASE WriteMeta(p)
  BY <1>23 DEF WriteMeta, Goto
<1>24. CASE WriteMetaFails(p)
  BY <1>24 DEF WriteMetaFails, Goto
<1>25. CASE CreateJournal(p)
  BY <1>25 DEF CreateJournal, Goto, SetLog
<1>26. CASE LogBegin(p)
  BY <1>26 DEF LogBegin, Goto
<1>27. CASE JournalFails(p)
  BY <1>27 DEF JournalFails, Goto, SetLog
<1>28. CASE DropPart(p)
  BY <1>28 DEF DropPart, SetLog
<1>29. CASE DropDir(p)
  BY <1>29 DEF DropDir, Goto
<1>30. CASE DropLock(p)
  BY <1>30 DEF DropLock, Goto, Stop, End, Forget
<1>31. CASE DropDirFails(p)
  BY <1>31 DEF DropDirFails, Goto
<1>32. CASE DropLockFails(p)
  BY <1>32 DEF DropLockFails, Goto, Stop, End, Forget
<1>33. CASE Work(p)
  BY <1>33 DEF Work
<1>34. CASE WorkDone(p)
  BY <1>34 DEF WorkDone, Goto
<1>35. CASE WorkFails(p)
  BY <1>35 DEF WorkFails, Goto
<1>36. CASE Open(p)
  BY <1>36 DEF Open, Goto, Readable
<1>37. CASE OpenRefused(p)
  BY <1>37 DEF OpenRefused, Goto, Stop, End, Forget, Readable
<1>38. CASE OpenFails(p)
  BY <1>38 DEF OpenFails, Goto, Stop, End, Forget
<1>39. CASE Enter(p)
  BY <1>39 DEF Enter, Goto
<1>40. CASE EnterFails(p)
  BY <1>40, ZenonT(60) DEF EnterFails, Goto, Stop, Forget
<1>41. CASE Undo(p)
  BY <1>41 DEF Undo
<1>42. CASE UndoDone(p)
  BY <1>42 DEF UndoDone, Goto
<1>43. CASE UndoRefused(p)
  BY <1>43 DEF UndoRefused, Goto
<1>44. CASE UndoFails(p)
  BY <1>44 DEF UndoFails, Goto
<1>45. CASE AppendFails(p)
  BY <1>45, ZenonT(60) DEF AppendFails, Goto, Stop, Forget
<1>46. CASE Mark(p)
  BY <1>46 DEF Mark, Goto
<1>47. CASE Close(p)
  BY <1>47 DEF Close, Goto
<1>48. CASE Settle(p)
  BY <1>48 DEF Settle, Goto
<1>49. CASE SettleFails(p)
  BY <1>49, ZenonT(60) DEF SettleFails, Goto, Stop, End, Forget, Ends
<1>50. CASE Clean(p)
  BY <1>50 DEF Clean, Goto
<1>51. CASE CleanFails(p)
  BY <1>51 DEF CleanFails, Goto, Stop, End, Forget, Ends
<1>52. CASE ReadOwner(p)
  BY <1>52 DEF ReadOwner, Goto
<1>53. CASE NotOwner(p)
  BY <1>53, ZenonT(60) DEF NotOwner, Goto, Stop, End, Forget, Ends
<1>54. CASE Unlink(p)
  BY <1>54 DEF Unlink, Goto
<1>55. CASE UnlinkGone(p)
  BY <1>55 DEF UnlinkGone, Goto, Stop, End, Forget, Ends
<1>56. CASE Sync(p)
  BY <1>56 DEF Sync, Goto, Stop, End, Forget
<1>57. CASE ReleaseFails(p)
  BY <1>57 DEF ReleaseFails, Goto, Stop, End, Forget, Ends
<1>58. CASE FailLog(p)
  BY <1>58 DEF FailLog, Goto
<1>59. CASE SpoilLog(p)
  BY <1>59 DEF SpoilLog, Goto
<1>60. CASE FailMeta(p)
  BY <1>60 DEF FailMeta, Goto, Stop, End, Forget
<1>61. CASE FailFails(p)
  BY <1>61 DEF FailFails, Goto, Stop, Forget
<1>62. CASE Crash(p)
  BY <1>62 DEF Crash, Goto, Forget
<1> QED
  BY <1>1, <1>2, <1>3, <1>4, <1>5, <1>6, <1>7, <1>8, <1>9, <1>10, <1>11, <1>12, <1>13,
      <1>14, <1>15, <1>16, <1>17, <1>18, <1>19, <1>20, <1>21, <1>22, <1>23, <1>24, <1>25,
      <1>26, <1>27, <1>28, <1>29, <1>30, <1>31, <1>32, <1>33, <1>34, <1>35, <1>36, <1>37,
      <1>38, <1>39, <1>40, <1>41, <1>42, <1>43, <1>44, <1>45, <1>46, <1>47, <1>48, <1>49,
      <1>50, <1>51, <1>52, <1>53, <1>54, <1>55, <1>56, <1>57, <1>58, <1>59, <1>60, <1>61,
      <1>62 DEF Start, Step, Look, Begin, Execute, Release, Fail

\* Numbers stay unique.
LEMMA NumberStep ==
  ASSUME NEW p \in Procs, RaceInv, TypeOK', Start(p) \/ Step(p) \/ Crash(p)
  PROVE  NumberInv'
<1>1. TypeOK /\ PlaceOf(p) /\ MindOf(p) /\ NumberInv
  BY DEF RaceInv, PlaceInv
<1>2. /\ \A i \in Ids : log'[i] = log[i] \/ i = id[p]
      /\ \A i \in Ids : meta'[i] = meta[i] \/ i = id[p]
      /\ lock' \in {lock, None, Blank, id[p]}
  BY <1>1, DiskMoves DEF LockBecomes
<1>3. /\ runs' \in {runs, runs + 1} /\ runs \in Nat /\ runs' \in Nat
      /\ id'[p] \in {id[p], None, seen[p], runs'} \cup found[p]
      /\ seen'[p] \in {seen[p], None} \/ (seen'[p] = lock /\ lock # Blank)
      /\ \A i \in names'[p] \cup found'[p] :
            i \in Ids /\ (i \in names[p] \cup found[p] \/ meta[i] # "none")
      /\ Running(p)' => \/ Running(p) /\ id'[p] = id[p]
                        \/ id'[p] = runs + 1 /\ runs' = runs + 1
  BY <1>1, MemoryMoves DEF TypeOK
<1>4. \A q \in Procs : q # p =>
        /\ pc'[q] = pc[q] /\ cmd'[q] = cmd[q] /\ id'[q] = id[q]
        /\ seen'[q] = seen[q] /\ names'[q] = names[q] /\ found'[q] = found[q]
  BY <1>1, OthersStay
<1>5. (\A i \in Ids : i \in Nat) /\ None = 0 /\ Blank \notin Ids /\ None \notin Ids
  BY LockValues DEF Ids, None
<1>6. ASSUME NEW q \in Procs
      PROVE  id[q] \in Nat /\ seen[q] \in Nat /\ names[q] \subseteq Ids /\ found[q] \subseteq Ids
  <2>1. id[q] \in Ids \cup {None} /\ seen[q] \in Ids \cup {None}
        /\ names[q] \in SUBSET Ids /\ found[q] \in SUBSET Ids
    BY <1>1 DEF TypeOK
  <2> QED
    BY <1>5, <2>1
<1>7. /\ lock \in Ids => lock <= runs'
      /\ \A q \in Procs : id[q] <= runs' /\ seen[q] <= runs'
      /\ \A q \in Procs : \A i \in names[q] \cup found[q] : i <= runs'
      /\ \A i \in Ids : meta[i] # "none" => i <= runs'
      /\ None <= runs' /\ lock \in Ids \cup {None, Blank}
  <2>1. \A n \in Nat : n <= runs => n <= runs'
    BY <1>3
  <2>2. \A q \in Procs : \A i \in names[q] \cup found[q] : i \in Nat /\ i <= runs
    BY <1>1, <1>5, <1>6 DEF NumberInv
  <2>3. \A q \in Procs : id[q] <= runs /\ seen[q] <= runs
    BY <1>1 DEF NumberInv
  <2>4. \A i \in Ids : meta[i] # "none" => i <= runs
    BY <1>1, <1>3, <1>5 DEF NumberInv
  <2> QED
    BY <1>1, <1>3, <1>5, <1>6, <2>1, <2>2, <2>3, <2>4 DEF NumberInv, TypeOK
<1>8. \A i \in Ids : i > runs' => meta'[i] = "none" /\ log'[i] = "none"
  BY <1>1, <1>2, <1>3, <1>5, <1>6 DEF NumberInv
<1>9. lock' \in Ids => lock' <= runs'
  BY <1>2, <1>5, <1>7
<1>10. ASSUME NEW q \in Procs
       PROVE  /\ id'[q] <= runs' /\ seen'[q] <= runs'
              /\ \A i \in names'[q] \cup found'[q] : i <= runs'
  <2>1. CASE q # p
    <3>1. id'[q] = id[q] /\ seen'[q] = seen[q] /\ names'[q] = names[q] /\ found'[q] = found[q]
      BY <1>4, <2>1
    <3> QED
      BY <1>7, <3>1
  <2>2. CASE q = p
    <3>1. id'[p] <= runs'
      BY <1>3, <1>7
    <3>2. seen'[p] <= runs'
      BY <1>3, <1>7
    <3>3. \A i \in names'[p] \cup found'[p] : i <= runs'
      BY <1>3, <1>7
    <3> QED
      BY <2>2, <3>1, <3>2, <3>3
  <2> QED
    BY <2>1, <2>2
<1>11. ASSUME NEW q \in Procs, NEW r \in Procs, Running(q)', Running(r)', id'[q] = id'[r]
       PROVE  q = r
  <2>1. \A o \in Procs : o # p => Running(o)' = Running(o) /\ id[o] # runs + 1
    BY <1>1, <1>3, <1>4, <1>6 DEF Running, NumberInv
  <2> QED
    BY <1>1, <1>3, <1>4, <1>11, <2>1 DEF NumberInv
<1> QED
  BY <1>8, <1>9, <1>10, <1>11 DEF NumberInv

\* Nobody gets hold of a journal before TX_BEGIN is in it.
LEMMA UnbegunStep ==
  ASSUME NEW p \in Procs, RaceInv, TypeOK', PlaceInv', NumberInv', Start(p) \/ Step(p) \/ Crash(p)
  PROVE  UnbegunInv'
<1>1. TypeOK /\ PlaceInv /\ PlaceOf(p) /\ MindOf(p) /\ NumberInv /\ UnbegunInv
  BY DEF RaceInv, PlaceInv
<1>2. /\ \A i \in Ids : log'[i] = log[i] \/ (i = id[p] /\ LogBecomes(p, log'[i]))
  BY <1>1, DiskMoves
<1>3. /\ Running(p)' /\ pc'[p] \in Early =>
           \/ id'[p] = runs + 1 /\ runs' = runs + 1
           \/ Running(p) /\ pc[p] \in Early /\ id'[p] = id[p] /\ log' = log
      /\ pc'[p] = "log begin" => pc[p] = "create journal" /\ id'[p] = id[p]
                                 /\ log'[id[p]] = "empty"
      /\ pc'[p] \in Later =>
            /\ id'[p] = id[p]
            /\ \/ pc[p] \in Later \cup {"log begin"}
               \/ pc[p] = "open" /\ log[id[p]] \in {"open", "decided"}
  BY <1>1, PlaceMoves
<1>4. \A q \in Procs : q # p => pc'[q] = pc[q] /\ cmd'[q] = cmd[q] /\ id'[q] = id[q]
  BY <1>1, OthersStay
<1>5. \A q \in Procs : pc[q] \in Beginning \cup {"create lock", "work"} =>
        Running(q) /\ id[q] \in Ids
  BY <1>1 DEF PlaceInv, PlaceOf, Running, Beginning
<1>6. \A q \in Procs : Running(q) => id[q] \in Ids
  BY <1>1 DEF PlaceInv, PlaceOf, Running
<1>7. \A q \in Procs : Running(q)' => id'[q] \in Ids
  BY DEF PlaceInv, PlaceOf, Running
<1>8. \A q \in Procs : id[q] # runs + 1
  BY <1>1 DEF NumberInv, TypeOK, Ids, None
\* Others leave it alone.
<1>9. ASSUME NEW q \in Procs, q # p, Fresh(q)
      PROVE  log'[id[q]] = log[id[q]] 
  <2>1. id[p] = id[q] => ~Running(p) /\ pc[p] \notin Later
    BY <1>1, <1>9 DEF Fresh, NumberInv, UnbegunInv
  <2>2. id[p] = id[q] => pc[p] \notin Beginning
    BY <1>5, <2>1
  <2> QED
    BY <1>2, <1>6, <1>9, <2>1, <2>2
    DEF LogBecomes, Later, Writing, Failing, Appending, Fresh, Beginning
<1>10. ASSUME NEW q \in Procs, Running(q)', pc'[q] \in Early
       PROVE  log'[id'[q]] = "none"
  <2>1. CASE q # p
    BY <1>1, <1>4, <1>9, <1>10, <2>1 DEF Running, Fresh, UnbegunInv
  <2>2. CASE q = p /\ id'[p] = runs + 1 /\ runs' = runs + 1
    <3>1. runs + 1 \in Ids /\ runs + 1 > runs /\ id[p] # runs + 1
      BY <1>1, <1>7, <1>8, <1>10, <2>2 DEF TypeOK
    <3> QED
      BY <1>1, <1>2, <2>2, <3>1 DEF NumberInv
  <2>3. CASE q = p /\ Running(p) /\ pc[p] \in Early /\ id'[p] = id[p] /\ log' = log
    BY <1>1, <2>3 DEF UnbegunInv
  <2> QED
    BY <1>3, <1>10, <2>1, <2>2, <2>3
<1>11. ASSUME NEW q \in Procs, pc'[q] = "log begin"
       PROVE  log'[id'[q]] = "empty"
  <2>1. CASE q # p
    <3>1. Fresh(q)
      BY <1>4, <1>5, <1>11, <2>1 DEF Fresh, Beginning
    <3> QED
      BY <1>1, <1>4, <1>9, <1>11, <2>1, <3>1 DEF UnbegunInv
  <2> QED
    BY <1>3, <1>11, <2>1
<1>12. ASSUME NEW q \in Procs, NEW r \in Procs, Fresh(q)', pc'[r] \in Later
       PROVE  id'[r] # id'[q]
  <2>1. q # r
    BY <1>12 DEF Fresh, Early, Later, Writing, Failing, Finishing, Admitting
  <2>2. CASE q # p /\ r # p
    <3>1. Fresh(q) /\ pc[r] \in Later /\ id'[q] = id[q] /\ id'[r] = id[r]
      BY <1>4, <1>12, <2>2 DEF Fresh, Running
    <3> QED
      BY <1>1, <3>1 DEF UnbegunInv
  <2>3. CASE q = p /\ r # p
    <3>1. \/ id'[p] = runs + 1
          \/ Fresh(p) /\ id'[p] = id[p]
      BY <1>3, <1>5, <1>12, <2>3 DEF Fresh, Early, Beginning
    <3>2. pc[r] \in Later /\ id'[r] = id[r]
      BY <1>4, <1>12, <2>3
    <3> QED
      BY <1>1, <1>8, <2>3, <3>1, <3>2 DEF UnbegunInv
  <2>4. CASE r = p /\ q # p
    <3>1. Fresh(q) /\ id'[q] = id[q] /\ id'[p] = id[p]
      BY <1>3, <1>4, <1>12, <2>4 DEF Fresh, Running
    <3>2. log[id[q]] \in {"none", "empty"}
      BY <1>1, <3>1 DEF Fresh, UnbegunInv
    <3>3. pc[p] = "log begin" => id[p] # id[q]
      BY <1>1, <1>5, <2>4, <3>1 DEF Beginning, Fresh, NumberInv
    <3> QED
      BY <1>1, <1>3, <1>12, <2>4, <3>1, <3>2, <3>3 DEF UnbegunInv
  <2> QED
    BY <2>1, <2>2, <2>3, <2>4
<1> QED
  BY <1>10, <1>11, <1>12 DEF UnbegunInv

LEMMA RaceInit == Init => RaceInv
BY RunsAssumption
DEF Init, RaceInv, TypeOK, PlaceInv, PlaceOf, MindOf, NumberInv, UnbegunInv, Inside, Running, Fresh,
    Later, Writing, Failing, Locations, Admitting, Beginning, Finishing, Early, Looking, Commands,
    Metas, Logs, Answers, Refusals, None, Ids

LEMMA RaceStep == RaceInv /\ [Next]_vars => RaceInv'
<1> SUFFICES ASSUME RaceInv, [Next]_vars PROVE RaceInv'
  OBVIOUS
<1>1. CASE UNCHANGED vars
  <2>1. /\ lock' = lock /\ meta' = meta /\ log' = log /\ torn' = torn /\ pc' = pc
        /\ cmd' = cmd /\ id' = id /\ mem' = mem /\ undoing' = undoing /\ behind' = behind
        /\ answer' = answer /\ seen' = seen /\ names' = names /\ found' = found
        /\ runs' = runs /\ crashes' = crashes /\ faults' = faults
    BY <1>1 DEF vars, disk, memory, reads, counts
  <2>2. TypeOK' /\ PlaceInv'
    BY <2>1 DEF RaceInv, TypeOK, PlaceInv, PlaceOf, MindOf
  <2>3. NumberInv' /\ UnbegunInv'
    BY <2>1 DEF RaceInv, NumberInv, UnbegunInv, Running, Fresh
  <2> QED
    BY <2>2, <2>3 DEF RaceInv
<1>2. ASSUME NEW p \in Procs, Start(p) \/ Step(p) \/ Crash(p)
      PROVE  RaceInv'
  <2>1. TypeOK /\ PlaceInv /\ PlaceOf(p) /\ MindOf(p)
    BY DEF RaceInv, PlaceInv
  <2>2. TypeOK'
    <3>1. runs' \in Nat /\ crashes' \in Nat /\ faults' \in Nat
      BY <1>2, <2>1, Counts DEF TypeOK
    <3> QED
      BY <1>2, <2>1, <3>1, Types
  <2>3. PlaceInv'
    <3>1. PlaceOf(p)' /\ MindOf(p)'
      BY <1>2, <2>1, PlaceStep
    <3>2. ASSUME NEW q \in Procs, q # p
          PROVE  PlaceOf(q)' /\ MindOf(q)'
      <4>1. /\ pc'[q] = pc[q] /\ cmd'[q] = cmd[q] /\ id'[q] = id[q] /\ mem'[q] = mem[q]
            /\ undoing'[q] = undoing[q]
            /\ seen'[q] = seen[q] /\ names'[q] = names[q] /\ found'[q] = found[q]
        BY <1>2, <2>1, <3>2, OthersStay
      <4>2. PlaceOf(q) /\ MindOf(q)
        BY <2>1 DEF PlaceInv
      <4>3. PlaceOf(q)'
        BY <4>1, <4>2 DEF PlaceOf
      <4>4. MindOf(q)'
        BY <4>1, <4>2 DEF MindOf
      <4> QED
        BY <4>3, <4>4
    <3> QED
      BY <3>1, <3>2 DEF PlaceInv
  <2>4. NumberInv'
    BY <1>2, <2>2, NumberStep
  <2>5. UnbegunInv'
    BY <1>2, <2>2, <2>3, <2>4, UnbegunStep
  <2> QED
    BY <2>2, <2>3, <2>4, <2>5 DEF RaceInv
<1> QED
  BY <1>1, <1>2 DEF Next

\* The invariant that any race, crash and failing call leaves.
THEOREM RaceInvariance == Spec => []RaceInv
BY RaceInit, RaceStep, PTL DEF Spec

\* The state keeps its types.
THEOREM TypeCorrect == Spec => []TypeOK
<1>1. RaceInv => TypeOK
  BY DEF RaceInv
<1> QED
  BY <1>1, RaceInvariance, PTL

\* However commands race, whatever is killed and fails: nobody else is inside a
\* transaction that has no TX_BEGIN yet.
THEOREM AloneCorrect == Spec => []BeginIsAlone
<1>1. RaceInv => BeginIsAlone
  <2>1. SUFFICES ASSUME RaceInv, NEW p \in Procs, NEW q \in Procs, p # q,
                        pc[p] \in Unbegun, id[q] = id[p]
                 PROVE  pc[q] \notin Writing \cup Finishing
    BY DEF BeginIsAlone
  <2>2. Fresh(p)
    BY <2>1 DEF RaceInv, PlaceInv, PlaceOf, Fresh, Running, Unbegun, Beginning, Early
  <2> QED
    BY <2>1, <2>2 DEF RaceInv, UnbegunInv, Later
<1> QED
  BY <1>1, RaceInvariance, PTL

--------------------------------------------------------------------------------
(* What recover accepts.                                                        *)

\* Begin is not killed before its end, its cleanup does not fail, and no append of a
\* recovery behind its first one does.
Tidy == /\ Disciplined
        /\ "drop lock" \notin FaultAt /\ CrashAt \cap Beginning = {}
        /\ UndoFaultAt \cap {"undo", "mark", "close"} = {}

\* Who looks for what is left finds an empty lock, a directory without metadata or a
\* journal without TX_BEGIN only beside the Begin that has yet to go on.
LeftInv ==
  /\ lock = Blank => \E p \in Procs : pc[p] \in {"write lock", "drop lock"}
  /\ lock \in Ids => \/ \E p \in Procs : pc[p] \in Beginning
                     \/ meta[lock] \notin {"none", "bare"} /\ log[lock] \in {"open", "decided"}

\* fail finds the journal as the recovery has read it.
MildOf(p) ==
  /\ pc[p] # "spoil log"
  /\ pc[p] \in {"enter", "undo", "fail log"} => log[id[p]] = "open"

ListedInv == \A p \in Procs : cmd[p] = "recover" /\ pc[p] = "inspect" =>
               \A i \in names[p] : meta[i] \notin {"none", "bare"}

AnswerInv == \A p \in Procs : cmd[p] = "recover" => answer[p] \notin Refusals

AcceptInv == /\ Inv /\ RaceInv /\ LeftInv /\ ListedInv /\ AnswerInv
             /\ \A p \in Procs : MildOf(p)

\* How the lock changes, and how Begin ends.
LEMMA LockMoves ==
  ASSUME NEW p \in Procs, Tidy, TypeOK, PlaceOf(p), MindOf(p), RecordOf(p), LockOf(p), UnbegunInv,
         Start(p) \/ Step(p) \/ Crash(p)
  PROVE  /\ lock' # lock => \/ lock' = None
                            \/ lock' = Blank /\ pc'[p] = "write lock"
                            \/ lock' = id[p] /\ pc'[p] \in Beginning
         /\ pc[p] \in {"write lock", "drop lock"} /\ lock' = Blank => pc'[p] = "drop lock"
         /\ pc[p] \in Beginning => \/ pc'[p] \in Beginning
                                   \/ lock' = None
                                   \/ /\ lock' = id[p] /\ meta'[id[p]] = "open"
                                      /\ log'[id[p]] = "open"
<1> USE LockValues DEF Tidy, Disciplined, TypeOK, PlaceOf, MindOf, RecordOf, LockOf, Owner, Inside,
    disk, memory, reads, counts, Beginning, Finishing, Writing, Failing
<1>1. CASE StartRun(p)
  BY <1>1 DEF StartRun, Goto
<1>2. CASE StartRecover(p)
  BY <1>2 DEF StartRecover, Goto
<1>3. CASE StartHistory(p)
  BY <1>3 DEF StartHistory, Goto
<1>4. CASE ReadLock(p)
  BY <1>4 DEF ReadLock, Goto
<1>5. CASE ReadLockFails(p)
  BY <1>5 DEF ReadLockFails, Goto, Stop, End, Forget
<1>6. CASE List(p)
  BY <1>6 DEF List, Goto
<1>7. CASE Inspect(p)
  BY <1>7 DEF Inspect
<1>8. CASE InspectFails(p)
  BY <1>8 DEF InspectFails, Goto, Stop, End, Forget
<1>9. CASE Inspected(p)
  BY <1>9 DEF Inspected, Goto
<1>10. CASE Listed(p)
  BY <1>10 DEF Listed, Goto, Stop, End, Forget
<1>11. CASE JudgeFails(p)
  BY <1>11 DEF JudgeFails, Goto, Stop, End, Forget
<1>12. CASE Admit(p)
  BY <1>12 DEF Admit, Goto
<1>13. CASE Block(p)
  BY <1>13 DEF Block, Goto, Stop, End, Forget
<1>14. CASE NothingPending(p)
  BY <1>14 DEF NothingPending, Goto, Stop, End, Forget
<1>15. CASE Take(p)
  BY <1>15 DEF Take, Goto
<1>16. CASE CreateLock(p)
  BY <1>16 DEF CreateLock, Goto, SetLock
<1>17. CASE LockTaken(p)
  BY <1>17 DEF LockTaken, Goto, Stop, End, Forget
<1>18. CASE CreateLockFails(p)
  BY <1>18 DEF CreateLockFails, Goto, Stop, End, Forget, Fault
<1>19. CASE WriteLock(p)
  BY <1>19 DEF WriteLock, Goto, SetLock
<1>20. CASE WriteLockFails(p)
  BY <1>20 DEF WriteLockFails, Goto, SetLock, Fault
<1>21. CASE MakeDir(p)
  BY <1>21 DEF MakeDir, Goto
<1>22. CASE MakeDirFails(p)
  BY <1>22 DEF MakeDirFails, Goto, Fault
<1>23. CASE WriteMeta(p)
  BY <1>23 DEF WriteMeta, Goto
<1>24. CASE WriteMetaFails(p)
  BY <1>24 DEF WriteMetaFails, Goto, Fault
<1>25. CASE CreateJournal(p)
  BY <1>25 DEF CreateJournal, Goto
<1>26. CASE LogBegin(p)
  <2>1. /\ id[p] \in Ids /\ ~behind[p] /\ log[id[p]] = "empty" /\ meta[id[p]] = "open"
        /\ lock = id[p] /\ lock' = lock /\ meta' = meta /\ pc[p] = "log begin"
    BY <1>26 DEF LogBegin, UnbegunInv
  <2>2. Append(p, "open") /\ "open" \in Logs
    BY <1>26 DEF LogBegin, Logs
  <2>3. log'[id[p]] = "open"
    BY <2>1, <2>2 DEF Append, Frames
  <2> QED
    BY <2>1, <2>3
<1>27. CASE JournalFails(p)
  BY <1>27 DEF JournalFails, Goto, Fault
<1>28. CASE DropPart(p)
  BY <1>28 DEF DropPart
<1>29. CASE DropDir(p)
  BY <1>29 DEF DropDir, Goto
<1>30. CASE DropLock(p)
  BY <1>30 DEF DropLock, Goto, Stop, End, Forget, SetLock
<1>31. CASE DropDirFails(p)
  BY <1>31 DEF DropDirFails, Goto, Fault
<1>32. CASE DropLockFails(p)
  BY <1>32 DEF DropLockFails, Goto, Stop, End, Forget, Fault
<1>33. CASE Work(p)
  BY <1>33 DEF Work
<1>34. CASE WorkDone(p)
  BY <1>34 DEF WorkDone, Goto
<1>35. CASE WorkFails(p)
  BY <1>35 DEF WorkFails, Goto
<1>36. CASE Open(p)
  BY <1>36 DEF Open, Goto
<1>37. CASE OpenRefused(p)
  BY <1>37 DEF OpenRefused, Goto, Stop, End, Forget
<1>38. CASE OpenFails(p)
  BY <1>38 DEF OpenFails, Goto, Stop, End, Forget, Fault
<1>39. CASE Enter(p)
  BY <1>39 DEF Enter, Goto
<1>40. CASE EnterFails(p)
  BY <1>40 DEF EnterFails, Goto, Stop, Forget
<1>41. CASE Undo(p)
  BY <1>41 DEF Undo
<1>42. CASE UndoDone(p)
  BY <1>42 DEF UndoDone, Goto
<1>43. CASE UndoRefused(p)
  BY <1>43 DEF UndoRefused, Goto
<1>44. CASE UndoFails(p)
  BY <1>44 DEF UndoFails, Goto
<1>45. CASE AppendFails(p)
  BY <1>45 DEF AppendFails, Goto, Stop, Forget, Fault
<1>46. CASE Mark(p)
  BY <1>46 DEF Mark, Goto
<1>47. CASE Close(p)
  BY <1>47 DEF Close, Goto
<1>48. CASE Settle(p)
  BY <1>48 DEF Settle, Goto
<1>49. CASE SettleFails(p)
  BY <1>49 DEF SettleFails, Goto, Stop, End, Forget, Ends
<1>50. CASE Clean(p)
  BY <1>50 DEF Clean, Goto
<1>51. CASE CleanFails(p)
  BY <1>51 DEF CleanFails, Goto, Stop, End, Forget, Ends
<1>52. CASE ReadOwner(p)
  BY <1>52 DEF ReadOwner, Goto
<1>53. CASE NotOwner(p)
  BY <1>53 DEF NotOwner, Goto, Stop, End, Forget, Ends
<1>54. CASE Unlink(p)
  BY <1>54 DEF Unlink, Goto, SetLock
<1>55. CASE UnlinkGone(p)
  BY <1>55 DEF UnlinkGone, Goto, Stop, End, Forget, Ends
<1>56. CASE Sync(p)
  BY <1>56 DEF Sync, Goto, Stop, End, Forget
<1>57. CASE ReleaseFails(p)
  BY <1>57 DEF ReleaseFails, Goto, Stop, End, Forget, Fault, Ends
<1>58. CASE FailLog(p)
  BY <1>58 DEF FailLog, Goto
<1>59. CASE SpoilLog(p)
  BY <1>59 DEF SpoilLog, Goto
<1>60. CASE FailMeta(p)
  BY <1>60 DEF FailMeta, Goto, Stop, End, Forget
<1>61. CASE FailFails(p)
  BY <1>61 DEF FailFails, Goto, Stop, Forget, Fault
<1>62. CASE Crash(p)
  BY <1>62 DEF Crash, Goto, Forget
<1> QED
  BY <1>1, <1>2, <1>3, <1>4, <1>5, <1>6, <1>7, <1>8, <1>9, <1>10, <1>11, <1>12, <1>13,
      <1>14, <1>15, <1>16, <1>17, <1>18, <1>19, <1>20, <1>21, <1>22, <1>23, <1>24, <1>25,
      <1>26, <1>27, <1>28, <1>29, <1>30, <1>31, <1>32, <1>33, <1>34, <1>35, <1>36, <1>37,
      <1>38, <1>39, <1>40, <1>41, <1>42, <1>43, <1>44, <1>45, <1>46, <1>47, <1>48, <1>49,
      <1>50, <1>51, <1>52, <1>53, <1>54, <1>55, <1>56, <1>57, <1>58, <1>59, <1>60, <1>61,
      <1>62 DEF Start, Step, Look, Begin, Execute, Release, Fail

\* How names come into the list of a recover.
LEMMA NamesMoves ==
  ASSUME NEW p \in Procs, TypeOK, PlaceOf(p), MindOf(p), Start(p) \/ Step(p) \/ Crash(p),
         cmd'[p] = "recover", pc'[p] = "inspect"
  PROVE  /\ cmd[p] = "recover" /\ pc[p] \in {"list", "inspect"} /\ meta' = meta
         /\ \/ pc[p] = "inspect" /\ names'[p] \subseteq names[p]
            \/ names'[p] = {i \in Ids : meta[i] # "none"}
<1> USE DEF TypeOK, PlaceOf, MindOf, disk, memory, reads, counts
<1>1. CASE StartRun(p)
  BY <1>1 DEF StartRun, Goto
<1>2. CASE StartRecover(p)
  BY <1>2 DEF StartRecover, Goto
<1>3. CASE StartHistory(p)
  BY <1>3 DEF StartHistory, Goto
<1>4. CASE ReadLock(p)
  BY <1>4 DEF ReadLock, Goto
<1>5. CASE ReadLockFails(p)
  BY <1>5 DEF ReadLockFails, Goto, Stop, End, Forget
<1>6. CASE List(p)
  BY <1>6 DEF List, Goto
<1>7. CASE Inspect(p)
  BY <1>7 DEF Inspect
<1>8. CASE InspectFails(p)
  BY <1>8 DEF InspectFails, Goto, Stop, End, Forget
<1>9. CASE Inspected(p)
  BY <1>9 DEF Inspected, Goto
<1>10. CASE Listed(p)
  BY <1>10 DEF Listed, Goto, Stop, End, Forget
<1>11. CASE JudgeFails(p)
  BY <1>11 DEF JudgeFails, Goto, Stop, End, Forget
<1>12. CASE Admit(p)
  BY <1>12 DEF Admit, Goto
<1>13. CASE Block(p)
  BY <1>13 DEF Block, Goto, Stop, End, Forget
<1>14. CASE NothingPending(p)
  BY <1>14 DEF NothingPending, Goto, Stop, End, Forget
<1>15. CASE Take(p)
  BY <1>15 DEF Take, Goto
<1>16. CASE CreateLock(p)
  BY <1>16 DEF CreateLock, Goto
<1>17. CASE LockTaken(p)
  BY <1>17 DEF LockTaken, Goto, Stop, End, Forget
<1>18. CASE CreateLockFails(p)
  BY <1>18 DEF CreateLockFails, Goto, Stop, End, Forget
<1>19. CASE WriteLock(p)
  BY <1>19 DEF WriteLock, Goto
<1>20. CASE WriteLockFails(p)
  BY <1>20 DEF WriteLockFails, Goto
<1>21. CASE MakeDir(p)
  BY <1>21 DEF MakeDir, Goto
<1>22. CASE MakeDirFails(p)
  BY <1>22 DEF MakeDirFails, Goto
<1>23. CASE WriteMeta(p)
  BY <1>23 DEF WriteMeta, Goto
<1>24. CASE WriteMetaFails(p)
  BY <1>24 DEF WriteMetaFails, Goto
<1>25. CASE CreateJournal(p)
  BY <1>25 DEF CreateJournal, Goto
<1>26. CASE LogBegin(p)
  BY <1>26 DEF LogBegin, Goto
<1>27. CASE JournalFails(p)
  BY <1>27 DEF JournalFails, Goto
<1>28. CASE DropPart(p)
  BY <1>28 DEF DropPart
<1>29. CASE DropDir(p)
  BY <1>29 DEF DropDir, Goto
<1>30. CASE DropLock(p)
  BY <1>30 DEF DropLock, Goto, Stop, End, Forget
<1>31. CASE DropDirFails(p)
  BY <1>31 DEF DropDirFails, Goto
<1>32. CASE DropLockFails(p)
  BY <1>32 DEF DropLockFails, Goto, Stop, End, Forget
<1>33. CASE Work(p)
  BY <1>33 DEF Work
<1>34. CASE WorkDone(p)
  BY <1>34 DEF WorkDone, Goto
<1>35. CASE WorkFails(p)
  BY <1>35 DEF WorkFails, Goto
<1>36. CASE Open(p)
  BY <1>36 DEF Open, Goto
<1>37. CASE OpenRefused(p)
  BY <1>37 DEF OpenRefused, Goto, Stop, End, Forget
<1>38. CASE OpenFails(p)
  BY <1>38 DEF OpenFails, Goto, Stop, End, Forget
<1>39. CASE Enter(p)
  BY <1>39 DEF Enter, Goto
<1>40. CASE EnterFails(p)
  BY <1>40 DEF EnterFails, Goto, Stop, Forget
<1>41. CASE Undo(p)
  BY <1>41 DEF Undo
<1>42. CASE UndoDone(p)
  BY <1>42 DEF UndoDone, Goto
<1>43. CASE UndoRefused(p)
  BY <1>43 DEF UndoRefused, Goto
<1>44. CASE UndoFails(p)
  BY <1>44 DEF UndoFails, Goto
<1>45. CASE AppendFails(p)
  BY <1>45 DEF AppendFails, Goto, Stop, Forget
<1>46. CASE Mark(p)
  BY <1>46 DEF Mark, Goto
<1>47. CASE Close(p)
  BY <1>47 DEF Close, Goto
<1>48. CASE Settle(p)
  BY <1>48 DEF Settle, Goto
<1>49. CASE SettleFails(p)
  BY <1>49 DEF SettleFails, Goto, Stop, End, Forget, Ends
<1>50. CASE Clean(p)
  BY <1>50 DEF Clean, Goto
<1>51. CASE CleanFails(p)
  BY <1>51 DEF CleanFails, Goto, Stop, End, Forget, Ends
<1>52. CASE ReadOwner(p)
  BY <1>52 DEF ReadOwner, Goto
<1>53. CASE NotOwner(p)
  BY <1>53 DEF NotOwner, Goto, Stop, End, Forget, Ends
<1>54. CASE Unlink(p)
  BY <1>54 DEF Unlink, Goto
<1>55. CASE UnlinkGone(p)
  BY <1>55 DEF UnlinkGone, Goto, Stop, End, Forget, Ends
<1>56. CASE Sync(p)
  BY <1>56 DEF Sync, Goto, Stop, End, Forget
<1>57. CASE ReleaseFails(p)
  BY <1>57 DEF ReleaseFails, Goto, Stop, End, Forget, Ends
<1>58. CASE FailLog(p)
  BY <1>58 DEF FailLog, Goto
<1>59. CASE SpoilLog(p)
  BY <1>59 DEF SpoilLog, Goto
<1>60. CASE FailMeta(p)
  BY <1>60 DEF FailMeta, Goto, Stop, End, Forget
<1>61. CASE FailFails(p)
  BY <1>61 DEF FailFails, Goto, Stop, Forget
<1>62. CASE Crash(p)
  BY <1>62 DEF Crash, Goto, Forget
<1> QED
  BY <1>1, <1>2, <1>3, <1>4, <1>5, <1>6, <1>7, <1>8, <1>9, <1>10, <1>11, <1>12, <1>13,
      <1>14, <1>15, <1>16, <1>17, <1>18, <1>19, <1>20, <1>21, <1>22, <1>23, <1>24, <1>25,
      <1>26, <1>27, <1>28, <1>29, <1>30, <1>31, <1>32, <1>33, <1>34, <1>35, <1>36, <1>37,
      <1>38, <1>39, <1>40, <1>41, <1>42, <1>43, <1>44, <1>45, <1>46, <1>47, <1>48, <1>49,
      <1>50, <1>51, <1>52, <1>53, <1>54, <1>55, <1>56, <1>57, <1>58, <1>59, <1>60, <1>61,
      <1>62 DEF Start, Step, Look, Begin, Execute, Release, Fail

\* Who answers with a refusal.
LEMMA AnswerMoves ==
  ASSUME NEW p \in Procs, TypeOK, PlaceOf(p), MindOf(p), Start(p) \/ Step(p) \/ Crash(p)
  PROVE  cmd'[p] = "recover" /\ answer'[p] \in Refusals =>
              /\ cmd[p] = "recover"
              /\ \/ answer'[p] = answer[p]
                 \/ ReadLockFails(p) \/ InspectFails(p) \/ JudgeFails(p) \/ OpenRefused(p)
<1> USE DEF TypeOK, PlaceOf, MindOf, Refusals, disk, memory, reads, counts
<1>1. CASE StartRun(p)
  BY <1>1 DEF StartRun, Goto
<1>2. CASE StartRecover(p)
  BY <1>2 DEF StartRecover, Goto
<1>3. CASE StartHistory(p)
  BY <1>3 DEF StartHistory, Goto
<1>4. CASE ReadLock(p)
  BY <1>4 DEF ReadLock, Goto
<1>5. CASE ReadLockFails(p)
  BY <1>5 DEF ReadLockFails, Goto, Stop, End, Forget
<1>6. CASE List(p)
  BY <1>6 DEF List, Goto
<1>7. CASE Inspect(p)
  BY <1>7 DEF Inspect
<1>8. CASE InspectFails(p)
  BY <1>8 DEF InspectFails, Goto, Stop, End, Forget
<1>9. CASE Inspected(p)
  BY <1>9 DEF Inspected, Goto
<1>10. CASE Listed(p)
  BY <1>10 DEF Listed, Goto, Stop, End, Forget
<1>11. CASE JudgeFails(p)
  BY <1>11 DEF JudgeFails, Goto, Stop, End, Forget
<1>12. CASE Admit(p)
  BY <1>12 DEF Admit, Goto
<1>13. CASE Block(p)
  BY <1>13 DEF Block, Goto, Stop, End, Forget
<1>14. CASE NothingPending(p)
  BY <1>14 DEF NothingPending, Goto, Stop, End, Forget
<1>15. CASE Take(p)
  BY <1>15 DEF Take, Goto
<1>16. CASE CreateLock(p)
  BY <1>16 DEF CreateLock, Goto
<1>17. CASE LockTaken(p)
  BY <1>17 DEF LockTaken, Goto, Stop, End, Forget
<1>18. CASE CreateLockFails(p)
  BY <1>18 DEF CreateLockFails, Goto, Stop, End, Forget
<1>19. CASE WriteLock(p)
  BY <1>19 DEF WriteLock, Goto
<1>20. CASE WriteLockFails(p)
  BY <1>20 DEF WriteLockFails, Goto
<1>21. CASE MakeDir(p)
  BY <1>21 DEF MakeDir, Goto
<1>22. CASE MakeDirFails(p)
  BY <1>22 DEF MakeDirFails, Goto
<1>23. CASE WriteMeta(p)
  BY <1>23 DEF WriteMeta, Goto
<1>24. CASE WriteMetaFails(p)
  BY <1>24 DEF WriteMetaFails, Goto
<1>25. CASE CreateJournal(p)
  BY <1>25 DEF CreateJournal, Goto
<1>26. CASE LogBegin(p)
  BY <1>26 DEF LogBegin, Goto
<1>27. CASE JournalFails(p)
  BY <1>27 DEF JournalFails, Goto
<1>28. CASE DropPart(p)
  BY <1>28 DEF DropPart
<1>29. CASE DropDir(p)
  BY <1>29 DEF DropDir, Goto
<1>30. CASE DropLock(p)
  BY <1>30 DEF DropLock, Goto, Stop, End, Forget
<1>31. CASE DropDirFails(p)
  BY <1>31 DEF DropDirFails, Goto
<1>32. CASE DropLockFails(p)
  BY <1>32 DEF DropLockFails, Goto, Stop, End, Forget
<1>33. CASE Work(p)
  BY <1>33 DEF Work
<1>34. CASE WorkDone(p)
  BY <1>34 DEF WorkDone, Goto
<1>35. CASE WorkFails(p)
  BY <1>35 DEF WorkFails, Goto
<1>36. CASE Open(p)
  BY <1>36 DEF Open, Goto
<1>37. CASE OpenRefused(p)
  BY <1>37 DEF OpenRefused, Goto, Stop, End, Forget
<1>38. CASE OpenFails(p)
  BY <1>38 DEF OpenFails, Goto, Stop, End, Forget
<1>39. CASE Enter(p)
  BY <1>39 DEF Enter, Goto
<1>40. CASE EnterFails(p)
  BY <1>40, ZenonT(60) DEF EnterFails, Goto, Stop, Forget
<1>41. CASE Undo(p)
  BY <1>41 DEF Undo
<1>42. CASE UndoDone(p)
  BY <1>42 DEF UndoDone, Goto
<1>43. CASE UndoRefused(p)
  BY <1>43 DEF UndoRefused, Goto
<1>44. CASE UndoFails(p)
  BY <1>44 DEF UndoFails, Goto
<1>45. CASE AppendFails(p)
  BY <1>45 DEF AppendFails, Goto, Stop, Forget, Failure
<1>46. CASE Mark(p)
  BY <1>46 DEF Mark, Goto
<1>47. CASE Close(p)
  BY <1>47 DEF Close, Goto
<1>48. CASE Settle(p)
  BY <1>48 DEF Settle, Goto
<1>49. CASE SettleFails(p)
  BY <1>49 DEF SettleFails, Goto, Stop, End, Forget, Ends, Failure
<1>50. CASE Clean(p)
  BY <1>50 DEF Clean, Goto
<1>51. CASE CleanFails(p)
  BY <1>51 DEF CleanFails, Goto, Stop, End, Forget, Ends, Failure
<1>52. CASE ReadOwner(p)
  BY <1>52 DEF ReadOwner, Goto
<1>53. CASE NotOwner(p)
  BY <1>53 DEF NotOwner, Goto, Stop, End, Forget, Ends, Failure
<1>54. CASE Unlink(p)
  BY <1>54 DEF Unlink, Goto
<1>55. CASE UnlinkGone(p)
  BY <1>55 DEF UnlinkGone, Goto, Stop, End, Forget, Ends, Failure
<1>56. CASE Sync(p)
  BY <1>56 DEF Sync, Goto, Stop, End, Forget, Outcome
<1>57. CASE ReleaseFails(p)
  BY <1>57 DEF ReleaseFails, Goto, Stop, End, Forget, Ends, Failure
<1>58. CASE FailLog(p)
  BY <1>58 DEF FailLog, Goto
<1>59. CASE SpoilLog(p)
  BY <1>59 DEF SpoilLog, Goto
<1>60. CASE FailMeta(p)
  BY <1>60 DEF FailMeta, Goto, Stop, End, Forget
<1>61. CASE FailFails(p)
  BY <1>61 DEF FailFails, Goto, Stop, Forget
<1>62. CASE Crash(p)
  BY <1>62 DEF Crash, Goto, Forget
<1> QED
  BY <1>1, <1>2, <1>3, <1>4, <1>5, <1>6, <1>7, <1>8, <1>9, <1>10, <1>11, <1>12, <1>13,
      <1>14, <1>15, <1>16, <1>17, <1>18, <1>19, <1>20, <1>21, <1>22, <1>23, <1>24, <1>25,
      <1>26, <1>27, <1>28, <1>29, <1>30, <1>31, <1>32, <1>33, <1>34, <1>35, <1>36, <1>37,
      <1>38, <1>39, <1>40, <1>41, <1>42, <1>43, <1>44, <1>45, <1>46, <1>47, <1>48, <1>49,
      <1>50, <1>51, <1>52, <1>53, <1>54, <1>55, <1>56, <1>57, <1>58, <1>59, <1>60, <1>61,
      <1>62 DEF Start, Step, Look, Begin, Execute, Release, Fail

\* What leads into an undo, and that no append of it fails.
LEMMA MildMoves ==
  ASSUME NEW p \in Procs, Tidy, TypeOK, PlaceOf(p), MindOf(p), MildOf(p),
         Start(p) \/ Step(p) \/ Crash(p)
  PROVE  /\ pc'[p] # "spoil log"
         /\ pc'[p] \in {"enter", "undo", "fail log"} =>
              /\ id'[p] = id[p]
              /\ \/ pc[p] \in {"enter", "undo"}
                 \/ pc[p] = "open" /\ log[id[p]] = "open" /\ UNCHANGED log
<1> USE DEF Tidy, TypeOK, PlaceOf, MindOf, MildOf, Readable, disk, memory, reads, counts
<1>1. CASE StartRun(p)
  BY <1>1 DEF StartRun, Goto
<1>2. CASE StartRecover(p)
  BY <1>2 DEF StartRecover, Goto
<1>3. CASE StartHistory(p)
  BY <1>3 DEF StartHistory, Goto
<1>4. CASE ReadLock(p)
  BY <1>4 DEF ReadLock, Goto
<1>5. CASE ReadLockFails(p)
  BY <1>5 DEF ReadLockFails, Goto, Stop, End, Forget
<1>6. CASE List(p)
  BY <1>6 DEF List, Goto
<1>7. CASE Inspect(p)
  BY <1>7 DEF Inspect
<1>8. CASE InspectFails(p)
  BY <1>8 DEF InspectFails, Goto, Stop, End, Forget
<1>9. CASE Inspected(p)
  BY <1>9 DEF Inspected, Goto
<1>10. CASE Listed(p)
  BY <1>10 DEF Listed, Goto, Stop, End, Forget
<1>11. CASE JudgeFails(p)
  BY <1>11 DEF JudgeFails, Goto, Stop, End, Forget
<1>12. CASE Admit(p)
  BY <1>12 DEF Admit, Goto
<1>13. CASE Block(p)
  BY <1>13 DEF Block, Goto, Stop, End, Forget
<1>14. CASE NothingPending(p)
  BY <1>14 DEF NothingPending, Goto, Stop, End, Forget
<1>15. CASE Take(p)
  BY <1>15 DEF Take, Goto
<1>16. CASE CreateLock(p)
  BY <1>16 DEF CreateLock, Goto
<1>17. CASE LockTaken(p)
  BY <1>17 DEF LockTaken, Goto, Stop, End, Forget
<1>18. CASE CreateLockFails(p)
  BY <1>18 DEF CreateLockFails, Goto, Stop, End, Forget, Fault
<1>19. CASE WriteLock(p)
  BY <1>19 DEF WriteLock, Goto
<1>20. CASE WriteLockFails(p)
  BY <1>20 DEF WriteLockFails, Goto, Fault
<1>21. CASE MakeDir(p)
  BY <1>21 DEF MakeDir, Goto
<1>22. CASE MakeDirFails(p)
  BY <1>22 DEF MakeDirFails, Goto, Fault
<1>23. CASE WriteMeta(p)
  BY <1>23 DEF WriteMeta, Goto
<1>24. CASE WriteMetaFails(p)
  BY <1>24 DEF WriteMetaFails, Goto, Fault
<1>25. CASE CreateJournal(p)
  BY <1>25 DEF CreateJournal, Goto
<1>26. CASE LogBegin(p)
  BY <1>26 DEF LogBegin, Goto
<1>27. CASE JournalFails(p)
  BY <1>27 DEF JournalFails, Goto, Fault
<1>28. CASE DropPart(p)
  BY <1>28 DEF DropPart
<1>29. CASE DropDir(p)
  BY <1>29 DEF DropDir, Goto
<1>30. CASE DropLock(p)
  BY <1>30 DEF DropLock, Goto, Stop, End, Forget
<1>31. CASE DropDirFails(p)
  BY <1>31 DEF DropDirFails, Goto, Fault
<1>32. CASE DropLockFails(p)
  BY <1>32 DEF DropLockFails, Goto, Stop, End, Forget, Fault
<1>33. CASE Work(p)
  BY <1>33 DEF Work
<1>34. CASE WorkDone(p)
  BY <1>34 DEF WorkDone, Goto
<1>35. CASE WorkFails(p)
  BY <1>35 DEF WorkFails, Goto
<1>36. CASE Open(p)
  BY <1>36 DEF Open, Goto
<1>37. CASE OpenRefused(p)
  BY <1>37 DEF OpenRefused, Goto, Stop, End, Forget
<1>38. CASE OpenFails(p)
  BY <1>38 DEF OpenFails, Goto, Stop, End, Forget, Fault
<1>39. CASE Enter(p)
  BY <1>39 DEF Enter, Goto
<1>40. CASE EnterFails(p)
  BY <1>40 DEF EnterFails, Goto, Stop, Forget
<1>41. CASE Undo(p)
  BY <1>41 DEF Undo
<1>42. CASE UndoDone(p)
  BY <1>42 DEF UndoDone, Goto
<1>43. CASE UndoRefused(p)
  BY <1>43 DEF UndoRefused, Goto
<1>44. CASE UndoFails(p)
  BY <1>44 DEF UndoFails, Goto
<1>45. CASE AppendFails(p)
  <2>1. ~undoing[p]
    <3>1. undoing[p] => pc[p] \in {"undo", "mark", "close"}
      BY <1>45 DEF AppendFails, Finishing, Failing
    <3> QED
      BY <1>45, <3>1 DEF AppendFails, Fault
  <2>2. pc'[p] \in {"idle", "read lock"}
    BY <1>45, <2>1 DEF AppendFails, Goto, Stop, Forget
  <2> QED
    BY <2>2
<1>46. CASE Mark(p)
  BY <1>46 DEF Mark, Goto
<1>47. CASE Close(p)
  BY <1>47 DEF Close, Goto
<1>48. CASE Settle(p)
  BY <1>48 DEF Settle, Goto
<1>49. CASE SettleFails(p)
  BY <1>49 DEF SettleFails, Goto, Stop, End, Forget, Ends
<1>50. CASE Clean(p)
  BY <1>50 DEF Clean, Goto
<1>51. CASE CleanFails(p)
  BY <1>51 DEF CleanFails, Goto, Stop, End, Forget, Ends
<1>52. CASE ReadOwner(p)
  BY <1>52 DEF ReadOwner, Goto
<1>53. CASE NotOwner(p)
  BY <1>53 DEF NotOwner, Goto, Stop, End, Forget, Ends
<1>54. CASE Unlink(p)
  BY <1>54 DEF Unlink, Goto
<1>55. CASE UnlinkGone(p)
  BY <1>55 DEF UnlinkGone, Goto, Stop, End, Forget, Ends
<1>56. CASE Sync(p)
  BY <1>56 DEF Sync, Goto, Stop, End, Forget
<1>57. CASE ReleaseFails(p)
  BY <1>57 DEF ReleaseFails, Goto, Stop, End, Forget, Fault, Ends
<1>58. CASE FailLog(p)
  BY <1>58 DEF FailLog, Goto
<1>59. CASE SpoilLog(p)
  BY <1>59 DEF SpoilLog, Goto
<1>60. CASE FailMeta(p)
  BY <1>60 DEF FailMeta, Goto, Stop, End, Forget
<1>61. CASE FailFails(p)
  BY <1>61 DEF FailFails, Goto, Stop, Forget, Fault
<1>62. CASE Crash(p)
  BY <1>62 DEF Crash, Goto, Forget
<1> QED
  BY <1>1, <1>2, <1>3, <1>4, <1>5, <1>6, <1>7, <1>8, <1>9, <1>10, <1>11, <1>12, <1>13,
      <1>14, <1>15, <1>16, <1>17, <1>18, <1>19, <1>20, <1>21, <1>22, <1>23, <1>24, <1>25,
      <1>26, <1>27, <1>28, <1>29, <1>30, <1>31, <1>32, <1>33, <1>34, <1>35, <1>36, <1>37,
      <1>38, <1>39, <1>40, <1>41, <1>42, <1>43, <1>44, <1>45, <1>46, <1>47, <1>48, <1>49,
      <1>50, <1>51, <1>52, <1>53, <1>54, <1>55, <1>56, <1>57, <1>58, <1>59, <1>60, <1>61,
      <1>62 DEF Start, Step, Look, Begin, Execute, Release, Fail

LEMMA MildStep ==
  ASSUME Tidy, AcceptInv, NEW p \in Procs, Start(p) \/ Step(p) \/ Crash(p)
  PROVE  \A q \in Procs : MildOf(q)'
<1>1. /\ TypeOK /\ PlaceOf(p) /\ MindOf(p) /\ RecordOf(p) /\ MildOf(p) /\ TypeOK'
  <2>1. TypeOK'
    <3>1. [Next]_vars
      BY DEF Next
    <3> QED
      BY <3>1, RaceStep DEF AcceptInv, RaceInv
  <2> QED
    BY <2>1 DEF AcceptInv, Inv, PlaceInv, OwnInv
<1>2. /\ pc'[p] # "spoil log"
      /\ pc'[p] \in {"enter", "undo", "fail log"} =>
           /\ id'[p] = id[p]
           /\ \/ pc[p] \in {"enter", "undo"}
              \/ pc[p] = "open" /\ log[id[p]] = "open" /\ UNCHANGED log
  BY <1>1, MildMoves
<1>3. \A i \in Ids : log'[i] = log[i] \/ (i = id[p] /\ LogBecomes(p, log'[i]))
  BY <1>1, DiskMoves
<1>4. ASSUME pc[p] \in {"enter", "undo"}
      PROVE  log'[id[p]] = "open"
  <2>1. id[p] \in Ids /\ ~behind[p] /\ log[id[p]] = "open"
    BY <1>1, <1>4 DEF PlaceOf, RecordOf, MildOf, Owner, Inside, Writing
  <2> QED
    BY <1>3, <1>4, <2>1 DEF LogBecomes
<1>5. MildOf(p)'
  BY <1>1, <1>2, <1>4 DEF MildOf
<1>6. ASSUME NEW q \in Procs, q # p
      PROVE  MildOf(q)'
  <2>1. pc'[q] = pc[q] /\ id'[q] = id[q]
    BY <1>1, <1>6, OthersStay
  <2>2. MildOf(q)
    BY DEF AcceptInv
  <2>3. CASE pc[q] \in {"enter", "undo", "fail log"}
    <3>1. Owner(q) /\ LockOf(q)
      BY <2>3 DEF AcceptInv, Inv, OwnInv, Owner, Inside, Writing, Failing
    <3>2. ~Owner(p)
      BY <1>6, <3>1 DEF AcceptInv, Inv, AloneInv
    <3>3. lock # None
      BY <2>3, <3>1, LockValues DEF LockOf
    <3>4. log' = log
      BY <1>1, <3>2, <3>3, WhoWrites
    <3> QED
      BY <2>1, <2>2, <3>4 DEF MildOf
  <2>4. CASE pc[q] \notin {"enter", "undo", "fail log"}
    BY <2>1, <2>2, <2>4 DEF MildOf
  <2> QED
    BY <2>3, <2>4
<1> QED
  BY <1>5, <1>6

\* A recover that runs alone is not refused.
LEMMA NotRefused ==
  ASSUME AcceptInv, NEW p \in Procs, cmd[p] = "recover"
  PROVE  ~ReadLockFails(p) /\ ~InspectFails(p) /\ ~JudgeFails(p) /\ ~OpenRefused(p)
<1> SUFFICES ASSUME pc[p] # "idle" PROVE ~ReadLockFails(p) /\ ~InspectFails(p) /\ ~JudgeFails(p)
                                        /\ ~OpenRefused(p)
  BY DEF ReadLockFails, InspectFails, JudgeFails, OpenRefused
<1>1. TypeOK /\ PlaceOf(p) /\ LockOf(p) /\ SeenOf(p) /\ LockGuards /\ LeftInv
  BY DEF AcceptInv, Inv, PlaceInv, OwnInv
<1>2. \A q \in Procs : pc[q] \notin Beginning
  <2>1. ASSUME NEW q \in Procs, pc[q] \in Beginning PROVE FALSE
    <3>1. cmd[q] = "run" /\ Working(q)
      BY <2>1 DEF AcceptInv, Inv, PlaceInv, PlaceOf, Working, Beginning
    <3>2. Recovering(p) /\ p # q
      BY <3>1 DEF Recovering
    <3> QED
      BY <3>1, <3>2 DEF AcceptInv, Inv, AloneInv
  <2> QED
    BY <2>1
<1>3. lock # Blank
  BY <1>1, <1>2 DEF LeftInv, Beginning
<1>4. lock \in Ids => meta[lock] \notin {"none", "bare"} /\ log[lock] \in {"open", "decided"}
  BY <1>1, <1>2 DEF LeftInv
<1>5. ~ReadLockFails(p)
  BY <1>3 DEF ReadLockFails
<1>6. ~InspectFails(p)
  BY DEF InspectFails, AcceptInv, ListedInv
<1>7. ~OpenRefused(p)
  <2>1. pc[p] = "open" => lock = id[p] /\ id[p] \in Ids
    BY <1>1 DEF LockOf, Owner, Inside
  <2> QED
    BY <1>4, <2>1 DEF OpenRefused, Readable
<1>8. ~JudgeFails(p)
  <2>1. SUFFICES ASSUME pc[p] = "judge" PROVE Refusal(p) = "none"
    BY DEF JudgeFails
  <2>2. seen[p] = lock /\ found[p] \subseteq Ids /\ \A i \in found[p] : Unresolved(meta[i])
    BY <1>1, <2>1 DEF SeenOf, Looking, TypeOK
  <2>3. \A i \in found[p] : i = lock
    BY <1>1, <2>2 DEF LockGuards, Recorded, Active, Unresolved
  <2>4. CASE seen[p] # None
    <3>1. lock \in Ids
      BY <1>1, <2>2, <2>4 DEF TypeOK
    <3> QED
      BY <1>4, <2>2, <2>3, <2>4, <3>1 DEF Refusal
  <2>5. CASE seen[p] = None
    <3>1. found[p] = {}
      BY <2>2, <2>3, <2>5, LockValues
    <3>2. Cardinality({}) = 0
      BY FS_EmptySet
    <3> QED
      BY <2>5, <3>1, <3>2 DEF Refusal
  <2> QED
    BY <2>4, <2>5
<1> QED
  BY <1>5, <1>6, <1>7, <1>8

\* Begin leaves what recover accepts.
LEMMA LeftStep ==
  ASSUME Tidy, AcceptInv, NEW p \in Procs, Start(p) \/ Step(p) \/ Crash(p)
  PROVE  LeftInv'
<1>1. /\ TypeOK /\ PlaceOf(p) /\ MindOf(p) /\ MildOf(p) /\ RecordOf(p) /\ LockOf(p) /\ UnbegunInv /\ LockGuards /\ LeftInv
  BY DEF AcceptInv, Inv, RaceInv, PlaceInv, OwnInv
<1>2. /\ lock' # lock => \/ lock' = None
                         \/ lock' = Blank /\ pc'[p] = "write lock"
                         \/ lock' = id[p] /\ pc'[p] \in Beginning
      /\ pc[p] \in {"write lock", "drop lock"} /\ lock' = Blank => pc'[p] = "drop lock"
      /\ pc[p] \in Beginning => \/ pc'[p] \in Beginning
                                \/ lock' = None
                                \/ /\ lock' = id[p] /\ meta'[id[p]] = "open"
                                   /\ log'[id[p]] = "open"
  BY <1>1, LockMoves
<1>3. /\ \A i \in Ids : log'[i] = log[i] \/ (i = id[p] /\ LogBecomes(p, log'[i]))
      /\ \A i \in Ids : meta'[i] = meta[i] \/ (i = id[p] /\ MetaBecomes(p, meta'[i]))
  BY <1>1, DiskMoves
<1>4. \A q \in Procs : q # p => pc'[q] = pc[q]
  BY <1>1, OthersStay
<1>5. lock' = Blank => \E q \in Procs : pc'[q] \in {"write lock", "drop lock"}
  <2>1. SUFFICES ASSUME lock' = Blank PROVE \E q \in Procs : pc'[q] \in {"write lock", "drop lock"}
    OBVIOUS
  <2>2. CASE lock # Blank
    BY <1>2, <2>1, <2>2, LockValues, <1>1 DEF TypeOK, LockOf, Owner, Inside
  <2>3. CASE lock = Blank
    <3>1. PICK q \in Procs : pc[q] \in {"write lock", "drop lock"}
      BY <1>1, <2>3 DEF LeftInv
    <3> QED
      BY <1>2, <1>4, <2>1, <3>1
  <2> QED
    BY <2>2, <2>3
<1>6. ASSUME lock' \in Ids, \A q \in Procs : pc'[q] \notin Beginning
      PROVE  meta'[lock'] \notin {"none", "bare"} /\ log'[lock'] \in {"open", "decided"}
  <2>1. lock' # None /\ lock' # Blank
    BY <1>6, LockValues
  <2>2. CASE pc[p] \in Beginning
    BY <1>2, <1>6, <2>1, <2>2
  <2>3. CASE pc[p] \notin Beginning
    <3>1. lock' = lock
      BY <1>2, <1>6, <2>1
    <3>2. meta[lock] \notin {"none", "bare"} /\ log[lock] \in {"open", "decided"}
      BY <1>1, <1>4, <1>6, <2>3, <3>1 DEF LeftInv
    <3>3. pc[p] \in Writing => ~behind[p] /\ lock = id[p]
      BY <1>1 DEF RecordOf, LockOf, Owner, Inside, Writing, Failing
    <3>4. meta'[lock] = meta[lock] \/ meta'[lock] \notin {"none", "bare"}
      BY <1>1, <1>3, <1>6, <2>3, <3>1
      DEF MetaBecomes, MindOf, Unresolved, Unended, Beginning, Writing, Failing
    <3>5. log'[lock] = log[lock] \/ log'[lock] \in {"open", "decided"}
      BY <1>1, <1>3, <1>6, <2>3, <3>1, <3>3
      DEF LogBecomes, MildOf, Beginning, Appending, Writing, Failing
    <3> QED
      BY <3>1, <3>2, <3>4, <3>5
  <2> QED
    BY <2>2, <2>3
<1> QED
  BY <1>5, <1>6 DEF LeftInv

\* What recover has listed stays as it was.
LEMMA ListedStep ==
  ASSUME AcceptInv, NEW p \in Procs, Start(p) \/ Step(p) \/ Crash(p)
  PROVE  ListedInv'
<1>1. /\ TypeOK /\ TypeOK' /\ PlaceInv /\ PlaceOf(p) /\ MindOf(p) /\ LockGuards /\ AloneInv
      /\ LeftInv /\ ListedInv
  <2>1. TypeOK'
    <3>1. [Next]_vars
      BY DEF Next
    <3> QED
      BY <3>1, RaceStep DEF AcceptInv, RaceInv
  <2> QED
    BY <2>1 DEF AcceptInv, Inv, PlaceInv
<1>2. SUFFICES ASSUME NEW q \in Procs, cmd'[q] = "recover", pc'[q] = "inspect",
                      NEW i \in names'[q]
               PROVE  meta'[i] \notin {"none", "bare"}
  BY DEF ListedInv
<1>3. CASE q # p
  <2>1. cmd[q] = "recover" /\ pc[q] = "inspect" /\ names'[q] = names[q]
    BY <1>1, <1>2, <1>3, OthersStay
  <2>2. ~Working(p) /\ ~Recovering(p)
    BY <1>1, <1>3, <2>1 DEF AloneInv, Recovering
  <2>3. ~Owner(p) /\ pc[p] # "create lock"
    BY <1>1, <2>2 DEF Owner, Inside, Working, Recovering, PlaceOf, Beginning, Writing, Failing,
                      Admitting, TypeOK, Commands
  <2>4. meta' = meta
    BY <1>1, <2>3, WhoWrites
  <2> QED
    BY <1>1, <1>2, <2>1, <2>4 DEF ListedInv
<1>4. CASE q = p
  <2>1. /\ cmd[p] = "recover" /\ pc[p] \in {"list", "inspect"} /\ meta' = meta
        /\ \/ pc[p] = "inspect" /\ names'[p] \subseteq names[p]
           \/ names'[p] = {j \in Ids : meta[j] # "none"}
    BY <1>1, <1>2, <1>4, NamesMoves
  <2>2. CASE pc[p] = "inspect" /\ names'[p] \subseteq names[p]
    BY <1>1, <1>2, <1>4, <2>1, <2>2 DEF ListedInv
  <2>3. CASE names'[p] = {j \in Ids : meta[j] # "none"}
    <3>1. i \in Ids /\ meta[i] # "none"
      BY <1>2, <1>4, <2>3
    <3>2. \A o \in Procs : pc[o] \notin Beginning
      <4>1. ASSUME NEW o \in Procs, pc[o] \in Beginning PROVE FALSE
        <5>1. cmd[o] = "run" /\ Working(o)
          BY <1>1, <4>1 DEF PlaceInv, PlaceOf, Working, Beginning
        <5>2. Recovering(p) /\ p # o
          BY <2>1, <5>1 DEF Recovering
        <5> QED
          BY <1>1, <5>1, <5>2 DEF AloneInv
      <4> QED
        BY <4>1
    <3>3. meta[i] = "bare" => lock = i
      BY <1>1, <3>1 DEF LockGuards, Recorded
    <3> QED
      BY <1>1, <2>1, <3>1, <3>2, <3>3 DEF LeftInv
  <2> QED
    BY <2>1, <2>2, <2>3
<1> QED
  BY <1>3, <1>4

LEMMA AnswerStep ==
  ASSUME AcceptInv, NEW p \in Procs, Start(p) \/ Step(p) \/ Crash(p)
  PROVE  AnswerInv'
<1>1. TypeOK /\ PlaceOf(p) /\ MindOf(p) /\ AnswerInv
  BY DEF AcceptInv, Inv, PlaceInv
<1>2. ASSUME NEW q \in Procs, cmd'[q] = "recover" PROVE answer'[q] \notin Refusals
  <2>1. CASE q # p
    BY <1>1, <1>2, <2>1, OthersStay DEF AnswerInv
  <2>2. CASE q = p /\ answer'[p] \in Refusals
    <3>1. cmd[p] = "recover" /\ answer[p] \notin Refusals
      BY <1>1, <1>2, <2>2, AnswerMoves DEF AnswerInv
    <3>2. cmd'[p] = "recover"
      BY <1>2, <2>2
    <3>3. \/ answer'[p] = answer[p]
          \/ ReadLockFails(p) \/ InspectFails(p) \/ JudgeFails(p) \/ OpenRefused(p)
      BY <1>1, <2>2, <3>2, AnswerMoves
    <3>4. ~ReadLockFails(p) /\ ~InspectFails(p) /\ ~JudgeFails(p) /\ ~OpenRefused(p)
      BY <3>1, NotRefused
    <3> QED
      BY <2>2, <3>1, <3>3, <3>4
  <2> QED
    BY <2>1, <2>2
<1> QED
  BY <1>2 DEF AnswerInv

LEMMA AcceptStep ==
  ASSUME Tidy, AcceptInv, [Next]_vars
  PROVE  AcceptInv'
<1>1. Inv'
  BY InvStep DEF Tidy, AcceptInv
<1>2. RaceInv'
  BY RaceStep DEF AcceptInv
<1>3. CASE UNCHANGED vars
  <2>1. /\ lock' = lock /\ meta' = meta /\ log' = log /\ pc' = pc /\ cmd' = cmd /\ id' = id
        /\ answer' = answer /\ names' = names
    BY <1>3 DEF vars, disk, memory, reads
  <2>2. LeftInv' /\ ListedInv' /\ AnswerInv' /\ \A p \in Procs : MildOf(p)'
    BY <2>1 DEF AcceptInv, LeftInv, ListedInv, AnswerInv, MildOf
  <2> QED
    BY <1>1, <1>2, <2>2 DEF AcceptInv
<1>4. ASSUME NEW p \in Procs, Start(p) \/ Step(p) \/ Crash(p)
      PROVE  AcceptInv'
  BY <1>1, <1>2, <1>4, LeftStep, ListedStep, AnswerStep, MildStep DEF AcceptInv
<1> QED
  BY <1>3, <1>4 DEF Next

\* What a crash behind Begin leaves, recover accepts: it never sends the user to repair
\* the state directory by hand.
THEOREM AcceptCorrect ==
  ASSUME Tidy
  PROVE  Spec => []RecoverAccepts
<1>1. Init => AcceptInv
  <2>1. Init => LeftInv /\ ListedInv /\ AnswerInv
    BY LockValues DEF Init, LeftInv, ListedInv, AnswerInv
  <2>2. Init => \A p \in Procs : MildOf(p)
    BY DEF Init, MildOf
  <2> QED
    BY <2>1, <2>2, InvInit, RaceInit DEF AcceptInv
<1>2. AcceptInv /\ [Next]_vars => AcceptInv'
  BY AcceptStep
<1>3. AcceptInv => RecoverAccepts
  BY DEF AcceptInv, AnswerInv, RecoverAccepts, Answered
<1> QED
  BY <1>1, <1>2, <1>3, PTL DEF Spec
================================================================================
