-------------------------------- MODULE UndoStore ------------------------------
(***************************************************************************)
(* Several processes on one capability root: run, with its admission       *)
(* (Pending), Begin step by step and the rollback it starts by itself,     *)
(* recover and history, over active.lock, the transaction directories,     *)
(* their meta.json and their journals (src/internal/state,                 *)
(* src/internal/recovery).  What one transaction does between Begin and    *)
(* Release is UndoTxn's subject; here it is work that appends to its       *)
(* journal.                                                                *)
(*                                                                         *)
(* Disk: lock, meta, log and torn, the transactions whose files no         *)
(* recovery can classify.  Memory of a process, which a crash loses: pc,   *)
(* cmd, id, mem (Transaction.Meta), undoing (Recover found the journal     *)
(* open, so its errors go through fail), behind, seen, names and found.    *)
(***************************************************************************)
EXTENDS Naturals, FiniteSets

CONSTANTS
  Procs,        \* the processes
  MaxRuns,      \* how many run commands there are
  Exclusive,    \* recover runs alone: the operator's discipline, not the code's
  CrashAt,      \* where a process may be killed (values of pc)
  FaultAt,      \* where a call to the operating system may fail,
  UndoFaultAt,  \* ... and where it may in a recovery that undoes
  MaxCrashes, MaxFaults

ASSUME RunsAssumption ==
  /\ MaxRuns \in Nat /\ MaxCrashes \in Nat /\ MaxFaults \in Nat /\ Exclusive \in BOOLEAN

VARIABLES
  lock, meta, log, torn,
  pc, cmd, id, mem, undoing, seen, names, found, behind, answer,
  runs, crashes, faults

disk   == <<lock, meta, log, torn>>
reads  == <<seen, names, found>>
memory == <<cmd, id, mem, undoing, behind, answer>>
counts == <<runs, crashes, faults>>
vars   == <<disk, pc, memory, reads, counts>>

Ids   == 1..MaxRuns
None  == 0                 \* no transaction, no lock file
Blank == MaxRuns + 1       \* a lock file that is still empty

Admitting  == {"read lock", "list", "inspect", "judge"}
Beginning  == {"write lock", "make dir", "write meta", "create journal", "log begin",
               "drop dir", "drop lock"}
Finishing  == {"settle", "clean", "read owner", "unlink", "sync"}
Failing    == {"fail log", "spoil log", "fail meta"}
Appending  == {"work", "enter", "undo", "mark", "close", "fail log", "spoil log"}
Locations  == {"idle", "create lock", "open"}
                \cup Admitting \cup Beginning \cup Appending \cup Finishing \cup Failing
Commands   == {"run", "rollback", "recover", "history"}

\* meta: no directory, a directory without meta.json, or what meta.json says: a status
\* that is not terminal, COMMITTED or ROLLED_BACK, the same with BackupCleaned, and
\* BackupCleaned with a status that is no longer terminal.
Metas == {"none", "bare", "open", "decided", "cleaned", "reopened"}

Unresolved(m) == m \in {"open", "reopened"}
Ended(m)      == IF m \in {"cleaned", "reopened"} THEN "cleaned" ELSE "decided"
Unended(m)    == IF m \in {"cleaned", "reopened"} THEN "reopened" ELSE "open"

\* log: no file, no whole frame, TX_BEGIN, a terminal marker, unreadable.
Logs  == {"none", "empty", "open", "decided", "corrupt"}

\* Answers that send the user to repair the state directory by hand.
Refusals == {"lock unreadable", "coexists", "multiple", "invalid", "unreadable", "corrupt"}
Answers  == {"none", "committed", "recovered", "nothing", "listed", "required",
             "lock taken", "io error", "failed"} \cup Refusals

TypeOK ==
  /\ lock \in Ids \cup {None, Blank}
  /\ meta \in [Ids -> Metas]
  /\ log \in [Ids -> Logs]
  /\ torn \subseteq Ids
  /\ pc \in [Procs -> Locations]
  /\ cmd \in [Procs -> Commands]
  /\ id \in [Procs -> Ids \cup {None}]
  /\ mem \in [Procs -> Metas]
  /\ undoing \in [Procs -> BOOLEAN]
  /\ seen \in [Procs -> Ids \cup {None}]
  /\ names \in [Procs -> SUBSET Ids]
  /\ found \in [Procs -> SUBSET Ids]
  /\ behind \in [Procs -> BOOLEAN]
  /\ answer \in [Procs -> Answers]
  /\ runs \in Nat /\ crashes \in Nat /\ faults \in Nat

Init ==
  /\ lock = None
  /\ meta = [i \in Ids |-> "none"]
  /\ log = [i \in Ids |-> "none"]
  /\ torn = {}
  /\ pc = [p \in Procs |-> "idle"]
  /\ cmd = [p \in Procs |-> "history"]
  /\ id = [p \in Procs |-> None]
  /\ mem = [p \in Procs |-> "none"]
  /\ undoing = [p \in Procs |-> FALSE]
  /\ seen = [p \in Procs |-> None]
  /\ names = [p \in Procs |-> {}]
  /\ found = [p \in Procs |-> {}]
  /\ behind = [p \in Procs |-> FALSE]
  /\ answer = [p \in Procs |-> "none"]
  /\ runs = 0 /\ crashes = 0 /\ faults = 0

--------------------------------------------------------------------------------
(* Helpers.                                                                 *)

Goto(p, l) == pc' = [pc EXCEPT ![p] = l]

\* The memory of a command is gone (behind means nothing without a journal).
Forget(p) ==
  /\ Goto(p, "idle")
  /\ id' = [id EXCEPT ![p] = None]
  /\ mem' = [mem EXCEPT ![p] = "none"]
  /\ undoing' = [undoing EXCEPT ![p] = FALSE]
  /\ seen' = [seen EXCEPT ![p] = None]
  /\ names' = [names EXCEPT ![p] = {}]
  /\ found' = [found EXCEPT ![p] = {}]

Stop(p, a) == Forget(p) /\ answer' = [answer EXCEPT ![p] = a] /\ UNCHANGED cmd
End(p, a)  == Stop(p, a) /\ UNCHANGED behind

\* The others that have the journal of p's transaction open: their offset and their
\* count of frames are no longer those of the file.
PassBy(p) == behind' = [q \in Procs |-> behind[q] \/ (q # p /\ id[q] = id[p])]

\* What a frame that means s makes of the journal.  Nothing, of a file that was removed.
\* The file is not opened with O_APPEND: an appender that is behind writes over the
\* frames of the others, with the number they have, and what can be read afterwards
\* depends on their lengths.
Frames(p, s) ==
  IF log[id[p]] = "none" THEN {"none"}
  ELSE IF behind[p] THEN {log[id[p]], s, "corrupt"}
  ELSE {s}

Append(p, s) ==
  /\ \E f \in Frames(p, s) : log' = [log EXCEPT ![id[p]] = f]
  /\ PassBy(p)

\* Part of a frame is in the file: a torn tail, which the next to open the journal cuts
\* off, unless it covers frames or follows another tail.
Tear(p) ==
  /\ \E f \in {log[id[p]]} \cup Frames(p, "corrupt") :
       /\ f # log[id[p]] => behind[p] \/ pc[p] = "spoil log"
       /\ log' = [log EXCEPT ![id[p]] = f]
  /\ PassBy(p)

\* A failed append: nothing of the frame is in the file, or a part of it, or all.
Leaves(p, s) == Append(p, s) \/ Tear(p)

SetLock(v)    == lock' = v
SetLog(p, s)  == log' = [log EXCEPT ![id[p]] = s]
SetMeta(p, s) == meta' = [meta EXCEPT ![id[p]] = s]

\* writeAtomic of meta.json, which needs the directory.
Missing(p) == meta[id[p]] = "none"
Save(p, m) == ~Missing(p) /\ SetMeta(p, m)

Fault(p) ==
  /\ pc[p] \in (IF undoing[p] THEN UndoFaultAt ELSE FaultAt)
  /\ faults < MaxFaults /\ faults' = faults + 1

\* A call in the directory of the transaction fails.
Fails(p) == IF Missing(p) THEN UNCHANGED faults ELSE Fault(p)

\* Where a process writes to its transaction and to the user's files.
Writing == {"work", "enter", "undo", "mark", "close", "settle", "clean"} \cup Failing

\* The unfinished processes that change the root.
Working(p) == pc[p] # "idle" /\ cmd[p] \in {"run", "rollback"}
Recovering(p) == pc[p] # "idle" /\ cmd[p] = "recover"

--------------------------------------------------------------------------------
(* Commands start.                                                          *)

StartRun(p) ==
  /\ pc[p] = "idle" /\ runs < MaxRuns
  /\ Exclusive => \A q \in Procs : ~Recovering(q)
  /\ Goto(p, "read lock")
  /\ cmd' = [cmd EXCEPT ![p] = "run"]
  /\ answer' = [answer EXCEPT ![p] = "none"]
  /\ id' = [id EXCEPT ![p] = runs + 1]
  /\ runs' = runs + 1
  /\ UNCHANGED <<disk, mem, undoing, reads, behind, crashes, faults>>

StartRecover(p) ==
  /\ pc[p] = "idle"
  /\ Exclusive => \A q \in Procs : ~Working(q) /\ ~Recovering(q)
  /\ Goto(p, "read lock")
  /\ cmd' = [cmd EXCEPT ![p] = "recover"]
  /\ answer' = [answer EXCEPT ![p] = "none"]
  /\ UNCHANGED <<disk, id, mem, undoing, reads, behind, counts>>

StartHistory(p) ==
  /\ pc[p] = "idle"
  /\ Goto(p, "list")
  /\ cmd' = [cmd EXCEPT ![p] = "history"]
  /\ answer' = [answer EXCEPT ![p] = "none"]
  /\ UNCHANGED <<disk, id, mem, undoing, reads, behind, counts>>

--------------------------------------------------------------------------------
(* Pending: the lock, the list of directories and each meta.json are read   *)
(* one after the other, while other processes go on.                        *)

\* Mutant: a lock that cannot be parsed is as good as any.
ReadLockAny(p) ==
  /\ pc[p] = "read lock"
  /\ seen' = [seen EXCEPT ![p] = lock]
  /\ Goto(p, "list")
  /\ UNCHANGED <<disk, memory, names, found, counts>>

ReadLock(p) ==
  /\ pc[p] = "read lock"
  /\ lock # Blank
  /\ seen' = [seen EXCEPT ![p] = lock]
  /\ Goto(p, "list")
  /\ UNCHANGED <<disk, memory, names, found, counts>>

ReadLockFails(p) ==
  /\ pc[p] = "read lock"
  /\ lock = Blank
  /\ End(p, IF cmd[p] = "rollback" THEN "failed" ELSE "lock unreadable")
  /\ UNCHANGED <<disk, counts>>

List(p) ==
  /\ pc[p] = "list"
  /\ names' = [names EXCEPT ![p] = {i \in Ids : meta[i] # "none"}]
  /\ Goto(p, "inspect")
  /\ UNCHANGED <<disk, memory, seen, found, counts>>

\* Mutant: transactions that are over count as unresolved.
InspectTerminal(p) ==
  /\ pc[p] = "inspect"
  /\ \E i \in names[p] :
       /\ \A j \in names[p] : i <= j
       /\ meta[i] \notin {"none", "bare"}
       /\ names' = [names EXCEPT ![p] = @ \ {i}]
       /\ found' = [found EXCEPT ![p] = @ \cup {i}]
  /\ UNCHANGED <<disk, pc, memory, seen, counts>>

\* The names are in the order of their creation.
Inspect(p) ==
  /\ pc[p] = "inspect"
  /\ \E i \in names[p] :
       /\ \A j \in names[p] : i <= j
       /\ meta[i] \notin {"none", "bare"}
       /\ names' = [names EXCEPT ![p] = @ \ {i}]
       /\ found' = [found EXCEPT ![p] = IF Unresolved(meta[i]) THEN @ \cup {i} ELSE @]
  /\ UNCHANGED <<disk, pc, memory, seen, counts>>

InspectFails(p) ==
  /\ pc[p] = "inspect"
  /\ \E i \in names[p] :
       /\ \A j \in names[p] : i <= j
       /\ meta[i] \in {"none", "bare"}
  /\ End(p, IF cmd[p] = "rollback" THEN "failed" ELSE "unreadable")
  /\ UNCHANGED <<disk, counts>>

Inspected(p) ==
  /\ pc[p] = "inspect" /\ names[p] = {} /\ cmd[p] # "history"
  /\ Goto(p, "judge")
  /\ UNCHANGED <<disk, memory, reads, counts>>

Listed(p) ==
  /\ pc[p] = "inspect" /\ names[p] = {} /\ cmd[p] = "history"
  /\ End(p, "listed")
  /\ UNCHANGED <<disk, counts>>

\* What Pending answers: a refusal, or the transaction that is pending.
Refusal(p) ==
  IF seen[p] # None
  THEN IF ~(found[p] \subseteq {seen[p]}) THEN "coexists"
       ELSE IF meta[seen[p]] \in {"none", "bare"} THEN "invalid"
       ELSE "none"
  ELSE IF Cardinality(found[p]) > 1 THEN "multiple"
  ELSE "none"

Pending(p) ==
  IF seen[p] # None THEN {seen[p]} ELSE found[p]

JudgeFails(p) ==
  /\ pc[p] = "judge"
  /\ Refusal(p) # "none"
  /\ End(p, IF cmd[p] = "rollback" THEN "failed" ELSE Refusal(p))
  /\ UNCHANGED <<disk, counts>>

\* A run is admitted and Begin starts.
Admit(p) ==
  /\ pc[p] = "judge" /\ cmd[p] = "run"
  /\ Refusal(p) = "none" /\ Pending(p) = {}
  /\ Goto(p, "create lock")
  /\ seen' = [seen EXCEPT ![p] = None]
  /\ UNCHANGED <<disk, memory, names, found, counts>>

\* E_RECOVERY_REQUIRED.
Block(p) ==
  /\ pc[p] = "judge" /\ cmd[p] = "run"
  /\ Refusal(p) = "none" /\ Pending(p) # {}
  /\ End(p, "required")
  /\ UNCHANGED <<disk, counts>>

\* RecoverRoot finds nothing to do; the rollback of a run calls that rolled back.
NothingPending(p) ==
  /\ pc[p] = "judge" /\ cmd[p] \in {"rollback", "recover"}
  /\ Refusal(p) = "none" /\ Pending(p) = {}
  /\ End(p, IF cmd[p] = "rollback" THEN "recovered" ELSE "nothing")
  /\ UNCHANGED <<disk, counts>>

Take(p) ==
  /\ pc[p] = "judge" /\ cmd[p] \in {"rollback", "recover"}
  /\ Refusal(p) = "none"
  /\ \E i \in Pending(p) : id' = [id EXCEPT ![p] = i]
  /\ Goto(p, "open")
  /\ seen' = [seen EXCEPT ![p] = None]
  /\ found' = [found EXCEPT ![p] = {}]
  /\ UNCHANGED <<disk, cmd, mem, undoing, behind, answer, names, counts>>

--------------------------------------------------------------------------------
(* Begin.                                                                   *)

\* Mutant: the lock is opened without O_EXCL.
CreateLockShared(p) ==
  /\ pc[p] = "create lock"
  /\ SetLock(Blank)
  /\ Goto(p, "write lock")
  /\ UNCHANGED <<meta, log, torn, memory, reads, counts>>

CreateLock(p) ==
  /\ pc[p] = "create lock"
  /\ lock = None
  /\ SetLock(Blank)
  /\ Goto(p, "write lock")
  /\ UNCHANGED <<meta, log, torn, memory, reads, counts>>

\* O_EXCL finds the lock of another process.
LockTaken(p) ==
  /\ pc[p] = "create lock"
  /\ lock # None
  /\ End(p, "lock taken")
  /\ UNCHANGED <<disk, counts>>

CreateLockFails(p) ==
  /\ pc[p] = "create lock"
  /\ Fault(p)
  /\ End(p, "io error")
  /\ UNCHANGED <<disk, runs, crashes>>

WriteLock(p) ==
  /\ pc[p] = "write lock"
  /\ SetLock(id[p])
  /\ Goto(p, "make dir")
  /\ UNCHANGED <<meta, log, torn, memory, reads, counts>>

MakeDir(p) ==
  /\ pc[p] = "make dir"
  /\ SetMeta(p, "bare")
  /\ Goto(p, "write meta")
  /\ UNCHANGED <<lock, log, torn, memory, reads, counts>>

WriteMeta(p) ==
  /\ pc[p] = "write meta"
  /\ Save(p, "open")
  /\ mem' = [mem EXCEPT ![p] = "open"]
  /\ Goto(p, "create journal")
  /\ UNCHANGED <<lock, log, torn, cmd, id, undoing, behind, answer, reads, counts>>

CreateJournal(p) ==
  /\ pc[p] = "create journal"
  /\ SetLog(p, "empty")
  /\ behind' = [behind EXCEPT ![p] = FALSE]
  /\ Goto(p, "log begin")
  /\ UNCHANGED <<lock, meta, torn, cmd, id, mem, undoing, answer, reads, counts>>

LogBegin(p) ==
  /\ pc[p] = "log begin"
  /\ Append(p, "open")
  /\ Goto(p, "work")
  /\ UNCHANGED <<lock, meta, torn, cmd, id, mem, undoing, answer, reads, counts>>

\* A call of Begin fails, before or after its effect; the deferred cleanup follows.
WriteLockFails(p) ==
  /\ pc[p] = "write lock"
  /\ Fault(p)
  /\ \E v \in {lock, id[p]} : SetLock(v)
  /\ Goto(p, "drop lock")
  /\ UNCHANGED <<meta, log, torn, memory, reads, runs, crashes>>

MakeDirFails(p) ==
  /\ pc[p] = "make dir"
  /\ Fault(p)
  /\ \E s \in {meta[id[p]], "bare"} : SetMeta(p, s)
  /\ Goto(p, "drop dir")
  /\ UNCHANGED <<lock, log, torn, memory, reads, runs, crashes>>

WriteMetaFails(p) ==
  /\ pc[p] = "write meta"
  /\ Fault(p)
  /\ \E s \in {meta[id[p]], "open"} : SetMeta(p, s)
  /\ Goto(p, "drop dir")
  /\ UNCHANGED <<lock, log, torn, memory, reads, runs, crashes>>

JournalFails(p) ==
  /\ pc[p] \in {"create journal", "log begin"}
  /\ Fault(p)
  /\ \E s \in {log[id[p]], IF pc[p] = "log begin" THEN "open" ELSE "empty"} : SetLog(p, s)
  /\ Goto(p, "drop dir")
  /\ UNCHANGED <<lock, meta, torn, memory, reads, runs, crashes>>

\* RemoveAll, which a kill may cut in two and another process may undo.
DropPart(p) ==
  /\ pc[p] = "drop dir"
  /\ \/ meta[id[p]] \notin {"none", "bare"} /\ SetMeta(p, "bare") /\ UNCHANGED log
     \/ log[id[p]] # "none" /\ SetLog(p, "none") /\ UNCHANGED meta
  /\ UNCHANGED <<lock, torn, pc, memory, reads, counts>>

\* Mutant: the cleanup leaves the directory behind.
DropDirKept(p) ==
  /\ pc[p] = "drop dir"
  /\ Goto(p, "drop lock")
  /\ UNCHANGED <<disk, memory, reads, counts>>

DropDir(p) ==
  /\ pc[p] = "drop dir"
  /\ meta[id[p]] \in {"none", "bare"} /\ log[id[p]] = "none"
  /\ SetMeta(p, "none")
  /\ Goto(p, "drop lock")
  /\ UNCHANGED <<lock, log, torn, memory, reads, counts>>

DropLock(p) ==
  /\ pc[p] = "drop lock"
  /\ SetLock(None)
  /\ End(p, "io error")
  /\ UNCHANGED <<meta, log, torn, counts>>

\* Somebody else still writes in the directory, so that it cannot be removed.
Crowded(p) == \E q \in Procs : q # p /\ id[q] = id[p] /\ pc[q] \in Writing

\* Errors of the cleanup are ignored.
DropDirFails(p) ==
  /\ pc[p] = "drop dir"
  /\ Fault(p) \/ (Crowded(p) /\ UNCHANGED faults)
  /\ Goto(p, "drop lock")
  /\ UNCHANGED <<disk, memory, reads, runs, crashes>>

DropLockFails(p) ==
  /\ pc[p] = "drop lock"
  /\ Fault(p)
  /\ End(p, "io error")
  /\ UNCHANGED <<disk, runs, crashes>>

--------------------------------------------------------------------------------
(* Execute, after Begin, and Recover.                                       *)

\* A frame; that of a new state is followed by meta.json.
Work(p) ==
  /\ pc[p] = "work"
  /\ Append(p, "open")
  /\ UNCHANGED meta \/ Save(p, mem[p])
  /\ UNCHANGED <<lock, torn, pc, cmd, id, mem, undoing, answer, reads, counts>>

\* Every operation is applied and every assertion holds: TX_COMMIT is due.
WorkDone(p) ==
  /\ pc[p] = "work"
  /\ Goto(p, "mark")
  /\ UNCHANGED <<disk, memory, reads, counts>>

\* Mutant: a failed Execute gives its lock back before it rolls back.
WorkFailsUnlocked(p) ==
  /\ pc[p] = "work"
  /\ Goto(p, "read lock")
  /\ SetLock(None)
  /\ cmd' = [cmd EXCEPT ![p] = "rollback"]
  /\ UNCHANGED <<meta, log, torn, id, mem, undoing, behind, answer, reads, counts>>

\* A verdict of the plan, an operation or an assertion: Execute closes its journal
\* and recovers the root by itself.
WorkFails(p) ==
  /\ pc[p] = "work"
  /\ Goto(p, "read lock")
  /\ cmd' = [cmd EXCEPT ![p] = "rollback"]
  /\ UNCHANGED <<disk, id, mem, undoing, behind, answer, reads, counts>>

\* Mutant: a journal that is still empty is as good as any.
ReadableEmpty(p) == log[id[p]] \in {"empty", "open", "decided"}

\* The journal has a TX_BEGIN at least.
Readable(p) == log[id[p]] \in {"open", "decided"}

\* The torn tail that is cut off may be a frame that another process is writing.
Open(p) ==
  /\ pc[p] = "open"
  /\ meta[id[p]] \notin {"none", "bare"} /\ Readable(p)
  /\ LET decided == log[id[p]] = "decided"
         m == meta[id[p]]
     IN /\ Goto(p, IF decided THEN "settle" ELSE "enter")
        /\ mem' = [mem EXCEPT ![p] = IF decided THEN Ended(m) ELSE Unended(m)]
        /\ undoing' = [undoing EXCEPT ![p] = ~decided]
  /\ \E cut \in BOOLEAN :
       behind' = [q \in Procs |-> q # p /\ (behind[q] \/ (cut /\ id[q] = id[p]))]
  /\ UNCHANGED <<disk, cmd, id, answer, reads, counts>>

OpenRefused(p) ==
  /\ pc[p] = "open"
  /\ meta[id[p]] \in {"none", "bare"} \/ ~Readable(p)
  /\ End(p, IF cmd[p] = "rollback" THEN "failed"
            ELSE IF meta[id[p]] \in {"none", "bare"} \/ log[id[p]] = "none" THEN "invalid"
            ELSE "corrupt")
  /\ UNCHANGED <<disk, counts>>

OpenFails(p) ==
  /\ pc[p] = "open"
  /\ Fault(p)
  /\ End(p, "failed")
  /\ UNCHANGED <<disk, runs, crashes>>

\* The status of the journal into meta.json, and ROLLING_BACK unless that is it.
Enter(p) ==
  /\ pc[p] = "enter"
  /\ Save(p, mem[p])
  /\ UNCHANGED <<log, behind>> \/ Append(p, "open")
  /\ Goto(p, "undo")
  /\ UNCHANGED <<lock, torn, cmd, id, mem, undoing, answer, reads, counts>>

\* ReconcileStatus fails, in ROLLING_BACK or before; or the Transition, without fail.
EnterFails(p) ==
  /\ pc[p] = "enter"
  /\ Fails(p)
  /\ \/ /\ UNCHANGED meta \/ Save(p, mem[p])
        /\ Goto(p, "fail log") \/ Goto(p, "fail meta")
        /\ UNCHANGED <<log, behind, id, mem, undoing, answer, cmd, reads>>
     \/ /\ Save(p, mem[p])
        /\ UNCHANGED <<log, behind>> \/ Leaves(p, "open")
        /\ Stop(p, "failed")
  /\ UNCHANGED <<lock, torn, runs, crashes>>

\* Inverse operations and their records.
Undo(p) ==
  /\ pc[p] = "undo"
  /\ Append(p, "open")
  /\ UNCHANGED <<lock, meta, torn, pc, cmd, id, mem, undoing, answer, reads, counts>>

\* Mutant: the metadata is settled before the marker is written.
UndoDoneEager(p) ==
  /\ pc[p] = "undo"
  /\ SetMeta(p, "decided")
  /\ Goto(p, "mark")
  /\ UNCHANGED <<lock, log, torn, memory, reads, counts>>

UndoDone(p) ==
  /\ pc[p] = "undo"
  /\ id[p] \notin torn
  /\ Goto(p, "mark")
  /\ UNCHANGED <<disk, memory, reads, counts>>

\* The files are neither as before nor as after an operation, and stay so.
UndoRefused(p) ==
  /\ pc[p] = "undo"
  /\ torn' = torn \cup {id[p]}
  /\ Goto(p, "fail log")
  /\ UNCHANGED <<lock, meta, log, memory, reads, counts>>

UndoFails(p) ==
  /\ pc[p] = "undo"
  /\ Fails(p)
  /\ Goto(p, "fail log")
  /\ UNCHANGED <<disk, memory, reads, runs, crashes>>

\* TX_COMMIT or TX_ROLLBACK_COMPLETE.
Mark(p) ==
  /\ pc[p] = "mark"
  /\ Append(p, "decided")
  /\ Goto(p, "close")
  /\ UNCHANGED <<lock, meta, torn, cmd, id, mem, undoing, answer, reads, counts>>

\* The frame of COMMITTED or ROLLED_BACK behind it.
Close(p) ==
  /\ pc[p] = "close"
  /\ Append(p, "decided")
  /\ mem' = [mem EXCEPT ![p] = Ended(@)]
  /\ Goto(p, "settle")
  /\ UNCHANGED <<lock, meta, torn, cmd, id, undoing, answer, reads, counts>>

Outcome(p) == IF cmd[p] = "run" THEN "committed" ELSE "recovered"
Failure(p) == IF cmd[p] = "run" THEN "required" ELSE "failed"

\* An append fails.  A run ends there, or rolls back where only a state was lost; a
\* recovery goes on with fail, behind what the failed append has left.
AppendFails(p) ==
  /\ pc[p] \in {"work", "undo", "mark", "close"}
  /\ Fault(p)
  /\ LET state == IF pc[p] \in {"mark", "close"} THEN "decided" ELSE "open"
         kept  == UNCHANGED <<log, behind>>
     IN \/ ~undoing[p] /\ (kept \/ Leaves(p, state)) /\ Stop(p, Failure(p))
        \/ /\ pc[p] = "work"
           /\ kept \/ Leaves(p, state)
           /\ Goto(p, "read lock")
           /\ cmd' = [cmd EXCEPT ![p] = "rollback"]
           /\ UNCHANGED <<id, mem, undoing, answer, reads>>
        \/ /\ undoing[p]
           /\ \/ kept /\ Goto(p, "fail log")
              \/ Leaves(p, state) /\ Goto(p, "spoil log")
           /\ UNCHANGED <<cmd, id, mem, undoing, answer, reads>>
  /\ UNCHANGED <<lock, meta, torn, runs, crashes>>

\* Mutant: the lock is released before the backups are cleaned.
SettleUncleaned(p) ==
  /\ pc[p] = "settle"
  /\ Save(p, mem[p])
  /\ Goto(p, "read owner")
  /\ UNCHANGED <<lock, log, torn, memory, reads, counts>>

\* Recover does not clean again what was cleaned when it read meta.json and the marker.
Settle(p) ==
  /\ pc[p] = "settle"
  /\ Save(p, mem[p])
  /\ Goto(p, IF cmd[p] # "run" /\ ~undoing[p] /\ mem[p] = "cleaned"
             THEN "read owner" ELSE "clean")
  /\ UNCHANGED <<lock, log, torn, memory, reads, counts>>

Clean(p) ==
  /\ pc[p] = "clean"
  /\ Save(p, "cleaned")
  /\ mem' = [mem EXCEPT ![p] = "cleaned"]
  /\ Goto(p, "read owner")
  /\ UNCHANGED <<lock, log, torn, cmd, id, undoing, behind, answer, reads, counts>>

\* After an error a recovery that has undone calls fail, with m in memory; a run, or a
\* recovery that found the marker, writes nothing more.
Ends(p, m) ==
  \/ /\ undoing[p]
     /\ Goto(p, "fail meta")
     /\ mem' = [mem EXCEPT ![p] = m]
     /\ UNCHANGED <<cmd, id, undoing, behind, answer, reads>>
  \/ ~undoing[p] /\ End(p, Failure(p))

SettleFails(p) ==
  /\ pc[p] = "settle"
  /\ Fails(p)
  /\ UNCHANGED meta \/ Save(p, mem[p])
  /\ Ends(p, mem[p])
  /\ UNCHANGED <<lock, log, torn, runs, crashes>>

\* The backups are not removed; or the metadata is not written, or it is.
CleanFails(p) ==
  /\ pc[p] = "clean"
  /\ Fails(p)
  /\ \/ UNCHANGED meta /\ Ends(p, mem[p])
     \/ (UNCHANGED meta \/ Save(p, "cleaned")) /\ Ends(p, "cleaned")
  /\ UNCHANGED <<lock, log, torn, runs, crashes>>

--------------------------------------------------------------------------------
(* Release.                                                                 *)

\* Mutant: Release believes that somebody else removes the lock.
ReadOwnerOnly(p) ==
  /\ pc[p] = "read owner"
  /\ End(p, Outcome(p))
  /\ UNCHANGED <<disk, counts>>

\* The lock is read ...
ReadOwner(p) ==
  /\ pc[p] = "read owner"
  /\ lock = id[p]
  /\ Goto(p, "unlink")
  /\ UNCHANGED <<disk, memory, reads, counts>>

\* ... which may be gone, or another's, or still empty ...
NotOwner(p) ==
  /\ pc[p] = "read owner"
  /\ lock # id[p]
  /\ \/ lock = None /\ Goto(p, "sync") /\ UNCHANGED <<memory, reads>>
     \/ lock # None /\ Ends(p, mem[p])
  /\ UNCHANGED <<disk, counts>>

\* ... and removed by its name, whoever owns it by now.
Unlink(p) ==
  /\ pc[p] = "unlink"
  /\ lock # None
  /\ SetLock(None)
  /\ Goto(p, "sync")
  /\ UNCHANGED <<meta, log, torn, memory, reads, counts>>

UnlinkGone(p) ==
  /\ pc[p] = "unlink"
  /\ lock = None
  /\ Ends(p, mem[p])
  /\ UNCHANGED <<disk, counts>>

Sync(p) ==
  /\ pc[p] = "sync"
  /\ End(p, Outcome(p))
  /\ UNCHANGED <<disk, counts>>

ReleaseFails(p) ==
  /\ pc[p] \in {"read owner", "unlink", "sync"}
  /\ Fault(p)
  /\ Ends(p, mem[p])
  /\ UNCHANGED <<disk, runs, crashes>>

--------------------------------------------------------------------------------
(* fail: RECOVERY_FAILED.                                                   *)

\* In ROLLING_BACK it is appended first.  Decode refuses it behind a marker.
FailLog(p) ==
  /\ pc[p] = "fail log"
  /\ Append(p, IF log[id[p]] = "decided" /\ ~behind[p] THEN "corrupt" ELSE "open")
  /\ Goto(p, "fail meta")
  /\ UNCHANGED <<lock, meta, torn, cmd, id, mem, undoing, answer, reads, counts>>

\* Behind the remains of a failed append it makes the journal unreadable, or it passes
\* for the rest of a torn frame.
SpoilLog(p) ==
  /\ pc[p] = "spoil log"
  /\ Append(p, "corrupt") \/ (PassBy(p) /\ UNCHANGED log)
  /\ Goto(p, "fail meta")
  /\ UNCHANGED <<lock, meta, torn, cmd, id, mem, undoing, answer, reads, counts>>

\* ... and written to meta.json.
FailMeta(p) ==
  /\ pc[p] = "fail meta"
  /\ IF Missing(p) THEN UNCHANGED meta ELSE Save(p, Unended(mem[p]))
  /\ End(p, "failed")
  /\ UNCHANGED <<lock, log, torn, counts>>

\* Errors of fail are ignored; after that of the append nothing is written.
FailFails(p) ==
  /\ pc[p] \in Failing
  /\ Fault(p)
  /\ UNCHANGED <<log, behind>> \/ (pc[p] # "fail meta" /\ Tear(p))
  /\ Stop(p, "failed")
  /\ UNCHANGED <<lock, meta, torn, runs, crashes>>

--------------------------------------------------------------------------------

\* A kill, which may cut an append short.
Crash(p) ==
  /\ pc[p] \in CrashAt \ {"idle"} /\ crashes < MaxCrashes
  /\ crashes' = crashes + 1
  /\ Forget(p)
  /\ \/ UNCHANGED <<log, behind>>
     \/ pc[p] \in Appending /\ Tear(p)
  /\ UNCHANGED <<lock, meta, torn, cmd, answer, runs, faults>>

Start(p)  == StartRun(p) \/ StartRecover(p) \/ StartHistory(p)

Look(p)   == \/ ReadLock(p) \/ ReadLockFails(p) \/ List(p) \/ Inspect(p)
             \/ InspectFails(p) \/ Inspected(p) \/ Listed(p) \/ JudgeFails(p)
             \/ Admit(p) \/ Block(p) \/ NothingPending(p) \/ Take(p)

Begin(p)  == \/ CreateLock(p) \/ LockTaken(p) \/ CreateLockFails(p) \/ WriteLock(p)
             \/ WriteLockFails(p) \/ MakeDir(p) \/ MakeDirFails(p) \/ WriteMeta(p)
             \/ WriteMetaFails(p) \/ CreateJournal(p) \/ LogBegin(p) \/ JournalFails(p)
             \/ DropPart(p) \/ DropDir(p) \/ DropLock(p) \/ DropDirFails(p)
             \/ DropLockFails(p)

Execute(p) == \/ Work(p) \/ WorkDone(p) \/ WorkFails(p) \/ Open(p) \/ OpenRefused(p)
              \/ OpenFails(p) \/ Enter(p) \/ EnterFails(p) \/ Undo(p) \/ UndoDone(p)
              \/ UndoRefused(p) \/ UndoFails(p) \/ AppendFails(p) \/ Mark(p) \/ Close(p)
              \/ Settle(p) \/ SettleFails(p) \/ Clean(p) \/ CleanFails(p)

Release(p) == \/ ReadOwner(p) \/ NotOwner(p) \/ Unlink(p) \/ UnlinkGone(p) \/ Sync(p)
              \/ ReleaseFails(p)

Fail(p)    == FailLog(p) \/ SpoilLog(p) \/ FailMeta(p) \/ FailFails(p)

Step(p) == Look(p) \/ Begin(p) \/ Execute(p) \/ Release(p) \/ Fail(p)

Next == \E p \in Procs : Start(p) \/ Step(p) \/ Crash(p)

Spec == Init /\ [][Next]_vars

\* A process that can go on does so; it may not work or undo for ever; and somebody
\* runs recover whenever that is again and again possible.
Advance(p) == pc[p] \in {"work", "undo"} /\ Step(p) /\ pc'[p] # pc[p]

FairSpec == /\ Spec
            /\ \A p \in Procs : WF_vars(Step(p)) /\ WF_vars(Advance(p))
            /\ SF_vars(\E p \in Procs : StartRecover(p))

--------------------------------------------------------------------------------
(* Properties.                                                              *)

\* A transaction with a record on disk that is not settled yet.
Active(i) == meta[i] \in {"open", "decided", "reopened"} \/ log[i] = "open"

\* ... or of which a failed or killed Begin has left anything.
Recorded(i) == Active(i) \/ meta[i] = "bare"

\* An unsettled transaction is named by the lock, at every moment of Begin, its
\* cleanup, Recover and Release, whatever was killed before: the next run cannot
\* miss it (state.go, BeginWithOptions and Release; recovery.go, Pending).
LockGuards == \A i \in Ids : Recorded(i) => lock = i

\* Whoever writes to a transaction, fail included, owns the lock and is the only one that has
\* appended to its journal since it read it (recovery.go, Recover has no other
\* protection against a process that still runs).
WriterOwns ==
  \A p \in Procs : pc[p] \in Writing => lock = id[p] /\ ~behind[p]

\* No two processes are inside a transaction, or about to remove the lock of one.
OneWriter ==
  \A p, q \in Procs :
    pc[p] \in Writing \cup {"unlink"} /\ pc[q] \in Writing \cup {"unlink"} => p = q

\* At most one transaction of the root is unsettled, or settled and about to be
\* released: the lock implements SerialRoot.  What fail writes before the unlink takes no
\* settlement back (recovery.go, fail).
Serial ==
  INSTANCE SerialRoot WITH active <- {i \in Ids : Active(i) \/ (meta[i] = "cleaned" /\ lock = i)}
OneTransaction == Serial!Spec

\* The rollback that a failed Execute starts asks Pending which transaction to roll
\* back: it is always its own (txn.go, rollbackFailure).
OwnRollback ==
  [][\A p \in Procs : /\ pc[p] = "judge" /\ cmd[p] = "rollback" /\ pc'[p] # "judge"
                      /\ crashes' = crashes
                      => pc'[p] = "open" /\ id'[p] = id[p]]_vars

\* What a crash leaves, recover accepts: it never sends the user to inspect or repair
\* the state directory by hand (recovery.go, Pending and Recover; state.go, Begin).
Answered(p, c) == pc[p] = "idle" /\ cmd[p] = c
RecoverAccepts == \A p \in Procs : Answered(p, "recover") => answer[p] \notin Refusals

\* history can be read at any time (state.go, History).
HistoryAnswers == \A p \in Procs : Answered(p, "history") => answer[p] # "unreadable"

\* Nobody is told of a second unresolved transaction where there is none
\* (recovery.go, Pending).
AlarmIsTrue == \A p \in Procs : answer[p] # "coexists"

\* A transaction that is not decided in its journal is visible as unresolved in its
\* directory, so every later Pending stops at it even if its lock is lost
\* (state.go, Transition writes the journal before the metadata; recovery.go, Pending).
OpenIsVisible == \A i \in Ids : log[i] = "open" => Unresolved(meta[i]) \/ meta[i] = "bare"

\* Even when recover runs beside a run that it can see from its lock and its metadata,
\* nobody else is inside a transaction before its TX_BEGIN is written: an empty journal
\* keeps recover out (state.go, BeginWithOptions; journal.go, Decode).
Unbegun == {"write lock", "make dir", "write meta", "create journal", "log begin"}
BeginIsAlone ==
  \A p, q \in Procs :
    p # q /\ pc[p] \in Unbegun /\ id[q] = id[p] => pc[q] \notin Writing \cup Finishing

\* A lock that was left is removed in the end, but for that of a transaction whose files
\* no recovery can classify (state.go, Release; recovery.go, Recover).
RootIsFreed == lock # None ~> (lock = None \/ lock \in torn)

================================================================================
