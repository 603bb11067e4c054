-------------------------------- MODULE UndoTxn --------------------------------
(***************************************************************************)
(* One transaction of one capability root, from the lock to its release:   *)
(* Execute (src/internal/txn), the rollback that Execute starts and the    *)
(* recover command runs (src/internal/recovery), over the durable store    *)
(* (src/internal/state), the journal and the file operation engine.        *)
(*                                                                         *)
(* Disk: fs, tmp and bak are the files, the engine's temporaries and its   *)
(* backups; jrn, tail and prep the journal (what Decode makes of it,       *)
(* whether an incomplete frame follows, the descriptors of its             *)
(* OP_PREPARED frames); meta and lock are meta.json and active.lock.       *)
(* Memory: pc and the variables of work and ctl.  A crash loses them.      *)
(***************************************************************************)
EXTENDS UndoJournal, UndoEngine

CONSTANTS
  Cases,       \* the scripts and initial file systems: [script, fs] records
  MaxOps,      \* the longest script
  Assertions,  \* the number of postconditions of the transaction
  CrashAt,     \* where the process may be killed (values of pc)
  FaultAt,     \* where a call to the operating system may fail
  MaxCrashes, MaxFaults

ASSUME BoundsAssumption ==
  /\ MaxOps \in Nat /\ Assertions \in Nat /\ MaxCrashes \in Nat /\ MaxFaults \in Nat
  /\ \A c \in Cases : /\ c.script \in Seq(Operations) /\ Len(c.script) <= MaxOps
                      /\ c.fs \in [Paths -> Entries]

VARIABLES
  fs, tmp, bak,
  jrn, tail, prep,
  meta, lock,
  pc, to, mem, mode, stale, result,
  cur, side, todo,
  script, origin, crashes, faults

files == <<fs, tmp, bak>>
log   == <<jrn, tail, prep>>
store == <<meta, lock>>
work  == <<cur, side, todo>>
ctl   == <<pc, to, mem, mode, result>>
given == <<script, origin>>
vars  == <<files, log, store, work, ctl, stale, given, crashes, faults>>

Ops   == 1..MaxOps
Slots == Ops \X Roles

Results == {"none", "killed", "COMMITTED", "ROLLED_BACK", "RECOVERY_REQUIRED",
            "RECOVERY_FAILED", "E_JOURNAL_CORRUPT"}

\* Where the process is about to append a frame to the journal.
Appending == {"transition", "log prepared", "log applied", "assert", "log commit",
              "log undo", "log undone", "log complete"}

Locations == Appending \cup
  {"idle", "plan", "persist", "prepare", "apply", "applying", "verify", "cleanup",
   "cleaned", "release", "recover", "reconcile", "inspect", "undo", "undoing",
   "recheck", "give up", "stopped"}

Metadata == [status : States, cleaned : BOOLEAN]

TypeOK ==
  /\ fs \in [Paths -> Entries]
  /\ tmp \in [Slots -> Entries]
  /\ bak \in [Slots -> Entries]
  /\ jrn \in Journals
  /\ tail \in {"clean", "torn"}
  /\ prep \in Seq(Descriptors)
  /\ meta \in Metadata
  /\ lock \in BOOLEAN
  /\ pc \in Locations
  /\ to \in States
  /\ mem \in Metadata
  /\ mode \in {"run", "undo", "finish"}
  /\ stale \in BOOLEAN
  /\ result \in Results
  /\ cur \in Nat
  /\ side \in {"before", "after"}
  /\ todo \in Seq(Calls)
  /\ script \in Seq(Operations)
  /\ origin \in [Paths -> Entries]
  /\ crashes \in Nat /\ faults \in Nat

Fresh == [status |-> "PLANNED", cleaned |-> FALSE]

Init ==
  /\ \E c \in Cases : script = c.script /\ origin = c.fs /\ fs = c.fs
  /\ tmp = [s \in Slots |-> Absent]
  /\ bak = [s \in Slots |-> Absent]
  /\ jrn = BegunJournal /\ tail = "clean" /\ prep = <<>>
  /\ meta = Fresh /\ lock = FALSE
  /\ pc = "idle" /\ to = "PLANNED" /\ mem = Fresh /\ mode = "run"
  /\ stale = FALSE /\ result = "none"
  /\ cur = 0 /\ side = "before" /\ todo = <<>>
  /\ crashes = 0 /\ faults = 0

--------------------------------------------------------------------------------
(* Where control goes next.                                                 *)

Goto(l) == pc' = l /\ UNCHANGED <<to, mem, mode, result, work>>

GotoOp(l, n) == pc' = l /\ cur' = n /\ UNCHANGED <<to, mem, mode, result, side, todo>>

Transition(s) == pc' = "transition" /\ to' = s /\ UNCHANGED <<mem, mode, result, work>>

\* The process ends and its memory is gone.
Stop(r) ==
  /\ pc' = "stopped" /\ result' = r
  /\ to' = "PLANNED" /\ mem' = Fresh /\ mode' = "run"
  /\ cur' = 0 /\ side' = "before" /\ todo' = <<>>

\* Execute gives up: it closes the transaction and recovers the root itself.
RollbackFailure ==
  /\ pc' = "recover" /\ todo' = <<>>
  /\ UNCHANGED <<to, mem, mode, result, cur, side>>

\* Recover gives up: the failure is journaled while the status is ROLLING_BACK and
\* only written to the metadata otherwise.
Fail ==
  /\ todo' = <<>>
  /\ IF mem.status = "ROLLING_BACK"
     THEN pc' = "transition" /\ to' = "RECOVERY_FAILED" /\ UNCHANGED mem
     ELSE /\ pc' = "give up" /\ mem' = [mem EXCEPT !.status = "RECOVERY_FAILED"]
          /\ UNCHANGED to
  /\ UNCHANGED <<mode, result, cur, side>>

NextOperation(n) ==
  IF n <= Len(script) THEN GotoOp("prepare", n) ELSE Transition("VERIFYING")

NextAssertion(n) ==
  IF n <= Assertions THEN GotoOp("assert", n) ELSE Transition("COMMITTING")

\* A call fails that the operating system may fail here.
Fault == pc \in FaultAt /\ faults < MaxFaults /\ faults' = faults + 1

\* A check of the code fails, or a call it makes where the check would have passed.
Refused(passes) == IF passes THEN Fault ELSE UNCHANGED faults

--------------------------------------------------------------------------------
(* The journal.  stale says that the last append failed after part or all of *)
(* its frame reached the file: the appender has not advanced its sequence    *)
(* number and does not look at the file again.                               *)

Unread(j) == IF tail = "torn" THEN {j, Corrupted(j)} ELSE {Corrupted(j)}

\* A frame is written and synced.  Behind the remains of another it spoils the file,
\* unless the torn frame's length swallows it.
WriteFrame(r) ==
  /\ jrn' \in IF stale \/ tail = "torn" THEN Unread(jrn) ELSE {Extend(jrn, r)}
  /\ UNCHANGED <<tail, stale>>

\* Append answers an error: nothing, a part or the whole of the frame was written.
WriteFrameError(r) ==
  IF stale THEN jrn' \in {jrn, Corrupted(jrn)} /\ UNCHANGED <<tail, stale>>
  ELSE \E written \in {"nothing", "part", "all"} :
         /\ jrn' = IF written = "all" THEN Extend(jrn, r) ELSE jrn
         /\ tail' = IF written = "part" THEN "torn" ELSE tail
         /\ stale' = (written # "nothing")

--------------------------------------------------------------------------------
(* Transaction.Transition: append TX_STATE, then write the metadata.        *)

AppendState ==
  /\ pc = "transition"
  /\ ValidTransition(mem.status, to)
  /\ WriteFrame(StateRecord(to))
  /\ mem' = [mem EXCEPT !.status = to]
  /\ pc' = "persist"
  /\ UNCHANGED <<files, prep, store, work, to, mode, result, given, crashes, faults>>

\* Mutant: the reverse loop of the rollback starts one operation too low.
AfterStateLow ==
  CASE to = "PREPARED"     -> Transition("RUNNING")
    [] to = "RUNNING"      -> NextOperation(1)
    [] to = "VERIFYING"    -> NextAssertion(1)
    [] to = "COMMITTING"   -> Goto("log commit")
    [] to = "ROLLING_BACK" -> GotoOp("inspect", Len(prep) - 1)
    [] Terminal(to)        -> Goto("cleanup")
    [] OTHER               -> Stop("RECOVERY_FAILED")

\* Mutant: COMMITTED is entered without TX_COMMIT before it.
AfterStateUnmarked ==
  CASE to = "PREPARED"     -> Transition("RUNNING")
    [] to = "RUNNING"      -> NextOperation(1)
    [] to = "VERIFYING"    -> NextAssertion(1)
    [] to = "COMMITTING"   -> Transition("COMMITTED")
    [] to = "ROLLING_BACK" -> GotoOp("inspect", Len(prep))
    [] Terminal(to)        -> Goto("cleanup")
    [] OTHER               -> Stop("RECOVERY_FAILED")

AfterState ==
  CASE to = "PREPARED"     -> Transition("RUNNING")
    [] to = "RUNNING"      -> NextOperation(1)
    [] to = "VERIFYING"    -> NextAssertion(1)
    [] to = "COMMITTING"   -> Goto("log commit")
    [] to = "ROLLING_BACK" -> GotoOp("inspect", Len(prep))
    [] Terminal(to)        -> Goto("cleanup")
    [] OTHER               -> Stop("RECOVERY_FAILED")

PersistState ==
  /\ pc = "persist"
  /\ meta' = mem
  /\ AfterState
  /\ UNCHANGED <<files, log, lock, stale, given, crashes, faults>>

\* What the caller of Transition does with its error.
StateError ==
  CASE to \in {"PREPARED", "COMMITTED"}                 -> Stop("RECOVERY_REQUIRED")
    [] to \in {"RUNNING", "VERIFYING", "COMMITTING"}    -> RollbackFailure
    [] to = "ROLLED_BACK"                               -> Fail
    [] OTHER                                            -> Stop("RECOVERY_FAILED")

\* writeAtomic renames and then syncs the directory: its error does not tell whether
\* the new metadata is there.
WriteMetadataFails == meta' \in {meta, mem} /\ UNCHANGED lock

PersistStateFails ==
  /\ pc = "persist"
  /\ Fault
  /\ WriteMetadataFails
  /\ StateError
  /\ UNCHANGED <<files, log, stale, given, crashes>>

--------------------------------------------------------------------------------
(* Execute.                                                                 *)

\* No transaction is pending: the lock is taken, the metadata and TX_BEGIN written.  One
\* step: jrn and meta have their first values from Init on, and nothing reads them before.
Begin ==
  /\ pc = "idle"
  /\ lock' = TRUE
  /\ Goto("plan")
  /\ UNCHANGED <<files, log, meta, stale, given, crashes, faults>>

\* The plan is built again under the lock.
PlanAccepted ==
  /\ pc = "plan"
  /\ Transition("PREPARED")
  /\ UNCHANGED <<files, log, store, stale, given, crashes, faults>>

PlanRejected ==
  /\ pc = "plan"
  /\ RollbackFailure
  /\ UNCHANGED <<files, log, store, stale, given, crashes, faults>>

Op == script[cur]
D  == prep[cur]

\* Mutant: the source of a move is not backed up.
PrepareNoSource ==
  /\ pc = "prepare"
  /\ CanPrepare(fs, Op)
  /\ bak' = [bak EXCEPT ![<<cur, "target">>] = Prepare(fs, Op).prior]
  /\ Goto("log prepared")
  /\ UNCHANGED <<fs, tmp, log, store, stale, given, crashes, faults>>

\* Engine.Prepare: the descriptor and the verified backups of an operation.
PrepareOperation ==
  /\ pc = "prepare"
  /\ CanPrepare(fs, Op)
  /\ bak' = [bak EXCEPT ![<<cur, "target">>] = Prepare(fs, Op).prior,
                        ![<<cur, "source">>] = IF Op.kind = "move" THEN fs[Op.source]
                                               ELSE Absent]
  /\ Goto("log prepared")
  /\ UNCHANGED <<fs, tmp, log, store, stale, given, crashes, faults>>

PrepareFails ==
  /\ pc = "prepare"
  /\ Refused(CanPrepare(fs, Op))
  /\ RollbackFailure
  /\ UNCHANGED <<files, log, store, stale, given, crashes>>

LogPrepared ==
  /\ pc = "log prepared"
  /\ WriteFrame(OpRecord("OP_PREPARED", cur))
  /\ prep' = Append(prep, Prepare(fs, Op))
  /\ Goto("apply")
  /\ UNCHANGED <<files, store, given, crashes, faults>>

StartApply ==
  /\ pc = "apply"
  /\ CanApply(fs, D)
  /\ pc' = "applying" /\ todo' = ApplyCalls(D)
  /\ UNCHANGED <<files, log, store, to, mem, mode, result, cur, side, stale, given,
                 crashes, faults>>

StartApplyFails ==
  /\ pc = "apply"
  /\ Refused(CanApply(fs, D))
  /\ RollbackFailure
  /\ UNCHANGED <<files, log, store, stale, given, crashes>>

FinishApply ==
  /\ pc = "applying" /\ todo = <<>>
  /\ Goto("verify")
  /\ UNCHANGED <<files, log, store, stale, given, crashes, faults>>

VerifyOperation ==
  /\ pc = "verify"
  /\ Verified(fs, D)
  /\ Goto("log applied")
  /\ UNCHANGED <<files, log, store, stale, given, crashes, faults>>

VerifyFails ==
  /\ pc = "verify"
  /\ Refused(Verified(fs, D))
  /\ RollbackFailure
  /\ UNCHANGED <<files, log, store, stale, given, crashes>>

LogApplied ==
  /\ pc = "log applied"
  /\ WriteFrame(OpRecord("OP_APPLIED", cur))
  /\ NextOperation(cur + 1)
  /\ UNCHANGED <<files, prep, store, given, crashes, faults>>

\* A postcondition is evaluated and its result journaled; a false one, or one that
\* cannot be evaluated, rolls back.
Assert ==
  /\ pc = "assert"
  /\ WriteFrame(Marker("ASSERT_RESULT"))
  /\ \E holds \in BOOLEAN : IF holds THEN NextAssertion(cur + 1) ELSE RollbackFailure
  /\ UNCHANGED <<files, prep, store, given, crashes, faults>>

LogCommit ==
  /\ pc = "log commit"
  /\ WriteFrame(Marker("TX_COMMIT"))
  /\ Transition("COMMITTED")
  /\ UNCHANGED <<files, prep, store, given, crashes, faults>>

--------------------------------------------------------------------------------
(* The next file system call of Apply or of Undo.                           *)

TheCall == Head(todo)
Slot    == <<cur, TheCall.role>>

Calling(do) == pc \in {"applying", "undoing"} /\ todo # <<>> /\ TheCall.do = do

Returned == todo' = Tail(todo)

CallFrame == <<log, store, ctl, stale, cur, side, given, crashes, faults>>

CanCreate == tmp[Slot] = Absent /\ InDirectory(fs, TheCall.path)

DoCreate ==
  /\ Calling("create") /\ CanCreate
  /\ tmp' = [tmp EXCEPT ![Slot] = Torn]
  /\ Returned
  /\ UNCHANGED <<fs, bak, CallFrame>>

\* restore reads the backup and compares it with the digest recorded for it.
CanFill == TheCall.role # "apply" => bak[Slot] = TheCall.content

DoFill ==
  /\ Calling("fill") /\ CanFill
  /\ tmp' = [tmp EXCEPT ![Slot] = TheCall.content]
  /\ Returned
  /\ UNCHANGED <<fs, bak, CallFrame>>

DoRemove ==
  /\ Calling("remove")
  /\ fs' = [fs EXCEPT ![TheCall.path] = Absent]
  /\ Returned
  /\ UNCHANGED <<tmp, bak, CallFrame>>

\* Some of the entries of a tree are gone and some are not.
DoRemoveSome ==
  /\ Calling("remove") /\ fs[TheCall.path] \in Trees
  /\ fs' = [fs EXCEPT ![TheCall.path] = Torn]
  /\ UNCHANGED <<tmp, bak, todo, CallFrame>>

DoInstall ==
  /\ Calling("install")
  /\ fs' = [fs EXCEPT ![TheCall.path] = tmp[Slot]]
  /\ tmp' = [tmp EXCEPT ![Slot] = Absent]
  /\ Returned
  /\ UNCHANGED <<bak, CallFrame>>

SameDevice == DeviceOf[TheCall.from] = DeviceOf[TheCall.path]

CanRename == SameDevice /\ InDirectory(fs, TheCall.path)

DoRename ==
  /\ Calling("rename") /\ CanRename
  /\ fs' = [fs EXCEPT ![TheCall.path] = fs[TheCall.from], ![TheCall.from] = Absent]
  /\ Returned
  /\ UNCHANGED <<tmp, bak, CallFrame>>

\* applyRenameMove goes on after a rename that fails: across devices with a copy, and
\* for any other reason only to put the target back.
DoFailedRename ==
  /\ Calling("rename") /\ pc = "applying"
  /\ Refused(CanRename)
  /\ todo' = AfterFailedRename(D, ~SameDevice)
  /\ UNCHANGED <<files, log, store, ctl, stale, cur, side, given, crashes>>

DoMkdir ==
  /\ Calling("mkdir")
  /\ fs[TheCall.path] = Absent /\ InDirectory(fs, TheCall.path)
  /\ fs' = [fs EXCEPT ![TheCall.path] = Dir]
  /\ Returned
  /\ UNCHANGED <<tmp, bak, CallFrame>>

\* A directory is removed only when neither an entry nor a temporary is in it.
Inside(dir) == {p \in Paths : Parent[p] = dir /\ p # dir}

TemporaryPath(s) ==
  IF s[2] = "source" THEN prep[s[1]].source ELSE prep[s[1]].target

CanRmdir ==
  /\ \A p \in Inside(TheCall.path) : fs[p] = Absent
  /\ \A s \in Slots : s[1] <= Len(prep) /\ TemporaryPath(s) \in Inside(TheCall.path)
                        => tmp[s] = Absent

DoRmdir ==
  /\ Calling("rmdir") /\ CanRmdir
  /\ fs' = [fs EXCEPT ![TheCall.path] = Absent]
  /\ Returned
  /\ UNCHANGED <<tmp, bak, CallFrame>>

DoCheckAbsent ==
  /\ Calling("absent") /\ fs[TheCall.path] = Absent
  /\ Returned
  /\ UNCHANGED <<files, CallFrame>>

CanCall ==
  CASE TheCall.do = "create"  -> CanCreate
    [] TheCall.do = "fill"    -> CanFill
    [] TheCall.do = "rename"  -> CanRename
    [] TheCall.do = "mkdir"   -> fs[TheCall.path] = Absent /\ InDirectory(fs, TheCall.path)
    [] TheCall.do = "rmdir"   -> CanRmdir
    [] TheCall.do = "absent"  -> fs[TheCall.path] = Absent
    [] TheCall.do = "give up" -> FALSE
    [] OTHER                  -> TRUE

\* The engine removes the temporary it was filling and answers the error.  A call that
\* takes effect before the sync after it fails is the call followed by the failure of
\* the next step.
CallFails ==
  /\ pc \in {"applying", "undoing"} /\ todo # <<>>
  /\ ~(TheCall.do = "rename" /\ pc = "applying")
  /\ Refused(CanCall)
  /\ tmp' = [tmp EXCEPT ![Slot] = Absent]
  /\ IF pc = "applying" THEN RollbackFailure ELSE Fail
  /\ UNCHANGED <<fs, bak, log, store, stale, given, crashes>>

--------------------------------------------------------------------------------
(* Recover.                                                                 *)

\* Pending: the lock, or metadata that is not terminal, names the transaction.
Pending == pc # "idle" /\ (lock \/ ~Terminal(meta.status))

\* The recover command, in a new process.
RecoverCommand ==
  /\ pc = "stopped" /\ Pending
  /\ pc' = "recover" /\ result' = "none"
  /\ UNCHANGED <<files, log, store, to, mem, mode, work, stale, given, crashes, faults>>

\* Mutant: an incomplete last frame stays in the file.
OpenJournalUncut ==
  /\ pc = "recover" /\ jrn.ok
  /\ stale' = FALSE /\ pc' = "reconcile"
  /\ mode' = IF jrn.committed \/ jrn.rolledBack THEN "finish" ELSE "undo"
  /\ mem' = [meta EXCEPT !.status = IF jrn.committed THEN "COMMITTED"
                                    ELSE IF jrn.rolledBack THEN "ROLLED_BACK"
                                    ELSE jrn.state]
  /\ UNCHANGED <<files, log, store, to, result, work, given, crashes, faults>>

\* Mutant: TX_COMMIT counts only when the state COMMITTED follows it.
OpenJournalByState ==
  /\ pc = "recover" /\ jrn.ok
  /\ tail' = "clean" /\ stale' = FALSE /\ pc' = "reconcile"
  /\ mode' = IF Terminal(jrn.state) THEN "finish" ELSE "undo"
  /\ mem' = [meta EXCEPT !.status = jrn.state]
  /\ UNCHANGED <<files, jrn, prep, store, to, result, work, given, crashes, faults>>

\* Mutant: COMMITTING is taken for committed.
OpenJournalEager ==
  /\ pc = "recover" /\ jrn.ok
  /\ tail' = "clean" /\ stale' = FALSE /\ pc' = "reconcile"
  /\ LET done == jrn.committed \/ jrn.state = "COMMITTING" IN
       /\ mode' = IF done \/ jrn.rolledBack THEN "finish" ELSE "undo"
       /\ mem' = [meta EXCEPT !.status = IF done THEN "COMMITTED"
                                         ELSE IF jrn.rolledBack THEN "ROLLED_BACK"
                                         ELSE jrn.state]
  /\ UNCHANGED <<files, jrn, prep, store, to, result, work, given, crashes, faults>>

\* Replay of a readable journal drops an incomplete last frame and tells what to do:
\* finish a transaction with a terminal marker, roll back one without.
OpenJournal ==
  /\ pc = "recover" /\ jrn.ok
  /\ tail' = "clean" /\ stale' = FALSE
  /\ mode' = IF jrn.committed \/ jrn.rolledBack THEN "finish" ELSE "undo"
  /\ mem' = [meta EXCEPT !.status = IF jrn.committed THEN "COMMITTED"
                                    ELSE IF jrn.rolledBack THEN "ROLLED_BACK"
                                    ELSE jrn.state]
  /\ pc' = "reconcile"
  /\ UNCHANGED <<files, jrn, prep, store, to, result, work, given, crashes, faults>>

OpenJournalFails ==
  /\ pc = "recover"
  /\ Refused(jrn.ok)
  /\ tail' \in {tail} \cup (IF jrn.ok THEN {"clean"} ELSE {})
  /\ Stop(IF jrn.ok THEN "RECOVERY_FAILED" ELSE "E_JOURNAL_CORRUPT")
  /\ UNCHANGED <<files, jrn, prep, store, stale, given, crashes>>

\* Mutant: a finished transaction is released with its backups.
ReconcileUncleaned ==
  /\ pc = "reconcile"
  /\ meta' = mem
  /\ CASE mode = "finish" -> Goto("release")
       [] mode = "undo" /\ mem.status = "ROLLING_BACK" -> GotoOp("inspect", Len(prep))
       [] OTHER -> Transition("ROLLING_BACK")
  /\ UNCHANGED <<files, log, lock, stale, given, crashes, faults>>

\* ReconcileStatus writes the status the journal gives into the metadata.
Reconcile ==
  /\ pc = "reconcile"
  /\ meta' = mem
  /\ CASE mode = "finish" -> Goto(IF mem.cleaned THEN "release" ELSE "cleanup")
       [] mode = "undo" /\ mem.status = "ROLLING_BACK" -> GotoOp("inspect", Len(prep))
       [] OTHER -> Transition("ROLLING_BACK")
  /\ UNCHANGED <<files, log, lock, stale, given, crashes, faults>>

ReconcileFails ==
  /\ pc = "reconcile"
  /\ Fault
  /\ WriteMetadataFails
  /\ IF mode = "finish" THEN Stop("RECOVERY_FAILED") ELSE Fail
  /\ UNCHANGED <<files, log, stale, given, crashes>>

\* Mutant: the temporaries of an interrupted operation are left.
KeepTemporaries == UNCHANGED tmp

CleanTemporaries ==
  tmp' = [s \in Slots |-> IF s[1] = cur THEN Absent ELSE tmp[s]]

Here == Classify(fs, D)

\* Mutant: a resumed rollback takes what it finds undone for a conflict.
CanInspectSwapped ==
  /\ Here # "ambiguous"
  /\ cur \in jrn.rollbackApplied => Here = "after"

\* An operation rolled back by an earlier recovery must be found so.
CanInspect ==
  /\ Here # "ambiguous"
  /\ cur \in jrn.rollbackApplied => Here = "before"

InspectDone ==
  /\ pc = "inspect" /\ cur > 0
  /\ CanInspect /\ cur \in jrn.rollbackApplied
  /\ CleanTemporaries
  /\ GotoOp("inspect", cur - 1)
  /\ UNCHANGED <<fs, bak, log, store, stale, given, crashes, faults>>

\* Mutant: the rollback of an operation is not announced in the journal.
InspectUnlogged ==
  /\ pc = "inspect" /\ cur > 0
  /\ CanInspect /\ cur \notin jrn.rollbackApplied
  /\ CleanTemporaries
  /\ side' = Here /\ pc' = "undo"
  /\ UNCHANGED <<fs, bak, log, store, to, mem, mode, result, cur, todo, stale, given,
                 crashes, faults>>

Inspect ==
  /\ pc = "inspect" /\ cur > 0
  /\ CanInspect /\ cur \notin jrn.rollbackApplied
  /\ CleanTemporaries
  /\ side' = Here
  /\ pc' = IF cur \in jrn.rollbackPrepared THEN "undo" ELSE "log undo"
  /\ UNCHANGED <<fs, bak, log, store, to, mem, mode, result, cur, todo, stale, given,
                 crashes, faults>>

InspectRefused ==
  /\ pc = "inspect" /\ cur > 0
  /\ ~CanInspect
  /\ CleanTemporaries
  /\ Fail
  /\ UNCHANGED <<fs, bak, log, store, stale, given, crashes, faults>>

\* The capabilities, the backups, a temporary or an entry cannot be opened.
InspectFails ==
  /\ pc = "inspect"
  /\ Fault
  /\ Fail
  /\ UNCHANGED <<files, log, store, stale, given, crashes>>

LogUndo ==
  /\ pc = "log undo"
  /\ WriteFrame(OpRecord("ROLLBACK_PREPARED", cur))
  /\ Goto("undo")
  /\ UNCHANGED <<files, prep, store, given, crashes, faults>>

StartUndo ==
  /\ pc = "undo" /\ side = "after"
  /\ CanUndo(fs, D)
  /\ pc' = "undoing" /\ todo' = UndoCalls(D)
  /\ UNCHANGED <<files, log, store, to, mem, mode, result, cur, side, stale, given,
                 crashes, faults>>

NothingToUndo ==
  /\ pc = "undo" /\ side = "before"
  /\ Goto("recheck")
  /\ UNCHANGED <<files, log, store, stale, given, crashes, faults>>

UndoRefused ==
  /\ pc = "undo" /\ side = "after"
  /\ Refused(CanUndo(fs, D))
  /\ Fail
  /\ UNCHANGED <<files, log, store, stale, given, crashes>>

FinishUndo ==
  /\ pc = "undoing" /\ todo = <<>>
  /\ Goto("recheck")
  /\ UNCHANGED <<files, log, store, stale, given, crashes, faults>>

Recheck ==
  /\ pc = "recheck" /\ Here = "before"
  /\ Goto("log undone")
  /\ UNCHANGED <<files, log, store, stale, given, crashes, faults>>

RecheckFails ==
  /\ pc = "recheck"
  /\ Refused(Here = "before")
  /\ Fail
  /\ UNCHANGED <<files, log, store, stale, given, crashes>>

LogUndone ==
  /\ pc = "log undone"
  /\ WriteFrame(OpRecord("ROLLBACK_APPLIED", cur))
  /\ GotoOp("inspect", cur - 1)
  /\ UNCHANGED <<files, prep, store, given, crashes, faults>>

AllUndone ==
  /\ pc = "inspect" /\ cur = 0
  /\ Goto("log complete")
  /\ UNCHANGED <<files, log, store, stale, given, crashes, faults>>

LogComplete ==
  /\ pc = "log complete"
  /\ WriteFrame(Marker("TX_ROLLBACK_COMPLETE"))
  /\ Transition("ROLLED_BACK")
  /\ UNCHANGED <<files, prep, store, given, crashes, faults>>

\* fail, outside ROLLING_BACK: the metadata alone says RECOVERY_FAILED.
GiveUp ==
  /\ pc = "give up"
  /\ meta' = mem
  /\ Stop("RECOVERY_FAILED")
  /\ UNCHANGED <<files, log, lock, stale, given, crashes, faults>>

GiveUpFails ==
  /\ pc = "give up"
  /\ Fault
  /\ WriteMetadataFails
  /\ Stop("RECOVERY_FAILED")
  /\ UNCHANGED <<files, log, stale, given, crashes>>

--------------------------------------------------------------------------------
(* The end of a transaction, in Execute and in Recover.                     *)

\* CleanupBackups removes the backup directory and then says so in the metadata.
RemoveBackups ==
  /\ pc = "cleanup"
  /\ bak' = [s \in Slots |-> Absent]
  /\ mem' = [mem EXCEPT !.cleaned = TRUE]
  /\ pc' = "cleaned"
  /\ UNCHANGED <<fs, tmp, log, store, to, mode, result, work, stale, given, crashes,
                 faults>>

RecordCleanup ==
  /\ pc = "cleaned"
  /\ meta' = mem
  /\ Goto("release")
  /\ UNCHANGED <<files, log, lock, stale, given, crashes, faults>>

Release ==
  /\ pc = "release" /\ Terminal(mem.status)
  /\ lock' = FALSE
  /\ Stop(mem.status)
  /\ UNCHANGED <<files, log, meta, stale, given, crashes, faults>>

\* Each of the three removes or renames and then syncs a directory: its error does not
\* tell which of the two failed.
EndAttempted ==
  /\ bak' \in {bak} \cup (IF pc = "cleanup" THEN {[s \in Slots |-> Absent]} ELSE {})
  /\ meta' \in {meta} \cup (IF pc = "cleaned" THEN {mem} ELSE {})
  /\ lock' \in {lock} \cup (IF pc = "release" THEN {FALSE} ELSE {})

\* Mutant: Execute does not look at the errors of the cleanup and the release.
EndFailsIgnored ==
  /\ pc \in {"cleanup", "cleaned", "release"}
  /\ Fault
  /\ EndAttempted
  /\ CASE mode = "run"    -> Stop("COMMITTED")
       [] mode = "finish" -> Stop("RECOVERY_FAILED")
       [] OTHER           -> Fail
  /\ UNCHANGED <<fs, tmp, log, stale, given, crashes>>

EndFails ==
  /\ pc \in {"cleanup", "cleaned", "release"}
  /\ Fault
  /\ EndAttempted
  /\ CASE mode = "run"    -> Stop("RECOVERY_REQUIRED")
       [] mode = "finish" -> Stop("RECOVERY_FAILED")
       [] OTHER           -> Fail
  /\ UNCHANGED <<fs, tmp, log, stale, given, crashes>>

--------------------------------------------------------------------------------
(* Failures of the journal, and crashes.                                    *)

\* The frame the process is about to append.
Frame ==
  CASE pc = "transition"   -> StateRecord(to)
    [] pc = "log prepared" -> OpRecord("OP_PREPARED", cur)
    [] pc = "log applied"  -> OpRecord("OP_APPLIED", cur)
    [] pc = "assert"       -> Marker("ASSERT_RESULT")
    [] pc = "log commit"   -> Marker("TX_COMMIT")
    [] pc = "log undo"     -> OpRecord("ROLLBACK_PREPARED", cur)
    [] pc = "log undone"   -> OpRecord("ROLLBACK_APPLIED", cur)
    [] OTHER               -> Marker("TX_ROLLBACK_COMPLETE")

AppendError ==
  CASE pc = "transition" -> StateError
    [] pc \in {"log prepared", "log applied", "assert", "log commit"}
                         -> Stop("RECOVERY_REQUIRED")
    [] OTHER             -> Fail

AppendFails ==
  /\ pc \in Appending
  /\ Fault
  /\ WriteFrameError(Frame)
  /\ prep' = IF pc = "log prepared" /\ jrn'.prepared # jrn.prepared
             THEN Append(prep, Prepare(fs, Op)) ELSE prep
  /\ AppendError
  /\ UNCHANGED <<files, store, given, crashes>>

\* The process is killed; in the middle of an append, a part of the frame may stay.
Crash ==
  /\ pc \in CrashAt \ {"idle", "stopped"}
  /\ crashes < MaxCrashes
  /\ crashes' = crashes + 1
  /\ tail' \in IF pc \in Appending /\ ~stale THEN {tail, "torn"} ELSE {tail}
  /\ Stop("killed")
  /\ UNCHANGED <<files, jrn, prep, store, stale, given, faults>>

--------------------------------------------------------------------------------

Execute ==
  \/ Begin \/ PlanAccepted \/ PlanRejected
  \/ PrepareOperation \/ PrepareFails \/ LogPrepared
  \/ StartApply \/ StartApplyFails \/ FinishApply
  \/ VerifyOperation \/ VerifyFails \/ LogApplied
  \/ Assert \/ LogCommit

FileCall ==
  \/ DoCreate \/ DoFill \/ DoRemove \/ DoRemoveSome \/ DoInstall
  \/ DoRename \/ DoFailedRename \/ DoMkdir \/ DoRmdir \/ DoCheckAbsent
  \/ CallFails

Recover ==
  \/ OpenJournal \/ OpenJournalFails \/ Reconcile \/ ReconcileFails
  \/ InspectDone \/ Inspect \/ InspectRefused \/ InspectFails
  \/ LogUndo \/ StartUndo \/ NothingToUndo \/ UndoRefused \/ FinishUndo
  \/ Recheck \/ RecheckFails \/ LogUndone
  \/ AllUndone \/ LogComplete \/ GiveUp \/ GiveUpFails

Durable ==
  \/ AppendState \/ PersistState \/ PersistStateFails \/ AppendFails
  \/ RemoveBackups \/ RecordCleanup \/ Release \/ EndFails

\* The process takes a step.
Run == Execute \/ FileCall \/ Recover \/ Durable

\* The transaction is over; the root is free for the next one.
Done == pc = "stopped" /\ ~Pending /\ UNCHANGED vars

Next == Run \/ RecoverCommand \/ Crash \/ Done

Spec == Init /\ [][Next]_vars

\* A process that runs goes on, and somebody runs recover again after it stopped.
FairSpec == Spec /\ WF_vars(Run) /\ WF_vars(RecoverCommand)

--------------------------------------------------------------------------------
(* What the transaction promises.                                           *)

Decided == jrn.committed \/ jrn.rolledBack

NoTemporaries == \A s \in Slots : tmp[s] = Absent

\* Once the journal says TX_ROLLBACK_COMPLETE, every path holds what it held before
\* the transaction and no temporary of the engine is left beside it, however often
\* the process or an earlier recovery was interrupted (recovery.go, Recover).
RollbackRestores == jrn.rolledBack => fs = origin /\ NoTemporaries

\* The effect of an operation as the language defines it.
Effect(f, op) ==
  CASE op.kind = "mkdir" ->
         [p \in Paths |-> IF p \in {op.target, Parent[op.target]} /\ f[p] = Absent
                          THEN Dir ELSE f[p]]
    [] op.kind = "copy"    -> [f EXCEPT ![op.target] = f[op.source]]
    [] op.kind = "move"    -> [f EXCEPT ![op.target] = f[op.source], ![op.source] = Absent]
    [] op.kind = "write"   -> [f EXCEPT ![op.target] = op.content]
    [] op.kind = "replace" -> [f EXCEPT ![op.target] = IF IsRegular(@) THEN Replaced[@] ELSE @]
    [] op.kind = "delete"  -> [f EXCEPT ![op.target] = Absent]

\* The files after each operation of a script.
Stages(old, ops) ==
  LET after[n \in 0..Len(ops)] == IF n = 0 THEN old ELSE Effect(after[n - 1], ops[n])
  IN  after

Outcome == Stages(origin, script)[Len(script)]

\* Once the journal says TX_COMMIT, the files are what the whole script makes of the
\* initial ones, in source order, and no temporary is left (txn.go, Execute).
CommitIsWhole == jrn.committed => fs = Outcome /\ NoTemporaries

\* What operation i saved of path p.
Touches(i, p) ==
  \/ p = prep[i].target /\ prep[i].kind # "mkdir"
  \/ p = prep[i].source /\ prep[i].kind = "move"
  \/ \E k \in 1..Len(prep[i].created) : p = prep[i].created[k]

Saved(i, p) ==
  CASE prep[i].kind = "mkdir"                     -> Absent
    [] prep[i].kind = "move" /\ p = prep[i].source -> bak[<<i, "source">>]
    [] OTHER                                      -> bak[<<i, "target">>]

\* As long as the outcome is open, every path that differs from its initial state is
\* covered by a journaled descriptor whose backup still holds the initial state:
\* descriptors are durable before their first change, and backups outlive every
\* failed recovery (txn.go, Execute; recovery.go, fail).
ChangesAreSaved ==
  ~Decided => \A p \in Paths : fs[p] # origin[p] =>
                \E i \in 1..Len(prep) : Touches(i, p) /\ Saved(i, p) = origin[p]

\* The lock goes last: a root without it holds no open outcome and no backup, and
\* nothing but the status of its metadata may still have to be brought up to date
\* (state.go, Release; recovery.go, Recover).
ReleaseIsLast ==
  pc # "idle" /\ ~lock => Decided /\ meta.cleaned /\ \A s \in Slots : bak[s] = Absent

\* The metadata names a terminal status only after the journal has the marker for it:
\* Unresolved trusts the metadata alone (state.go, Unresolved).
TerminalStatusIsJournaled ==
  /\ meta.status = "COMMITTED" => jrn.committed
  /\ meta.status = "ROLLED_BACK" => jrn.rolledBack

\* What the commands report is what is on disk: COMMITTED and ROLLED_BACK name the
\* durable outcome of a root that is free again, and an unreadable journal keeps the
\* root from its next run (txn.go, Execute and rollbackFailure; recovery.go, Pending).
ResultIsTrue ==
  /\ result = "COMMITTED" => jrn.committed /\ ~Pending
  /\ result = "ROLLED_BACK" => jrn.rolledBack /\ ~Pending
  /\ result = "E_JOURNAL_CORRUPT" => Pending

\* Crashes alone never make the journal unreadable: every frame the program appends
\* is one its reader accepts where it stands, also after a torn tail was cut off and
\* after any number of interrupted recoveries (journal.go, Decode).
JournalStaysReadable == jrn.ok

\* A file changes only under a frame that announced it: forward, of the one operation
\* prepared and not yet applied; backward, of the operation whose rollback is
\* prepared and not applied, all later ones being rolled back already.
ChangeIsAnnounced ==
  \/ jrn.state = "RUNNING" /\ jrn.prepared \ jrn.applied = {cur}
  \/ /\ jrn.state = "ROLLING_BACK"
     /\ cur \in jrn.rollbackPrepared \ jrn.rollbackApplied
     /\ \A i \in jrn.prepared : i > cur => i \in jrn.rollbackApplied

ChangesAreAnnounced == [][fs' # fs => ChangeIsAnnounced]_vars

\* Somebody who runs recover until it succeeds ends the transaction, one way or the
\* other, and frees the root.
Resolves == pc # "idle" ~> ~Pending

Decision ==
  IF jrn.committed THEN "committed" ELSE IF jrn.rolledBack THEN "rolled back" ELSE "open"

Atomic == INSTANCE AtomicUpdate WITH
            FileStates <- [Paths -> Entries], files <- fs, decision <- Decision,
            before <- origin, after <- Outcome

\* The transaction implements the atomic update: the durable terminal marker decides
\* between all and nothing, and the runtime never touches the files after it.
AllOrNothing == Atomic!Spec

\* What docs/TECHNICAL_SPEC.md (recovery is idempotent and resumes safely) and README.md
\* (an interruption is rolled back) promise: a transaction that only crashes and its own
\* refusals disturb never ends in RECOVERY_FAILED.
NeverFailsRecovery == jrn.state # "RECOVERY_FAILED"

================================================================================
